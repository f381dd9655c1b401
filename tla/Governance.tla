------------------------------ MODULE Governance ------------------------------
(***************************************************************************)
(* The vault under governance (contracts/vault/src/governance.rs): the     *)
(* share ledger of VaultShares composed with the guardian's pause and the  *)
(* timelocked changes of fee terms and roles and the timelocked resume.    *)
(*                                                                         *)
(* There is one slot for a pending change.  The admin announces into it,   *)
(* the guardian may cancel it, and once ROLE_DELAY ledgers have passed     *)
(* anybody may apply it.  A change is named by the hash of the config      *)
(* version and its content; the pair itself stands for the hash.           *)
(***************************************************************************)
EXTENDS VaultShares

CONSTANTS
    ROLE_DELAY,     \* ledgers between announcement and application
    Changes,        \* changes the admin may announce, valid or not
    Versions,       \* versions callers put into the hashes they pass
    InitialRoles,   \* role holders the constructor may be given
    NoPending

Role == {"admin", "executor", "guardian"}

\* Change::Fees(f), Change::Role(role, address) and Change::Resume.
ChangeSet ==
    [kind : {"fees"}, value : [management_bps : Nat, performance_bps : Nat,
                               recipient : Accounts]]
      \cup [kind : Role, value : Accounts]
      \cup [kind : {"paused"}, value : {FALSE}]

Pending == [hash : Nat \X ChangeSet, earliest : Nat, change : ChangeSet]

ASSUME GovernanceAssumption ==
    /\ ROLE_DELAY \in Nat
    /\ Changes \subseteq ChangeSet
    /\ InitialRoles \subseteq [Role -> Holders]
    /\ Versions \subseteq Nat
    /\ NoPending \notin Pending
    /\ NoPending \notin [change : ChangeSet, given : Int]

VARIABLES
    roles,      \* Config.admin, Config.executor and Config.guardian
    pending,    \* storage key Pending: NoPending or the announced change
    version     \* State.version

governed == <<roles, pending, version>>

Hash(v, change) == <<v, change>>

-----------------------------------------------------------------------------
(* Governance calls.                                                       *)

\* A fault: only the recipient of new fee terms is validated.
ValidFeesAnyRate(f) == f.recipient # Vault

\* fees::validate
ValidFees(f) ==
    /\ f.management_bps <= MAX_MANAGEMENT_BPS
    /\ f.performance_bps <= MAX_PERFORMANCE_BPS
    /\ f.recipient # Vault

Pause ==
    /\ state' = [state EXCEPT !.paused = TRUE]
    /\ signers' = {roles["guardian"]}
    /\ UNCHANGED <<fees, balance, allowance, holdings, price, now>>
    /\ UNCHANGED governed

Announce(change) ==
    /\ pending = NoPending
    /\ change.kind = "fees" => ValidFees(change.value)
    /\ pending' = [hash     |-> Hash(version, change),
                   earliest |-> now + ROLE_DELAY,
                   change   |-> change]
    /\ signers' = {roles["admin"]}
    /\ UNCHANGED <<state, fees, balance, allowance, holdings, price, now>>
    /\ UNCHANGED <<roles, version>>

Cancel(hash) ==
    /\ pending # NoPending /\ pending.hash = hash
    /\ pending' = NoPending
    /\ signers' = {roles["guardian"]}
    /\ UNCHANGED <<state, fees, balance, allowance, holdings, price, now>>
    /\ UNCHANGED <<roles, version>>

\* A fault: a change can be applied as soon as it is announced.
MaturedAtOnce(hash) == pending # NoPending /\ pending.hash = hash

\* A fault: an applied change stays in the slot.
AppliedKept ==
    /\ version' = version + 1
    /\ UNCHANGED <<pending, allowance, holdings, price, now>>

\* What every application checks and does.
Matured(hash) ==
    /\ pending # NoPending /\ pending.hash = hash
    /\ now >= pending.earliest

Applied ==
    /\ pending' = NoPending
    /\ version' = version + 1
    /\ UNCHANGED <<allowance, holdings, price, now>>

\* A fault: new fee terms start from a new mark.
ApplyFeesResetting(hash) ==
    /\ Matured(hash) /\ pending.change.kind = "fees"
    /\ FlowOpen
    /\ ValidFees(pending.change.value)
    /\ state' = [Settlement.state EXCEPT
                   !.high_water = MulDivCeil(Equity(holdings), SCALE,
                                               Settlement.state.supply)]
    /\ balance' = Settled(Settlement.minted)
    /\ fees' = pending.change.value
    /\ signers' = {}
    /\ Applied /\ UNCHANGED roles

\* The fees owed under the old terms are settled before the new ones are set.
ApplyFees(hash) ==
    /\ Matured(hash) /\ pending.change.kind = "fees"
    /\ FlowOpen
    /\ ValidFees(pending.change.value)
    /\ state' = Settlement.state
    /\ balance' = Settled(Settlement.minted)
    /\ fees' = pending.change.value
    /\ signers' = {}
    /\ Applied /\ UNCHANGED roles

\* The new role holder accepts with its own authorization.
ApplyRole(hash) ==
    /\ Matured(hash) /\ pending.change.kind \in Role
    /\ pending.change.value # Vault
    /\ roles' = [roles EXCEPT ![pending.change.kind] = pending.change.value]
    /\ signers' = {pending.change.value}
    /\ Applied /\ UNCHANGED <<state, fees, balance>>

ApplyResume(hash) ==
    /\ Matured(hash) /\ pending.change.kind = "paused"
    /\ Priced(holdings) /\ Equity(holdings) > 0
    /\ state' = [state EXCEPT !.paused = FALSE]
    /\ signers' = {}
    /\ Applied /\ UNCHANGED <<fees, balance, roles>>

ApplyChange(hash) == ApplyFees(hash) \/ ApplyRole(hash) \/ ApplyResume(hash)

-----------------------------------------------------------------------------
(* The specification.                                                      *)

GovernedInit ==
    /\ Init
    /\ roles \in InitialRoles
    /\ pending = NoPending
    /\ version = 1

Govern ==
    \/ Pause
    \/ \E change \in Changes : Announce(change)
    \/ \E v \in Versions, change \in Changes :
          Cancel(Hash(v, change)) \/ ApplyChange(Hash(v, change))

GovernedNext == (Next /\ UNCHANGED governed) \/ Govern

GovernedSpec == GovernedInit /\ [][GovernedNext]_<<vars, governed>>

-----------------------------------------------------------------------------
(* Properties.                                                             *)

GovernanceTypeOK ==
    /\ TypeOK
    /\ roles \in [Role -> Holders]
    /\ pending \in Pending \cup {NoPending}
    /\ version \in Nat

\* The pending slot always names the current version and its own content: a
\* hash reviewed or signed for one version can never cancel or apply a change of
\* another, and no applied change can be applied again.  The same content
\* announced twice in one version has one hash.
HashIsCurrent ==
    pending # NoPending => pending.hash = Hash(version, pending.change)

\* The terms holders rely on, as the topics of Timelock.
Terms == [topic \in {"fees", "paused"} \cup Role |->
            CASE topic = "fees"   -> fees
              [] topic = "paused" -> state.paused
              [] OTHER            -> roles[topic]]

Notice == IF pending = NoPending THEN NoPending
          ELSE [change |-> pending.change,
                given  |-> pending.earliest - ROLE_DELAY]

Holder == INSTANCE Timelock WITH
            Proposals <- Changes,
            Delay     <- ROLE_DELAY,
            NoNotice  <- NoPending,
            terms     <- Terms,
            notice    <- Notice,
            clock     <- now

\* The vault keeps the promise of Timelock, whatever is interleaved between the
\* announcement and the application: flows, pauses, cancellations and
\* re-announcements, role changes and fee settlements.
KeepsNotice == Holder!Promise

\* A change of fee terms is prospective (docs/interfaces.md: "fee changes settle
\* old terms first"): right after it nothing is left to be charged at the new
\* rates.
FeeChangesAreProspective ==
    [][fees' # fees =>
         Settle(state', fees', now', Equity(holdings)').minted = 0]_<<vars, governed>>

=============================================================================

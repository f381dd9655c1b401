------------------------------- MODULE Timelock -------------------------------
(***************************************************************************)
(* What the vault promises its holders about its terms: the fees, the      *)
(* roles and whether issuance is stopped.  A change takes effect only      *)
(* after notice of exactly that change has stood for the whole delay       *)
(* without being withdrawn.  Only stopping issuance needs no notice.       *)
(***************************************************************************)
EXTENDS Naturals

CONSTANTS Proposals, Delay, NoNotice

VARIABLES
    terms,      \* the value in force of every topic
    notice,     \* NoNotice or the announced change and when it was given
    clock

Start == notice = NoNotice

Give ==
    /\ notice = NoNotice
    /\ \E p \in Proposals : notice' = [change |-> p, given |-> clock]
    /\ UNCHANGED <<terms, clock>>

Retract ==
    /\ notice # NoNotice
    /\ notice' = NoNotice
    /\ UNCHANGED <<terms, clock>>

TakeEffect ==
    /\ notice # NoNotice
    /\ clock >= notice.given + Delay
    /\ terms' = [terms EXCEPT ![notice.change.kind] = notice.change.value]
    /\ notice' = NoNotice
    /\ UNCHANGED clock

Stop ==
    /\ terms' = [terms EXCEPT !["paused"] = TRUE]
    /\ UNCHANGED <<notice, clock>>

Pass ==
    /\ clock' > clock
    /\ UNCHANGED <<terms, notice>>

Act == Give \/ Retract \/ TakeEffect \/ Stop \/ Pass

Promise == Start /\ [][Act]_<<terms, notice, clock>>

=============================================================================

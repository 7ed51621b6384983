--------------------------- MODULE DepositLifecycle ---------------------------
(***************************************************************************)
(* What the bridge promises of a deposit, whatever the relayer does: it is *)
(* locked once on Ethereum, credited at most once on the rollup and for    *)
(* what was locked, withdrawn at most once and for what was credited, and  *)
(* paid out at most once and for what was locked.  Amounts are per         *)
(* deposit; 0 means not yet.                                               *)
(*                                                                         *)
(* Nothing ties the payment on Ethereum to the withdrawal on the rollup:   *)
(* the relayer pays even when the rollup did not record a withdrawal.      *)
(***************************************************************************)
EXTENDS Naturals

CONSTANTS Ids, LockAmounts

VARIABLES locked, credited, withdrawn, paid

lifeVars == <<locked, credited, withdrawn, paid>>

LifeInit ==
    /\ locked = [d \in Ids |-> 0]
    /\ credited = [d \in Ids |-> 0]
    /\ withdrawn = [d \in Ids |-> 0]
    /\ paid = [d \in Ids |-> 0]

Lock(d, amount) ==
    /\ locked[d] = 0
    /\ amount > 0
    /\ locked' = [locked EXCEPT ![d] = amount]
    /\ UNCHANGED <<credited, withdrawn, paid>>

CreditDeposit(d) ==
    /\ locked[d] > 0 /\ credited[d] = 0
    /\ credited' = [credited EXCEPT ![d] = locked[d]]
    /\ UNCHANGED <<locked, withdrawn, paid>>

WithdrawDeposit(d) ==
    /\ credited[d] > 0 /\ withdrawn[d] = 0
    /\ withdrawn' = [withdrawn EXCEPT ![d] = credited[d]]
    /\ UNCHANGED <<locked, credited, paid>>

PayDeposit(d) ==
    /\ locked[d] > 0 /\ paid[d] = 0
    /\ paid' = [paid EXCEPT ![d] = locked[d]]
    /\ UNCHANGED <<locked, credited, withdrawn>>

LifeNext ==
    \E d \in Ids : \/ \E amount \in LockAmounts : Lock(d, amount)
                   \/ CreditDeposit(d)
                   \/ WithdrawDeposit(d)
                   \/ PayDeposit(d)

LifeSpec == LifeInit /\ [][LifeNext]_lifeVars
=============================================================================

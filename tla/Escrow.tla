-------------------------------- MODULE Escrow --------------------------------
(***************************************************************************)
(* What a wager promises about money, with no policies, clocks or fees:    *)
(* deposits are taken until the escrow is locked; it is settled once, by   *)
(* fixing what every claimant is owed, never more than is held; after that *)
(* each claimant is paid exactly that amount, once, in any order.          *)
(***************************************************************************)
EXTENDS Integers, Functions

CONSTANT Claimants

VARIABLES phase, held, owed

escrowVars == <<phase, held, owed>>

EscrowInit ==
    /\ phase = "collecting"
    /\ held = 0
    /\ owed = [c \in Claimants |-> 0]

\* The last deposit may be the one that locks the escrow.
Deposit ==
    /\ phase = "collecting"
    /\ held' > held
    /\ phase' \in {"collecting", "locked"}
    /\ UNCHANGED owed

Lock ==
    /\ phase = "collecting"
    /\ phase' = "locked"
    /\ UNCHANGED <<held, owed>>

Settle ==
    /\ phase = "locked"
    /\ phase' = "settled"
    /\ owed' \in [Claimants -> Nat]
    /\ SumFunction(owed') <= held
    /\ UNCHANGED held

Pay(c) ==
    /\ phase = "settled"
    /\ owed[c] > 0
    /\ held >= owed[c]
    /\ held' = held - owed[c]
    /\ owed' = [owed EXCEPT ![c] = 0]
    /\ UNCHANGED phase

EscrowNext ==
    \/ Deposit
    \/ Lock
    \/ Settle
    \/ \E c \in Claimants : Pay(c)

EscrowSpec == EscrowInit /\ [][EscrowNext]_escrowVars
===============================================================================

--------------------------- MODULE ReviewMachine ---------------------------
(***************************************************************************)
(* What the proposition service promises an operator: a draft is edited    *)
(* while it is pending, decided once, and sent to the factory with the     *)
(* text it was approved with; its status never goes back                   *)
(* (service/proposition/db.py, module text; docs/PROPOSITION-SERVICE.md,   *)
(* Operator workflow).                                                     *)
(***************************************************************************)
EXTENDS Integers, Sequences

VARIABLES
    proposal,   \* the drafts in order of creation: [status, content]
    wager       \* wagers created on chain, in order: [proposal, content]

Statuses == {"pending", "approved", "rejected", "dispatched", "dispatch_failed"}

Init == proposal = <<>> /\ wager = <<>>

Draft ==
    /\ Len(proposal') = Len(proposal) + 1
    /\ proposal' = Append(proposal, [status |-> "pending",
                                     content |-> proposal'[Len(proposal')].content])
    /\ UNCHANGED wager

Moves(p, from, to) ==
    proposal[p].status = from /\ proposal' = [proposal EXCEPT ![p].status = to]

Edit(p) ==
    /\ proposal[p].status = "pending"
    /\ proposal' = [proposal EXCEPT ![p].content = proposal'[p].content]
    /\ UNCHANGED wager

Decide(p) ==
    /\ Moves(p, "pending", "approved") \/ Moves(p, "pending", "rejected")
    /\ UNCHANGED wager

Send(p) ==
    /\ proposal[p].status = "approved"
    /\ wager' = Append(wager, [proposal |-> p, content |-> proposal[p].content])
    /\ UNCHANGED proposal

\* A dispatch is called a success only if it made a wager; a failed one may have.
Settle(p) ==
    /\ \/ Moves(p, "approved", "dispatch_failed")
       \/ Moves(p, "approved", "dispatched") /\ \E n \in DOMAIN wager : wager[n].proposal = p
    /\ UNCHANGED wager

Next == Draft \/ \E p \in DOMAIN proposal : Edit(p) \/ Decide(p) \/ Send(p) \/ Settle(p)

Spec == Init /\ [][Next]_<<proposal, wager>>
=============================================================================

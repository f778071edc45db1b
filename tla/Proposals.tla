----------------------------- MODULE Proposals -----------------------------
(***************************************************************************)
(* The proposals table of the proposition service and the requests of its  *)
(* operators.  ThreadingHTTPServer runs each request on a thread with a    *)
(* connection of its own; a request reads a row and writes it back in      *)
(* statements of their own transaction, so requests interleave between the *)
(* read and the write, and around the `cast send` of a dispatch.           *)
(***************************************************************************)
EXTENDS Integers, Sequences, FiniteSets

CONSTANTS
    Requests,           \* names of the threads that serve requests
    Contents,           \* what an operator may make a draft say
    Settings            \* one server and the bounds explored with it

\* The requests served at the same time; --allow-execute; whether factory,
\* collateral, RPC and key are set. Bounds: drafts, transactions, restarts.
IsSetting(s) ==
    /\ s.requests \subseteq Requests
    /\ s.allowExecute \in BOOLEAN /\ s.configured \in BOOLEAN
    /\ s.proposals \in Nat /\ s.wagers \in Nat /\ s.crashes \in Nat

ASSUME ProposalsAssumption == \A s \in Settings : IsSetting(s)

VARIABLES
    setting,    \* one of Settings, fixed
    proposal,   \* table proposals: [status, content], by id
    wager,      \* wagers the factory created, in order: [proposal, content]
    request,    \* what each thread has read and is about to do
    crashes

vars == <<setting, proposal, wager, request, crashes>>

Statuses == {"pending", "approved", "rejected", "dispatched", "dispatch_failed"}

Answered(answer) == [step |-> "idle", answer |-> answer]
Begins(r, step, id, row) ==
    request' = [request EXCEPT ![r] = [step |-> step, id |-> id, row |-> row]]
Answers(r, answer) == request' = [request EXCEPT ![r] = Answered(answer)]
Idle(r) == request[r].step = "idle"

-------------------------------------------------------------------------------
(* db.py *)

InsertProposal(c) == Append(proposal, [status |-> "pending", content |-> c])

\* The UPDATEs name the row by its id alone.
UpdateStatus(id, status) == [proposal EXCEPT ![id].status = status]
UpdateContent(id, c) == [proposal EXCEPT ![id].content = c]

-------------------------------------------------------------------------------
(* PATCH /api/proposals/{id}: SELECT status, then UPDATE the content *)

\* Mutant: an approved draft can still be reworded.
EditableUntilDispatched(row) == row.status \in {"pending", "approved"}

Editable(row) == row.status = "pending"

BeginEdit(r) ==
    /\ Idle(r)
    /\ \E id \in DOMAIN proposal, c \in Contents :
        IF Editable(proposal[id])
        THEN Begins(r, "edit", id, [proposal[id] EXCEPT !.content = c])
        ELSE Answers(r, "only pending proposals are editable")
    /\ UNCHANGED <<setting, proposal, wager, crashes>>

WriteContent(r) ==
    /\ request[r].step = "edit"
    /\ proposal' = UpdateContent(request[r].id, request[r].row.content)
    /\ Answers(r, "ok")
    /\ UNCHANGED <<setting, wager, crashes>>

-------------------------------------------------------------------------------
(* POST /api/proposals/{id}/approve and /reject *)

Decidable(row) == row.status = "pending"

BeginDecision(r) ==
    /\ Idle(r)
    /\ \E id \in DOMAIN proposal, verdict \in {"approved", "rejected"} :
        IF Decidable(proposal[id])
        THEN Begins(r, "decide", id, [proposal[id] EXCEPT !.status = verdict])
        ELSE Answers(r, "not pending")
    /\ UNCHANGED <<setting, proposal, wager, crashes>>

WriteStatus(r) ==
    /\ request[r].step = "decide"
    /\ proposal' = UpdateStatus(request[r].id, request[r].row.status)
    /\ Answers(r, "ok")
    /\ UNCHANGED <<setting, wager, crashes>>

-------------------------------------------------------------------------------
(* POST /api/proposals/{id}/dispatch: read, cast send, write the outcome *)

\* Mutant: a failed dispatch is sent again.
DispatchableAgain(row) == row.status \in {"approved", "dispatch_failed"}

Dispatchable(row) == row.status = "approved"

BeginDispatch(r) ==
    /\ Idle(r)
    /\ \E id \in DOMAIN proposal :
        IF ~Dispatchable(proposal[id]) THEN Answers(r, "must approve before dispatch")
        ELSE IF ~setting.allowExecute THEN Answers(r, "execute disabled on server")
        ELSE IF ~setting.configured THEN Answers(r, "missing env")
        ELSE Begins(r, "send", id, proposal[id])
    /\ UNCHANGED <<setting, proposal, wager, crashes>>

Outcome(ok) == IF ok THEN "dispatched" ELSE "dispatch_failed"

\* dispatch_proposal: the child process sends the transaction and waits for the
\* receipt. It exits with 0 only when it saw one; it may fail before the
\* transaction is sent or after.
Send(r) ==
    /\ request[r].step = "send"
    /\ \E landed, ok \in BOOLEAN :
        /\ ok => landed
        /\ landed => Len(wager) < setting.wagers
        /\ wager' = IF landed
                    THEN Append(wager, [proposal |-> request[r].id,
                                        content |-> request[r].row.content])
                    ELSE wager
        /\ Begins(r, "record", request[r].id,
                  [request[r].row EXCEPT !.status = Outcome(ok)])
    /\ UNCHANGED <<setting, proposal, crashes>>

\* dispatch_proposal raises before anything is sent (no `cast` to run, a draft the
\* command builder refuses): the handler dies without an answer, the row stays
\* approved and keeps no trace of the attempt.
SendRaises(r) ==
    /\ request[r].step = "send"
    /\ Answers(r, "none")
    /\ UNCHANGED <<setting, proposal, wager, crashes>>

RecordDispatch(r) ==
    /\ request[r].step = "record"
    /\ proposal' = UpdateStatus(request[r].id, request[r].row.status)
    /\ Answers(r, "ok")
    /\ UNCHANGED <<setting, wager, crashes>>

-------------------------------------------------------------------------------
Init ==
    /\ setting \in Settings
    /\ proposal = <<>> /\ wager = <<>> /\ crashes = 0
    /\ request = [r \in Requests |-> Answered("none")]

Serve(r) ==
    \/ BeginEdit(r) \/ WriteContent(r)
    \/ BeginDecision(r) \/ WriteStatus(r)
    \/ BeginDispatch(r) \/ Send(r) \/ SendRaises(r) \/ RecordDispatch(r)

-------------------------------------------------------------------------------
WagersOf(id) == {n \in DOMAIN wager : wager[n].proposal = id}

\* A proposal becomes at most one wager: as long as the server is not restarted,
\* nothing sends it again after a send whose outcome was recorded, also when it was
\* recorded as failed although the transaction went through ("A re-dispatch of an
\* already-dispatched record would create a second wager on-chain", dispatch.py).
OneWagerPerProposal ==
    crashes = 0 => \A id \in DOMAIN proposal : Cardinality(WagersOf(id)) <= 1

Review == INSTANCE ReviewMachine

\* Requests that do not overlap make the machine the service promises, through
\* restarts between any two steps.
ImplementsReview == Review!Spec
=============================================================================

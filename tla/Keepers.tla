------------------------------- MODULE Keepers -------------------------------
(***************************************************************************)
(* The two keepers of open wagers, each over the index and a clock of its  *)
(* own: the sweeper (service/indexer/sweeper.py), which expires, and the   *)
(* resolution service (service/resolution), which resolves and retracts    *)
(* what the operator's decisions file says.                                *)
(***************************************************************************)
EXTENDS OpenWagers, Sequences

VARIABLES
    sweep,          \* the sweeper's candidates of this pass, still to be sent
    decisions,      \* the decisions file
    run,            \* by thread, the actionable candidates it still has to send
    carried,        \* the decision behind each resolution the service landed
    failures

serviceVars == <<decisions, run, carried>>
vars == <<wagerVars, sweep, serviceVars, failures>>

NoDecision == [action |-> "none"]

-------------------------------------------------------------------------------
(* get_expire_candidates, the SQL *)

\* Mutants: the last second of the window counts as over; only the scheduled close
\* anchors the window.
ExpireCandidateEarly(r, t) ==
    /\ r.state = "OPEN"
    /\ \/ r.resolution_window_closed
       \/ r.resolution_window > 0 /\
            \/ r.betting_closed_at # NoTime /\ r.betting_closed_at + r.resolution_window <= t
            \/ /\ r.betting_closed_at = NoTime /\ r.betting_close_time > 0
               /\ r.betting_close_time + r.resolution_window <= t
ExpireCandidateScheduled(r, t) ==
    /\ r.state = "OPEN"
    /\ \/ r.resolution_window_closed
       \/ /\ r.resolution_window > 0 /\ r.betting_close_time > 0
          /\ r.betting_close_time + r.resolution_window < t

ExpireCandidate(r, t) ==
    /\ r.state = "OPEN"
    /\ \/ r.resolution_window_closed
       \/ r.resolution_window > 0 /\
            \/ r.betting_closed_at # NoTime /\ r.betting_closed_at + r.resolution_window < t
            \/ /\ r.betting_closed_at = NoTime /\ r.betting_close_time > 0
               /\ r.betting_close_time + r.resolution_window < t

(* logic.py *)

BettingIsClosed(r, t) ==
    r.betting_closed_by_authority \/ (r.betting_close_time > 0 /\ t >= r.betting_close_time)

ResolutionWindowIsOver(r, t) ==
    \/ r.resolution_window_closed
    \/ r.resolution_window > 0 /\
         IF r.betting_closed_at # NoTime THEN t > r.betting_closed_at + r.resolution_window
         ELSE r.betting_close_time > 0 /\ t > r.betting_close_time + r.resolution_window

Actionable(r, t) ==
    /\ r.state = "OPEN" /\ r.resolver = "ours"
    /\ BettingIsClosed(r, t) /\ ~ResolutionWindowIsOver(r, t)

(* service/explorer/logic.py *)

\* Mutant: the schedule goes before the time betting was closed.
CanExpireRowScheduled(r, t) ==
    \/ r.resolution_window_closed
    \/ r.resolution_window # 0 /\
         IF r.betting_close_time > 0 THEN r.betting_close_time + r.resolution_window < t
         ELSE r.betting_closed_at # NoTime /\ r.betting_closed_at + r.resolution_window < t

\* The row the explorer marks as expirable.
CanExpireRow(r, t) ==
    \/ r.resolution_window_closed
    \/ r.resolution_window # 0 /\
         IF r.betting_closed_at # NoTime THEN r.betting_closed_at + r.resolution_window < t
         ELSE r.betting_close_time > 0 /\ r.betting_close_time + r.resolution_window < t

-------------------------------------------------------------------------------
(* The sweeper *)

Orders(S) == {f \in [1..Cardinality(S) -> S] : \A i, j \in DOMAIN f : i # j => f[i] # f[j]}

StartSweep ==
    /\ sweep = <<>>
    /\ \E skew \in setting.skews :
        \E order \in Orders({w \in Wagers : ExpireCandidate(row[w], now + skew)}) :
            sweep' = order
    /\ UNCHANGED <<wagerVars, serviceVars, failures>>

\* cast send of expire() to the next candidate: it lands or reverts. The return
\* code only changes what the sweeper prints.
SweepNext ==
    /\ setting.execute /\ sweep # <<>>
    /\ sweep' = Tail(sweep)
    /\ IF ExpireAccepted(sweep[1])
       THEN Finalised(sweep[1], "Retracted", NoWinner)
       ELSE UNCHANGED contract
    /\ UNCHANGED <<setting, now, row, serviceVars, failures>>

\* The node does not answer: the candidate is given up until the next pass.
SweepLost ==
    /\ setting.execute /\ sweep # <<>> /\ failures < setting.failures
    /\ failures' = failures + 1
    /\ sweep' = Tail(sweep)
    /\ UNCHANGED <<wagerVars, serviceVars>>

\* A dry run prints the same candidates and sends nothing.
SweepDryRun ==
    /\ ~setting.execute /\ sweep # <<>>
    /\ sweep' = <<>>
    /\ UNCHANGED <<wagerVars, serviceVars, failures>>

-------------------------------------------------------------------------------
(* The resolution service *)

EditDecisions ==
    /\ \E w \in setting.wagers, d \in setting.decisions \cup {NoDecision} :
        decisions' = [decisions EXCEPT ![w] = d]
    /\ UNCHANGED <<wagerVars, sweep, run, carried, failures>>

\* POST /run-once: wagers from the index, decisions from the file, one clock. Each
\* request has a thread of its own, and nothing keeps two from overlapping.
RunOnce(t) ==
    /\ run[t] = <<>>
    /\ \E skew \in setting.skews :
        \E order \in Orders({w \in Wagers : /\ Actionable(row[w], now + skew)
                                            /\ decisions[w] # NoDecision}) :
            run' = [run EXCEPT ![t] =
                [i \in DOMAIN order |-> [wager |-> order[i], decision |-> decisions[order[i]],
                                         mode |-> row[order[i]].protocol_version]]]
    /\ UNCHANGED <<wagerVars, sweep, decisions, carried, failures>>

Strip(answer) == [answer EXCEPT !.padded = FALSE]

\* Mutant: the index wins over the mask.
ResolveArgumentIndexFirst(d, mode) ==
    IF mode = "freeform" THEN Strip(d.winningAnswer)
    ELSE IF d.outcomeIndex # NoTime THEN d.outcomeIndex ELSE d.winningMask

\* _action_command: the argument of resolve(uint256) or resolve(string); NoTime and
\* the empty answer stand for what the decision leaves out.
ResolveArgument(d, mode) ==
    IF mode = "freeform" THEN Strip(d.winningAnswer)
    ELSE IF d.winningMask # NoTime THEN d.winningMask ELSE d.outcomeIndex

CommandMade(d, mode) ==
    \/ d.action = "retract"
    \/ d.action = "resolve" /\ (IF mode = "freeform" THEN d.winningAnswer.text # ""
                                ELSE ResolveArgument(d, mode) # NoTime)

WinnerOf(argument, mode) ==
    IF mode = "freeform" THEN [NoWinner EXCEPT !.answer = argument]
    ELSE [NoWinner EXCEPT !.mask = argument]

Lands(c) ==
    /\ CommandMade(c.decision, c.mode) /\ ResolverAccepted(c.wager)
    /\ (c.decision.action = "resolve" /\ c.mode = "enumerated") =>
            ResolveArgument(c.decision, c.mode) # 0

\* The next candidate: no command, a revert, or the transaction.
RunNext(t) ==
    /\ run[t] # <<>>
    /\ run' = [run EXCEPT ![t] = Tail(@)]
    /\ LET c == run[t][1]
       IN  IF ~Lands(c) THEN UNCHANGED <<contract, carried>>
           ELSE /\ carried' = [carried EXCEPT ![c.wager] = c.decision]
                /\ IF c.decision.action = "retract"
                   THEN Finalised(c.wager, "Retracted", NoWinner)
                   ELSE Finalised(c.wager, "Resolved",
                                  WinnerOf(ResolveArgument(c.decision, c.mode), c.mode))
    /\ UNCHANGED <<setting, now, row, sweep, decisions, failures>>

\* The node does not answer, or nobody staked on the winner.
RunLost(t) ==
    /\ run[t] # <<>> /\ failures < setting.failures
    /\ failures' = failures + 1
    /\ run' = [run EXCEPT ![t] = Tail(@)]
    /\ UNCHANGED <<wagerVars, sweep, decisions, carried>>

-------------------------------------------------------------------------------
Init ==
    /\ WagersInit
    /\ sweep = <<>> /\ run = [t \in Threads |-> <<>>] /\ failures = 0
    /\ decisions = [w \in Wagers |-> NoDecision]
    /\ carried = [w \in Wagers |-> NoDecision]

SweepStep == StartSweep \/ SweepNext \/ SweepLost
ServiceStep ==
    EditDecisions \/ \E t \in setting.threads : RunOnce(t) \/ RunNext(t) \/ RunLost(t)

Next ==
    \/ WagersStep /\ UNCHANGED <<sweep, serviceVars, failures>>
    \/ SweepStep \/ SweepDryRun
    \/ ServiceStep

\* The index's poll and the sweeper's loop (--loop --execute) run for ever, and
\* blocks keep coming up to the bound.
Fairness ==
    /\ WF_vars(Tick /\ UNCHANGED <<sweep, serviceVars, failures>>)
    /\ \A w \in Wagers : WF_vars(Sync(w) /\ UNCHANGED <<sweep, serviceVars, failures>>)
    /\ WF_vars(StartSweep) /\ WF_vars(SweepNext)

Spec == Init /\ [][Next]_vars
FairSpec == Spec /\ Fairness

-------------------------------------------------------------------------------
\* However stale its row, a candidate at the chain's own time has its window over
\* on chain, or is final already: the sweeper never sends too early.
CandidatesSound ==
    \A w \in Wagers :
        ExpireCandidate(row[w], now) => ExpireAccepted(w) \/ IsFinal(w)

\* The contract's clock is written three times more, in the SQL of the sweeper, in
\* logic.py of the service and in logic.py of the explorer ("need to agree on the
\* same classification rules"): with the index caught up, each answers as the
\* contract would.
RulesAgree ==
    \A w \in Wagers : (Deployed(w) /\ Fresh(w)) =>
        /\ ExpireCandidate(row[w], now) <=> ExpireAccepted(w)
        /\ Actionable(row[w], now) <=> ResolverAccepted(w)
        /\ row[w].state = "OPEN" => (CanExpireRow(row[w], now) <=> ExpireCandidate(row[w], now))

\* A transaction of the sweeper that reverts, its clock not being ahead, lost the
\* race to another call that finalised the wager: harmless noise (sweeper.py:13-19).
RevertMeansFinal ==
    [][(SweepNext /\ UNCHANGED contract /\ setting.skews = {0}) => IsFinal(Head(sweep))]_vars

\* A wager whose window is over leaves the open state in the end, whatever the
\* sweeper lost or sent too early, once it runs with --loop --execute.
ExpiredInTheEnd ==
    \A w \in Wagers : (setting.execute /\ Deployed(w) /\ ExpireAccepted(w)) ~> IsFinal(w)

\* What the decisions file means (service.py:21-32): the mask, else the outcome of
\* the index as a mask; the answer exactly.
Intended(d, mode) ==
    IF mode = "freeform" THEN WinnerOf(d.winningAnswer, mode)
    ELSE WinnerOf(IF d.winningMask # NoTime THEN d.winningMask ELSE 2 ^ d.outcomeIndex, mode)

\* A wager the service resolved has the winner its decision meant.
DecisionCarriedOut ==
    \A w \in Wagers :
        carried[w].action = "resolve" =>
            contract[w].winner = Intended(carried[w], contract[w].mode)
===============================================================================

------------------------------- MODULE MCIndexer -------------------------------
(* Settings for the run of the indexer that a .cfg cannot write. *)
EXTENDS Indexer, TLC

CONSTANTS w1, f1

\* One wager, bets of one size, nothing disturbed: the other settings differ from it.
Calm == [fromBlock |-> 1, wagers |-> {w1}, events |-> {"Created", "BetPlaced", "Resolved"},
         amounts |-> {1}, terms |-> {0}, logs |-> 3, crashes |-> 0, replays |-> 0, refusals |-> 0,
         requests |-> {}]

\* A wager of each factory; a crash and an operator's replay over chains whose first
\* block is not indexed.
Faults == [Calm EXCEPT !.fromBlock = 2, !.wagers = {w1, f1}, !.events = {"Created", "BetPlaced"},
                       !.crashes = 1, !.replays = 1]
\* One wager from the first block on; beside these a refused call.
FromFirst == [Calm EXCEPT !.crashes = 1, !.replays = 1, !.refusals = 1]
\* Every event of a wager.
AllEvents == [Calm EXCEPT
    !.events = {"Created", "BetPlaced", "BettingClosed", "WindowClosed", "Resolved", "Refunded",
                "FeeAccrued", "Paid"},
    !.logs = 4]
SyncSettings == {Faults, FromFirst, AllEvents}
================================================================================

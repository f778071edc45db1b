----------------------------- MODULE MCIndexerAPI -----------------------------
(* Settings for the run of the indexer's API. *)
EXTENDS IndexerAPI, MCIndexer

CONSTANTS w2, w3

\* /wagers/{address} and /health while bets are indexed, through a crash and a
\* refused call; /wagers while wagers are.
Bets == [Calm EXCEPT !.crashes = 1, !.refusals = 1,
                      !.requests = {"wager", "health"}]
Creations == [Calm EXCEPT !.wagers = {w1, w2, w3}, !.events = {"Created"},
                           !.requests = {"list"}]
\* Amounts and terms around the largest integer of SQLite, which is 2 here.
Oversize == [Calm EXCEPT !.amounts = {2, 3}, !.terms = {0, 3}, !.replays = 1]

APISettings == {Bets, Creations, Oversize}
===============================================================================

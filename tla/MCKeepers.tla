------------------------------ MODULE MCKeepers ------------------------------
(* Settings for the runs of Keepers that a .cfg cannot write. *)
EXTENDS Keepers

Entry(action, mask, index, text, padded) ==
    [action |-> action, winningMask |-> mask, outcomeIndex |-> index,
     winningAnswer |-> [text |-> text, padded |-> padded]]

\* One wager of every shape, whose row may be of any age; the sweeper is dry.
Clocks == [wagers |-> {"w1"}, closeTimes |-> {0, 2, 3}, windows |-> {0, 1, 2},
           modes |-> {"enumerated", "freeform"}, resolvers |-> {"ours", "other"},
           execute |-> FALSE, threads |-> {"t1"}, skews |-> {0}, failures |-> 1,
           decisions |-> {Entry("retract", NoTime, NoTime, "", FALSE),
                          Entry("resolve", 2, 1, "yes", FALSE)}]
\* Two wagers for both keepers, whose clocks are right.
Race == [wagers |-> {"w1", "w2"}, closeTimes |-> {2}, windows |-> {1},
         modes |-> {"enumerated"}, resolvers |-> {"ours"},
         execute |-> TRUE, threads |-> {"t1"}, skews |-> {0}, failures |-> 0,
         decisions |-> {Entry("resolve", 2, 1, "yes", FALSE)}]
\* Two wagers that the sweeper must clear, with a clock that is ahead at times.
Ahead == [Race EXCEPT !.closeTimes = {0, 2}, !.skews = {0, 1}, !.failures = 1,
                       !.decisions = {}]
\* Two overlapping /run-once for the same wager, the file changing in between.
Overlap == [Race EXCEPT !.wagers = {"w1"}, !.threads = {"t1", "t2"},
                         !.decisions = {Entry("retract", NoTime, NoTime, "", FALSE),
                                        Entry("resolve", 2, 1, "yes", FALSE)}]

KeeperSettings == {Clocks, Race, Ahead, Overlap}

\* Decisions that give the outcome's index and no mask.
IndexSettings ==
    {[Race EXCEPT !.wagers = {"w1"},
                  !.decisions = {Entry("resolve", NoTime, i, "", FALSE) : i \in 0..2}]}
===============================================================================

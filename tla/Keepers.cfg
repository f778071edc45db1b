\* Rows of any age for the wagers of every shape; two wagers for both keepers; lost
\* sends; a sweeper whose clock is ahead; overlapping requests to the service.
SPECIFICATION FairSpec
CONSTANTS
    Wagers = {"w1", "w2"}
    Threads = {"t1", "t2"}
    MaxTime = 4
    Settings <- KeeperSettings
INVARIANTS DecisionCarriedOut CandidatesSound RulesAgree
PROPERTIES RevertMeansFinal ExpiredInTheEnd

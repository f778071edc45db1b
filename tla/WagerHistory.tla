---------------------------- MODULE WagerHistory ----------------------------
(***************************************************************************)
(* What an index of wagers promises, whatever keeps it: for every wager it *)
(* shows the summary of some prefix of the events that wager emitted, and  *)
(* what it shows never goes back to an earlier prefix.                     *)
(***************************************************************************)
EXTENDS Integers, Sequences, FiniteSets, FiniteSetsExt

CONSTANTS Wagers, Tickets

VARIABLES
    history,    \* the events each wager emitted, in chain order
    shown,      \* how many of them the index accounts for
    summary     \* what the index says of each wager

vars == <<history, shown, summary>>

NoRow == [known |-> FALSE]

BetsOf(events, ticket) ==
    {i \in DOMAIN events : events[i].event = "BetPlaced" /\ events[i].ticket = ticket}

Staked(events, bets) == MapThenSumSet(LAMBDA i : events[i].amount, bets)

\* The payload of the last event of a kind, or a default when there is none.
LastOf(events, kinds, default) ==
    LET at == {i \in DOMAIN events : events[i].event \in kinds}
    IN  IF at = {} THEN default ELSE events[CHOOSE i \in at : \A j \in at : j <= i].value

\* The state a list of a wager's events amounts to, each fact by itself.
Summary(events) ==
    IF events = <<>> THEN NoRow
    ELSE [known |-> TRUE,
          state |-> IF \E i \in DOMAIN events : events[i].event = "Resolved" THEN "RESOLVED"
                    ELSE IF \E i \in DOMAIN events : events[i].event = "Refunded"
                    THEN "RETRACTED" ELSE "OPEN",
          bettingClosedAt |-> LastOf(events, {"BettingClosed"}, 0),
          windowClosedAt |-> LastOf(events, {"WindowClosed"}, 0),
          winner |-> LastOf(events, {"Resolved"}, 0),
          pools |-> [t \in Tickets |-> Staked(events, BetsOf(events, t))],
          pot |-> Staked(events, UNION {BetsOf(events, t) : t \in Tickets})]

IsPrefixOf(short, long) ==
    Len(short) <= Len(long) /\ \A i \in DOMAIN short : short[i] = long[i]

Init ==
    /\ history = [w \in Wagers |-> <<>>]
    /\ shown = [w \in Wagers |-> 0]
    /\ summary = [w \in Wagers |-> NoRow]

Emit ==
    /\ \A w \in Wagers : IsPrefixOf(history[w], history'[w])
    /\ UNCHANGED <<shown, summary>>

Publish ==
    /\ UNCHANGED history
    /\ \A w \in Wagers : shown'[w] \in shown[w] .. Len(history[w])
    /\ \A w \in Wagers : summary'[w] = Summary(SubSeq(history[w], 1, shown'[w]))

Next == Emit \/ Publish

Spec == Init /\ [][Next]_vars
===============================================================================

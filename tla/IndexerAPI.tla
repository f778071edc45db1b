----------------------------- MODULE IndexerAPI -----------------------------
(***************************************************************************)
(* service/indexer/api.py beside the sync loop, as live_api.py runs them:  *)
(* the handlers read the committed file one statement at a time, over a    *)
(* connection of their own, and commits fall between two statements.       *)
(***************************************************************************)
EXTENDS Indexer

CONSTANT PageSize       \* a client's limit, walking /wagers by offset

ASSUME PageAssumption == PageSize \in Nat \ {0}

VARIABLES
    request,    \* what the handler serves: "none", "wager", "health", "list"
    target,     \* the wager asked for
    bundle,     \* the parts of the answer read so far, by name
    walk        \* a client's walk: offset, rows it received, rows there were

apiVars == <<request, target, bundle, walk>>
allVars == <<vars, apiVars>>

NoTarget == "none"
NoWalk == [offset |-> 0, received |-> <<>>, initial |-> {}]
With(part, value) == [p \in DOMAIN bundle \cup {part} |-> IF p = part THEN value ELSE bundle[p]]
Reads(part, value) == part \notin DOMAIN bundle /\ bundle' = With(part, value)

KnownWagers == {w \in AllWagers : disk.rows[w].known}
CreationOf(w) == CHOOSE id \in Indexed(w) : LogAt(id).event = "Created"

-------------------------------------------------------------------------------
(* /wagers/{address}: get_wager, one SELECT after another *)

AskWager ==
    /\ request = "none" /\ "wager" \in setting.requests
    /\ \E w \in AllWagers :
        /\ disk.rows[w].known                       \* 404 otherwise
        /\ request' = "wager" /\ target' = w
        /\ bundle' = [state |-> disk.rows[w].state]
    /\ UNCHANGED <<vars, walk>>

\* Mutant: the events are read first, as the timeline is shown first.
WagerPartsEventsFirst == <<"events", "totals", "pools">>

WagerParts == <<"totals", "pools", "events">>

PartOf(part) ==
    CASE part = "totals" -> [pot |-> disk.rows[target].pot, winner |-> disk.rows[target].winner]
      [] part = "pools" -> disk.rows[target].pools
      [] part = "events" -> Indexed(target)

ReadWagerPart ==
    /\ request = "wager"
    /\ \E n \in DOMAIN WagerParts :
        /\ \A k \in 1..n - 1 : WagerParts[k] \in DOMAIN bundle
        /\ Reads(WagerParts[n], PartOf(WagerParts[n]))
    /\ UNCHANGED <<vars, request, target, walk>>

-------------------------------------------------------------------------------
(* /health: the count, the error, the cursor, the head *)

AskHealth ==
    /\ request = "none" /\ "health" \in setting.requests
    /\ request' = "health" /\ bundle' = [count |-> Cardinality(KnownWagers)]
    /\ UNCHANGED <<vars, target, walk>>

HealthParts == <<"error", "cursor", "head">>

ReadHealthPart ==
    /\ request = "health"
    /\ \E n \in DOMAIN HealthParts :
        /\ \A k \in 1..n - 1 : HealthParts[k] \in DOMAIN bundle
        /\ Reads(HealthParts[n], CASE HealthParts[n] = "error" -> disk.error
                                   [] HealthParts[n] = "cursor" -> disk.cursor
                                   [] HealthParts[n] = "head" -> disk.head)
    /\ UNCHANGED <<vars, request, target, walk>>

-------------------------------------------------------------------------------
(* /wagers: one statement over the join, ordered by creation *)

\* Mutant: the newest first, as the default of the handler.
ListWagersDesc(offset, limit) ==
    LET rows == Sorted({CreationOf(w) : w \in KnownWagers}, LAMBDA p, q : Before(q, p))
    IN  SubSeq(rows, offset + 1,
               IF offset + limit < Len(rows) THEN offset + limit ELSE Len(rows))

\* order=asc; a row is named by the log that created it.  Rows of one block are
\* sorted by transaction hash, an order as fixed as that of the logs, which is used.
ListWagers(offset, limit) ==
    LET rows == InLogOrder({CreationOf(w) : w \in KnownWagers})
    IN  SubSeq(rows, offset + 1,
               IF offset + limit < Len(rows) THEN offset + limit ELSE Len(rows))

StartWalk ==
    /\ request = "none" /\ "list" \in setting.requests
    /\ request' = "list"
    /\ walk' = [NoWalk EXCEPT !.initial = {CreationOf(w) : w \in KnownWagers}]
    /\ UNCHANGED <<vars, target, bundle>>

NextPage ==
    /\ request = "list" /\ "end" \notin DOMAIN bundle
    /\ LET page == ListWagers(walk.offset, PageSize)
       IN  /\ walk' = [walk EXCEPT !.offset = @ + PageSize, !.received = @ \o page]
           /\ bundle' = IF Len(page) < PageSize THEN With("end", TRUE) ELSE bundle
    /\ UNCHANGED <<vars, request, target>>

-------------------------------------------------------------------------------
Answered ==
    CASE request = "wager" -> "events" \in DOMAIN bundle /\ "pools" \in DOMAIN bundle
      [] request = "health" -> "head" \in DOMAIN bundle /\ "cursor" \in DOMAIN bundle
      [] request = "list" -> "end" \in DOMAIN bundle
      [] OTHER -> FALSE

Send ==
    /\ Answered
    /\ request' = "none" /\ target' = NoTarget /\ bundle' = <<>> /\ walk' = NoWalk
    /\ UNCHANGED vars

APIInit == Init /\ request = "none" /\ target = NoTarget /\ bundle = <<>> /\ walk = NoWalk

APIStep ==
    \/ AskWager \/ ReadWagerPart \/ AskHealth \/ ReadHealthPart
    \/ StartWalk \/ NextPage \/ Send

APINext == (Next /\ UNCHANGED apiVars) \/ APIStep

\* Readers never hold up the loop: SQLite's write-ahead log lets them read on.
APISpec ==
    APIInit /\ [][APINext]_allVars
    /\ WF_allVars(SyncStep /\ UNCHANGED setting /\ UNCHANGED apiVars)

-------------------------------------------------------------------------------
\* An answer may mix several commits, but only in one direction. get_wager: the
\* events account for the pools, the pools for the pot, and a resolved wager comes
\* with its winner. /health: the lag its reader computes is never negative.
AnswerReadsForward ==
    Answered =>
        CASE request = "wager" ->
                LET staked == MapThenSumSet(LAMBDA t : bundle.pools[t], Tickets)
                IN  /\ bundle.totals.pot <= staked
                    /\ staked <= MapThenSumSet(LAMBDA id : LogAt(id).amount, bundle.events)
                    /\ bundle.state = "RESOLVED" => bundle.totals.winner # 0
          [] request = "health" -> bundle.cursor <= bundle.head
          [] OTHER -> TRUE

\* A client that walks the list in ascending order, page by page, while new
\* wagers are indexed, receives every wager there was at the start, none twice.
WalkReceivesEachOnce ==
    (request = "list" /\ Answered) =>
        /\ \A id \in walk.initial : \E k \in DOMAIN walk.received : walk.received[k] = id
        /\ \A j, k \in DOMAIN walk.received : walk.received[j] = walk.received[k] => j = k
===============================================================================

------------------------------- MODULE Indexer -------------------------------
(***************************************************************************)
(* service/indexer: the sync loop of live_api.py over sync_logs and        *)
(* apply_log, its SQLite file, and the operator's own sync passes over the *)
(* same file (indexer.py main). The chain is a list of blocks, a block a   *)
(* list of logs; it grows and never forks.                                 *)
(***************************************************************************)
EXTENDS Integers, Sequences, FiniteSets, FiniteSetsExt

CONSTANTS
    Wagers,             \* created by the configured factory
    ForeignWagers,      \* created by another factory with the same events
    Tickets,            \* ticket masks and answer ids alike: keys of a pool
    SQLiteMax,          \* 2^63 - 1 in SQLite
    LeadingDigit,       \* what CAST reads of a number SQLite wrote as a REAL
    ChunkSize,
    MaxBlocks,          \* bound: the length of the chain
    Settings            \* the configured first block, and the other bounds

AllWagers == Wagers \cup ForeignWagers

\* What one behaviour may carry: which wagers emit which events (a creation with
\* which largest term, a bet of which amount), how many logs there are, and how
\* often a sync crashes, is replayed by the operator, or is refused by the RPC; what
\* clients of the API ask for.
Setting == [fromBlock : Nat \ {0}, wagers : SUBSET AllWagers, events : SUBSET STRING,
            amounts : SUBSET (Nat \ {0}), terms : SUBSET Nat, logs : Nat,
            crashes : Nat, replays : Nat, refusals : Nat,
            requests : SUBSET {"wager", "health", "list"}]

ASSUME IndexerAssumption ==
    /\ Wagers \cap ForeignWagers = {}
    /\ IsFiniteSet(Tickets) /\ 0 \notin Tickets     \* no mask and no answer id is 0
    /\ SQLiteMax \in Nat /\ LeadingDigit \in 0..SQLiteMax
    /\ ChunkSize \in Nat \ {0} /\ MaxBlocks \in Nat
    /\ Settings \subseteq Setting

VARIABLES
    setting,            \* one of Settings, fixed
    chain,              \* the blocks mined so far and the one being built
    disk, work,         \* the file as committed, and as the sync connection sees it
    phase,              \* of the sync thread: "wait", "range", "fetch", "apply"
    start, toBlock, end,
    batch,              \* the logs of the chunk still to be applied
    crashes, replays, refusals

syncVars == <<phase, start, toBlock, end, batch>>
boundVars == <<crashes, replays, refusals>>
vars == <<setting, chain, disk, work, syncVars, boundVars>>

NoBlock == -1

-------------------------------------------------------------------------------
(* The chain: what the wager contracts and their factories emit *)

Log(event, w, t, a, v) ==
    [event |-> event, wager |-> w, ticket |-> t, amount |-> a, value |-> v]

ChainHead == Len(chain) - 1          \* the last block is still being built
OnChain == UNION {{<<b, i>> : i \in DOMAIN chain[b]} : b \in DOMAIN chain}
LogAt(id) == chain[id[1]][id[2]]
Emitted(w, event) == \E id \in OnChain : LogAt(id).wager = w /\ LogAt(id).event = event
Final(w) == Emitted(w, "Resolved") \/ Emitted(w, "Refunded")
Live(w) == Emitted(w, "Created") /\ ~Final(w)

\* A verdict in the making: the transaction logs the fees it charges first.
Charging(w) == Live(w) /\ Emitted(w, "FeeAccrued")
BetweenTransactions == \A w \in setting.wagers : ~Charging(w)
OnlyCharging(w) == \A v \in setting.wagers : Charging(v) => v = w

Emit(log) ==
    /\ Len(chain) <= MaxBlocks /\ Cardinality(OnChain) < setting.logs
    /\ log.event \in setting.events
    /\ chain' = [chain EXCEPT ![Len(chain)] = Append(@, log)]
    /\ UNCHANGED <<disk, work, syncVars, boundVars>>

\* `value` is the largest of the terms, the time or the winner the event carries.
EmitCreated(w) ==
    /\ BetweenTransactions /\ ~Emitted(w, "Created")
    /\ \E size \in setting.terms : Emit(Log("Created", w, 0, 0, size))

\* Betting is over for certain; a timed close emits nothing.
BettingOver(w) == Emitted(w, "BettingClosed") \/ Emitted(w, "WindowClosed") \/ Final(w)

EmitBetPlaced(w) ==
    /\ BetweenTransactions /\ Emitted(w, "Created") /\ ~BettingOver(w)
    /\ \E t \in Tickets, a \in setting.amounts : Emit(Log("BetPlaced", w, t, a, 0))
EmitBettingClosed(w) ==
    /\ BetweenTransactions /\ Emitted(w, "Created") /\ ~BettingOver(w)
    /\ Emit(Log("BettingClosed", w, 0, 0, Len(chain)))
\* Not gated on the state, and after a timed close the first log since the bets.
EmitWindowClosed(w) ==
    /\ BetweenTransactions /\ Emitted(w, "Created") /\ ~Emitted(w, "WindowClosed")
    /\ Emit(Log("WindowClosed", w, 0, 0, Len(chain)))

\* resolve, retract and expire: _chargeFeesOnce, then the verdict, in one transaction
\* of one block (the guard leaves room for the verdict within the bound).
EmitFeeAccrued(w) ==
    /\ OnlyCharging(w) /\ Live(w) /\ Cardinality(OnChain) + 1 < setting.logs
    /\ Emit(Log("FeeAccrued", w, 0, 0, 0))
EmitResolved(w) ==
    /\ OnlyCharging(w) /\ Live(w) /\ ~Emitted(w, "WindowClosed")
    /\ \E t \in Tickets : Emit(Log("Resolved", w, 0, 0, t))
EmitRefunded(w) ==                                          \* RetractedV3, ExpiredV3
    OnlyCharging(w) /\ Live(w) /\ Emit(Log("Refunded", w, 0, 0, 0))

EmitPaid(w) ==                                              \* ClaimedV3, FeeWithdrawnV3
    BetweenTransactions /\ Final(w) /\ Emit(Log("Paid", w, 0, 0, 0))

Seal ==
    /\ Len(chain) <= MaxBlocks /\ BetweenTransactions
    /\ chain' = Append(chain, <<>>)
    /\ UNCHANGED <<disk, work, syncVars, boundVars>>

-------------------------------------------------------------------------------
(* The file: one row per wager joins wagers, wager_totals and                *)
(* wager_ticket_pools; `events` is events_log, keyed by transaction and log   *)
(* index.                                                                     *)

NoRow == [known |-> FALSE]

NewRow == [known |-> TRUE, state |-> "OPEN", bettingClosedAt |-> 0, windowClosedAt |-> 0,
           winner |-> 0, pools |-> [t \in Tickets |-> 0], pot |-> 0, potRead |-> 0]

Empty == [events |-> {}, rows |-> [w \in AllWagers |-> NoRow],
          cursor |-> NoBlock, head |-> NoBlock, error |-> "none"]

\* Mutant: the payload is applied whether or not its event was new.
InsertEventLogAlways(db, id) == [db |-> [db EXCEPT !.events = @ \cup {id}], inserted |-> TRUE]

InsertEventLog(db, id) ==
    [db |-> [db EXCEPT !.events = @ \cup {id}], inserted |-> id \notin db.events]

\* Both creation branches: a term SQLite cannot hold raises after the event is in.
WithCreated(row, log) == IF log.value > SQLiteMax \/ row.known THEN row ELSE NewRow

\* Both bet branches: the pool is summed exactly in Python, the pot by SQLite,
\* which refuses an argument past its integers and turns a sum past them into a
\* REAL, whose text the next CAST reads up to the point.
WithBet(row, log) ==
    LET pooled == [row EXCEPT !.pools[log.ticket] = @ + log.amount]
        sum == row.potRead + log.amount
    IN  IF log.amount > SQLiteMax THEN pooled
        ELSE [pooled EXCEPT !.pot = sum,
                            !.potRead = IF sum > SQLiteMax THEN LeadingDigit ELSE sum]

\* Mutant: an expiry leaves a state of its own.
WithPayloadExpired(row, log) ==
    CASE log.event = "Created" -> WithCreated(row, log)
      [] log.event = "Refunded" -> [row EXCEPT !.state = "EXPIRED"]
      [] OTHER -> row

\* The row of the log's wager, once the log is applied.
WithPayload(row, log) ==
    CASE log.event = "Created" -> WithCreated(row, log)
      [] log.event = "BetPlaced" -> WithBet(row, log)
      [] log.event = "BettingClosed" -> [row EXCEPT !.bettingClosedAt = log.value]
      [] log.event = "WindowClosed" -> [row EXCEPT !.windowClosedAt = log.value]
      [] log.event = "Resolved" -> [row EXCEPT !.state = "RESOLVED", !.winner = log.value]
      [] log.event = "Refunded" -> [row EXCEPT !.state = "RETRACTED"]
      [] OTHER -> row

\* A creation by another factory, or a log of a wager without a row.
Ignored(db, log) ==
    IF log.event = "Created" THEN log.wager \notin Wagers ELSE ~db.rows[log.wager].known

\* apply_log. What it wrote before an exception stays in the transaction: the
\* caller reports the log and goes on to the next.
ApplyLog(db, id) ==
    LET log == LogAt(id)
        logged == InsertEventLog(db, id)
    IN  IF Ignored(db, log) THEN db
        ELSE IF logged.inserted THEN [logged.db EXCEPT !.rows[log.wager] = WithPayload(@, log)]
        ELSE db

-------------------------------------------------------------------------------
(* eth_getLogs, halved on failure *)

Spans == {<<s, e>> : s \in 1..MaxBlocks + 1, e \in 0..MaxBlocks}
IdsWithin(s, e) == {id \in OnChain : id[1] \in s..e}
Logs(s, e) == [ok |-> TRUE, ids |-> IdsWithin(s, e)]
Failed == [ok |-> FALSE, ids |-> {}]

\* One call of _eth_get_logs_bisect, given the spans the RPC refuses and what the
\* calls for the halves return.
BisectReply(refused, fetch, span) ==
    LET s == span[1]
        e == span[2]
        mid == s + ((e - s + 1) \div 2) - 1
        left == fetch[<<s, mid>>]
        right == fetch[<<mid + 1, e>>]
    IN  IF s > e THEN Logs(s, e)
        ELSE IF span \notin refused THEN Logs(s, e)
        ELSE IF s = e \/ ~left.ok \/ ~right.ok THEN Failed
        ELSE [ok |-> TRUE, ids |-> left.ids \cup right.ids]

GetLogsBisect(refused) ==
    LET Fetch[span \in Spans] == BisectReply(refused, Fetch, span) IN Fetch

Sorted(ids, Less(_, _)) ==
    [k \in 1..Cardinality(ids) |->
        CHOOSE id \in ids : Cardinality({p \in ids : Less(p, id)}) = k - 1]

\* Mutant: sorted by log index, then by block.
ByLogIndexFirst(ids) == Sorted(ids, LAMBDA p, q : p[2] < q[2] \/ (p[2] = q[2] /\ p[1] < q[1]))

InLogOrder(ids) == Sorted(ids, LAMBDA p, q : p[1] < q[1] \/ (p[1] = q[1] /\ p[2] < q[2]))

-------------------------------------------------------------------------------
(* sync_logs, from one commit or outside call to the next *)

Commit(db) == disk' = db /\ work' = db
LocalsDropped == start' = 0 /\ toBlock' = 0 /\ end' = 0 /\ batch' = <<>>

\* The head is stored, and the previous error forgotten.
BeginPass(to, next) ==
    /\ Commit([work EXCEPT !.head = ChainHead, !.error = "none"])
    /\ toBlock' = (IF to > ChainHead THEN ChainHead ELSE to)
    /\ start' = next /\ phase' = "range"
    /\ UNCHANGED <<chain, end, batch>>

\* One turn of _sync_loop: from the cursor, or the configured block without one.
Poll ==
    /\ phase = "wait"
    /\ BeginPass(ChainHead, IF disk.cursor = NoBlock THEN setting.fromBlock ELSE disk.cursor + 1)
    /\ UNCHANGED boundVars

\* indexer.py main with --from-block and --to-block, the daemon being stopped.  The
\* pass leaves its last block as the cursor, whatever it was.  The code takes any
\* --from-block; ASSUMED is an operator who starts no later than behind the cursor,
\* for the blocks in between would be lost for good.
Replay ==
    /\ phase = "wait" /\ replays < setting.replays
    /\ replays' = replays + 1
    /\ \E from \in 1..MaxBlocks, to \in 1..MaxBlocks :
        /\ from <= to /\ (disk.cursor = NoBlock \/ from <= disk.cursor + 1)
        /\ BeginPass(to, from)
    /\ UNCHANGED <<crashes, refusals>>

NothingNew ==
    /\ phase = "range" /\ start > toBlock
    /\ Commit([work EXCEPT !.error = "ahead of chain head"])
    /\ phase' = "wait" /\ LocalsDropped
    /\ UNCHANGED <<chain, boundVars>>

SomethingNew ==
    /\ phase = "range" /\ start <= toBlock
    /\ phase' = "fetch"
    /\ UNCHANGED <<chain, disk, work, start, toBlock, end, batch, boundVars>>

ChunkEnd == IF start + ChunkSize - 1 < toBlock THEN start + ChunkSize - 1 ELSE toBlock

\* Mutant: the cursor is committed with the fetch, before its logs are applied.
FetchedWithCursor(ids) ==
    /\ batch' = InLogOrder(ids) /\ end' = ChunkEnd /\ phase' = "apply"
    /\ Commit([work EXCEPT !.cursor = ChunkEnd])
    /\ UNCHANGED <<start, toBlock>>

Fetched(ids) ==
    /\ batch' = InLogOrder(ids) /\ end' = ChunkEnd /\ phase' = "apply"
    /\ UNCHANGED <<disk, work, start, toBlock>>

\* Mutant: the exception ends the thread.
FetchFailedForGood ==
    /\ Commit([work EXCEPT !.error = "eth_getLogs"])
    /\ phase' = "dead" /\ LocalsDropped

FetchFailed ==
    /\ Commit([work EXCEPT !.error = "eth_getLogs"])
    /\ phase' = "wait" /\ LocalsDropped

Fetch ==
    /\ phase = "fetch" /\ start <= toBlock
    /\ \E refused \in SUBSET {span \in Spans : start <= span[1] /\ span[1] <= span[2]
                                                /\ span[2] <= ChunkEnd} :
        LET reply == GetLogsBisect(refused)[<<start, ChunkEnd>>]
        IN  /\ refused # {} => refusals < setting.refusals
            /\ refusals' = (IF refused = {} THEN refusals ELSE refusals + 1)
            /\ IF reply.ok THEN Fetched(reply.ids) ELSE FetchFailed
    /\ UNCHANGED <<chain, crashes, replays>>

Apply ==
    /\ phase = "apply" /\ batch # <<>>
    /\ work' = ApplyLog(work, batch[1])
    /\ batch' = Tail(batch)
    /\ UNCHANGED <<chain, disk, phase, start, toBlock, end, boundVars>>

\* The projections of the chunk and the cursor reach the file together.
EndOfChunk ==
    /\ phase = "apply" /\ batch = <<>>
    /\ Commit([work EXCEPT !.cursor = end, !.error = "none"])
    /\ start' = end + 1
    /\ phase' = "fetch"
    /\ UNCHANGED <<chain, toBlock, end, batch, boundVars>>

EndOfPass ==
    /\ phase = "fetch" /\ start > toBlock
    /\ phase' = "wait" /\ LocalsDropped
    /\ UNCHANGED <<chain, disk, work, boundVars>>

\* The process dies; SQLite drops what was not committed.
Crash ==
    /\ phase # "wait" /\ crashes < setting.crashes
    /\ crashes' = crashes + 1
    /\ work' = disk /\ phase' = "wait" /\ LocalsDropped
    /\ UNCHANGED <<chain, disk, replays, refusals>>

-------------------------------------------------------------------------------
Init ==
    /\ setting \in Settings
    /\ chain = <<<<>>>>
    /\ disk = Empty /\ work = Empty
    /\ phase = "wait" /\ start = 0 /\ toBlock = 0 /\ end = 0 /\ batch = <<>>
    /\ crashes = 0 /\ replays = 0 /\ refusals = 0

ChainStep ==
    \/ Seal
    \/ \E w \in setting.wagers :
        \/ EmitCreated(w) \/ EmitBetPlaced(w) \/ EmitBettingClosed(w)
        \/ EmitWindowClosed(w) \/ EmitFeeAccrued(w) \/ EmitResolved(w) \/ EmitRefunded(w)
        \/ EmitPaid(w)

SyncStep ==
    \/ Poll \/ NothingNew \/ SomethingNew \/ Fetch \/ Apply \/ EndOfChunk \/ EndOfPass

Next == (ChainStep \/ SyncStep \/ Replay \/ Crash) /\ UNCHANGED setting

\* The daemon's thread goes on for ever: _sync_loop catches every exception. The
\* RPC refuses a bounded number of calls, so a pass goes through in the end.
Spec == Init /\ [][Next]_vars /\ WF_vars(SyncStep /\ UNCHANGED setting)

-------------------------------------------------------------------------------
Databases == [events : SUBSET OnChain, rows : [AllWagers -> {NoRow} \cup
                [known : {TRUE}, state : {"OPEN", "RESOLVED", "RETRACTED"},
                 bettingClosedAt : Nat, windowClosedAt : Nat, winner : Nat \cup Tickets,
                 pools : [Tickets -> Nat], pot : Nat, potRead : Nat]],
              cursor : {NoBlock} \cup Nat, head : {NoBlock} \cup Nat,
              error : {"none", "ahead of chain head", "eth_getLogs"}]

\* Types of every variable of the sync process and its file.
TypeOK ==
    /\ disk \in Databases /\ work \in Databases
    /\ phase \in {"wait", "range", "fetch", "apply"}
    /\ start \in Nat /\ toBlock \in Nat /\ end \in Nat
    /\ batch \in Seq(OnChain)

Before(p, q) == p[1] < q[1] \/ (p[1] = q[1] /\ p[2] < q[2])
LogsOf(w) == {id \in OnChain : LogAt(id).wager = w}
Indexed(w) == {id \in disk.events : LogAt(id).wager = w}

\* Whatever crashed, was refused or was replayed from the cursor's next block or an
\* earlier one, the file holds a wager's logs without a gap, and all of them up to
\* the cursor once it has the wager's row: no projection without its cursor, no
\* cursor without its projections.
NoGap ==
    \A w \in AllWagers :
        /\ \A q \in Indexed(w) : \A p \in LogsOf(w) : Before(p, q) => p \in Indexed(w)
        /\ disk.rows[w].known => {id \in LogsOf(w) : id[1] <= disk.cursor} \subseteq Indexed(w)

\* Pools are exact sums of the bets in events_log, overflow of the pot or not:
\* no bet is counted twice by a replay that leaves no blocks out, or lost by a skipped log.
PoolsExact ==
    \A w \in AllWagers : disk.rows[w].known =>
        \A t \in Tickets :
            disk.rows[w].pools[t] =
                MapThenSumSet(LAMBDA id : LogAt(id).amount,
                              {id \in Indexed(w) : LogAt(id).ticket = t})

\* What an index promises: each row is the summary of a growing prefix of the
\* events its wager emitted (the file as committed, the pot as it is written), as
\* long as every number fits into SQLite's integers.
EventsInOrder(w) ==
    LET order == InLogOrder(LogsOf(w)) IN [i \in DOMAIN order |-> LogAt(order[i])]

WrittenRow(row) ==
    [f \in DOMAIN row \ {"potRead"} |-> row[f]]

History == INSTANCE WagerHistory WITH
    Wagers <- AllWagers,
    history <- [w \in AllWagers |-> EventsInOrder(w)],
    shown <- [w \in AllWagers |-> Cardinality(Indexed(w))],
    summary <- [w \in AllWagers |-> WrittenRow(disk.rows[w])]

ImplementsHistory == History!Spec

\* The daemon catches up, through crashes, refused calls and readers: every
\* sealed block is behind the cursor in the end.
CatchesUp ==
    \A b \in 1..MaxBlocks : (setting.fromBlock <= b /\ b <= ChainHead) ~> (disk.cursor >= b)

===============================================================================

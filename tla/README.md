# Paramutuel: specifications, model checking and proofs

This directory models the Paramutuel wager protocol and the services around it in
TLA+. TLC checks the models on small instances; TLAPS proves the properties listed
under *What is proved* for every value of the constants.

## 1. The system

| Component | State it keeps | Operations | Correct when |
|---|---|---|---|
| **Wager contract** `src/src/ParamutuelWagerV3.sol` | terms (clocks, closers, fees, policy), the stakes, fee balances, verdict, claims; the collateral it holds | `placeBet`, `placeBets`, `closeBetting`, `closeResolutionWindow`, `resolve`, `retract`, `expire`, `claim`, `withdrawFees` | no stake after the close; one verdict, inside the window; always able to pay everybody what the verdict says, once |
| **Factory** `src/src/ParamutuelFactoryV3.sol` | immutable protocol parameters, list of wagers | `createEnumeratedWager`, `createFreeformWager` (with seed bets) | accepts only terms under which the wager works; seeding is atomic with creation |
| **Indexer** `src/service/indexer/` | SQLite projections of the event log, a cursor | `sync_logs` per block range, `apply_log` per event | the file is the summary of a prefix of each wager's events, whatever crashes, and through replays that leave no blocks out |
| **Indexer API** `service/indexer/api.py` | none | `/wagers`, `/wagers/{address}`, `/health` | an answer never joins the past to the present in the wrong direction |
| **Sweeper** `service/indexer/sweeper.py` | none | sends `expire` for candidates of the index | sends what the chain accepts, or what somebody else has already done; every expirable wager is expired |
| **Resolution service** `src/service/resolution/` | a decisions file | `/run-once`: the decisions on actionable wagers | a decision is carried out as it was meant |
| **Proposition service** `src/service/proposition/` | SQLite rows of source items and proposals | ingest, edit, approve, reject, dispatch | one wager per proposal; nothing edited after approval; one draft per item |
| **MCP server**, **bettor agent** | none (clients of the index) | quotes and calldata of bets | a quoted payout is what the contract pays |
| **Control panel** `src/service/control_panel/` | none | `cast` commands, shown or run | refuses only what the contract refuses; creates what was asked for |
| **dApp**, **explorer** | none (browser) | pages over the index | same rules as the contract |
| **Operations scripts** `src/script/microwonk/` | state and ledger files | fund, load and sweep wallets, visit faucets | a file that agrees with what was done |

The clients read the index and send transactions to the contracts; the indexer
follows the contracts' events; the sweeper and the resolution service read the index
and act on the contracts; the proposition service creates wagers with `cast`. Only the
contracts hold money, and everything else is a cache of them or a client of them.

Hard behaviours: transactions of many accounts in any order within and across block
timestamps; two clocks that may each be timed, authority-driven or both; integer
rounding of payouts and fees collected in any order from one balance; off-chain, log
ingestion that crashes, is retried and is read while it writes, decisions taken on a
row that lags behind the chain, and check-then-act sequences on database rows and
files. `PROJECT.json` lists the hazards line by line, each with the properties about it.

## 2. Modules

| Module | Models | Kind |
|---|---|---|
| `WagerLifecycle` | clocks, authority overrides, fee charge, refund, payment, withdrawal: what both wager modes share, and the factory's mode-independent checks | actions and properties, extended by the two modes |
| `PayoffPolicy` | ticket masks (as sets of options), the five payoff policies | operators |
| `EnumeratedWager` | an enumerated wager from `createEnumeratedWager` with seeds to the last claim | specification |
| `FreeformWager` | a freeform wager | specification |
| `Escrow` | what a wager promises about money: collect, lock, settle once within what is held, pay each claimant its fixed amount once | abstract specification |
| `Indexer` | the chain's logs, the file, and the sync process from commit to commit | specification |
| `WagerHistory` | what an index promises: the summary of a growing prefix of each wager's events | abstract specification |
| `IndexerAPI` | the HTTP answers, statement by statement, beside `Indexer` | composition |
| `OpenWagers` | wagers reduced to clocks and verdict, and rows of the index that lag behind them | actions, extended by `Keepers` |
| `Keepers` | sweeper and resolution service acting on `OpenWagers`; the explorer's rule | composition |
| `Proposals` | the proposition server's requests, one SQL statement or child process at a time | specification |
| `ReviewMachine` | the review the service documents | abstract specification |
| `Ingest` | `run_ingest` beside the server, over the same table | composition |
| `Odds` | payout and multiple arithmetic of the clients | operators |
| `Quotes`, `FreeformQuotes` | MCP server and bet scout in front of `EnumeratedWager`, `FreeformWager` | compositions |
| `ControlPanel` | CLI and HTTP shell in front of `EnumeratedWager` | composition |
| `FaucetRun` | `next_faucet_run.py`, its file and the faucets | specification |
| `MC*` | constant values and settings for TLC | model checking |
| `FiniteSums` | sums of integer functions over finite sets, enumerations of them | lemmas |
| `WagerLifecycle_proofs` | the lifecycle of either mode, the lists of fee recipients, what is owed; the rounding of `Odds` | proofs |
| `EnumeratedWager_proofs`, `FreeformWager_proofs` | a wager of either mode: types and clocks, the bet book, the money and the escrow; the clients in front of it (`Quotes` and `ControlPanel` in the one, `FreeformQuotes` in the other) | proofs |
| `Indexer_proofs` | the fetch, the batch and the file; what commits leave true of an answer, the growing list | proofs |
| `Keepers_proofs` | the rows, what the keepers send and what it does | proofs |
| `Ingest_proofs` | ingests and reviews over one table | proofs |
| `FaucetRun_proofs` | the file of the faucet script | proofs |

### How the wager modules correspond to the contract

* A transaction is atomic and reverts as a whole, so each external function is one
  action and a revert is an action that is not enabled. Reentrancy is excluded
  by `nonReentrant` for a token without callbacks.
* `now` is `block.timestamp`; `Tick` is a later block; several transactions may share
  a timestamp. The clock starts at 1 because the contract uses 0 for "not closed".
* One wager is followed from its creation. State `"Undeployed"` is the time before;
  the factory's checks are guards of the creating action, the constructor's and the
  seeding's assignments its effects. `Authority` stands for the account in the roles of
  resolver, betting closer and resolution closer; the closers may also be `NoAddress`.
* A mask is a set of options, `Bits` may exceed `Options` so that foreign bits are
  tried; popcount is `Cardinality`. An answer is a model value, its id a tuple with the
  domain byte (keccak256 taken as injective).
* `custody` is the wager's token balance. The token moves exactly the amount it is asked
  to; direct donations to the wager are left out.
* `_recordBetMask` is `Recorded`, the book after each entry of a batch `BooksAfter`; the
  cap is tested after the batch, which is the same as before each push because the
  enumeration only grows and a revert undoes the whole batch.
* Amounts are unbounded naturals; in the code a sum over 2^256 reverts.
* `FeeConfig` is `_buildFeeConfig`: the protocol's slot first, only when it charges.

### How the service modules correspond to the code

* **Steps.** Where the code does one thing that others can see or undo (a commit, an RPC
  call, an SQL statement on a shared file, a child process), the model has one action;
  what lies between two of them is local and part of the action. So `sync_logs` is
  `BeginPass`, `Fetch`, `Apply` per log and `EndOfChunk` with its commit, `get_wager` one
  action per `SELECT`, and approve two actions: the read with its check and the write.
* **Settings.** `Indexer`, `Keepers` and `Proposals` have a variable `setting`, chosen in
  `Init` and never changed: the deployment (start block, flags, what clocks are off by)
  together with the bounds. One run explores all of them side by side; `MCQuotes` and
  `MCTools` do the same with `kind` and `tool`, which pick the program.
* **Indexer.** `chain` is a sequence of blocks of logs; emission follows the contract's
  order of events: a transaction's logs stay together (the fees a verdict charges come before
  it, `Charging`), a timed close of betting emits nothing, and `closeResolutionWindow`, which
  is gated on neither the state nor an emitted close, may log before or after the verdict.
  `disk` is what is committed, `work` what the connection sees;
  `Crash` copies `disk` back. `Replay` is the operator's own pass over any blocks that starts
  no later than the one behind the cursor: the code has no such guard, and what a later start
  loses is under *Differences*. The three tables are one row per wager.
  Integers past `SQLiteMax` do what SQLite does with them: an oversized argument
  raises, a sum past the range is stored as a REAL whose text is read back up to its point.
  Reorganisations are left out, as in the code, which has no answer to them.
* **Keepers.** The index is reduced to a row that is replaced by the wager's present state
  at any time (`Sync`), hence arbitrarily stale. Clock skew of the services is a choice
  per pass. Each `/run-once` has a thread with candidates of its own (`run[t]`), so requests
  overlap with each other, the sweeper and edits of the file. `carried` records the decision of the transaction that landed.
* **Proposals, Ingest.** Threads of one process over one SQLite file. `Send` is the child
  process: the transaction may land although the process reports failure. `SendRaises` is the
  dispatch that raises before it sends (no `cast`, a draft the command builder refuses): the
  handler dies, the row stays approved and keeps no record of the attempt. `ServerStops`
  kills every thread between any two statements.
* **Quotes.** `view` is the row of the index at any earlier time, `quote` the quote that
  is being followed until the claim. The wager behind it is the contract's own module.
* **ControlPanel.** A request is answered (`last`) and, when it is sent, performed on the
  contract's module or lost; everybody else may take the same steps directly.
* **FaucetRun.** `visits` is the file, `drips` what the faucets have paid out, at the exact
  time; the file has the time of the record, in whole seconds. One process per command, reading
  and writing the file in two steps. A session may be left, or the process killed, before the
  faucet, between drip and record, before the file is opened (`Interrupted`) and once
  `write_text` has truncated it (`KilledWhileWriting`); `lost` are the drips whose record did
  not survive. A faucet that is down, or has refused, is recorded as a visit without a drip
  (`ParkVisit`, the runbook's `--amount-raw 0`).

Operators whose comment calls them a *mutant* are wrong variants of the definition
below them; they are used by no specification and exist to show that the properties
notice such a change (`PROJECT.json`, `mutants`).

## 3. Model checking

| Run | Checks | Bounds and why they suffice |
|---|---|---|
| `enum_payout` | types, `Solvent`, `WinningTicketBeatsRefund`, refinement of `Escrow` | all policies, two options (three tickets), stakes 1..3 up to 5 units, fees 20% + 30% to a bettor: every split in which two floors lose a unit, ties and repeats of a ticket by two bettors occur |
| `enum_lifecycle` | `LifecycleInv`, `WindowsPartition`, `AnchorNeverMoves`, `PotFrozenOnceClosed`, `DecidedInTime`, `TimedWagerPaysOut`, `ClosedWagerBecomesFinal` | close times 0, 2, 3, windows 0..2, closers present or absent, time to 6: a close before, at and after every boundary; two stakes |
| `freeform` | types, `BookConsistent`, `Solvent`, refinement of `Escrow` | three answers and a cap of 2, a recipient listed twice, malformed answers |
| `index_sync` | types, `NoGap`, refinement of `WagerHistory` | three blocks in chunks of two; a wager of ours and a foreign one with a crash and an operator's replay in any place, starting after the first block; one wager from the first block on with a refused call besides; and four logs of any kind of one wager: a window closed after a timed close of betting and after the verdict, fees ahead of a verdict |
| `index_api` | `AnswerReadsForward`, `WalkReceivesEachOnce`, `PoolsExact`, `CatchesUp` | requests between any two commits, with a crash and a refused call; three wagers on pages of one; amounts and terms around SQLite's largest integer, which is 2 here, with a replay |
| `keepers` | `DecisionCarriedOut`, `CandidatesSound`, `RulesAgree`, `RevertMeansFinal`, `ExpiredInTheEnd` | one wager of every shape (clocks, modes, resolvers) with rows of any age; two wagers for both keepers; a sweeper whose clock is ahead and that loses a send; two overlapping `/run-once` for one wager, with the decision changed in between; time to 4 |
| `propositions` | `OneWagerPerProposal`, `NoDraftTwice`, `EveryItemIsDrafted`, refinement of `ReviewMachine` | one request beside one ingest with a restart, a failing statement, the calendar; two overlapping ingests of three entries, two of one headline; servers that may not, or cannot, send |
| `quotes` | `QuotedPayoutIsPaid`, `PickIsSmallestPool`, `RefusalsAreFinal`, `BookConsistent` | quotes of one or two legs with three units in the pot; of one leg around every combination of clocks; and, without quotes, batches and seeds of two entries with empty, foreign and repeated masks and zero amounts, cap of 2 on distinct tickets with three accepted tickets |
| `freeform_quotes` | `QuotedPayoutIsPaid`, `PickIsSmallestPool` | three answers of which one is another with a space, hashes in the opposite order, a cap of 2, three units in the pot |
| `tools` | `PanelRefusesOnlyReverts`, `CreatedAsAsked`, `RefusalsExplained` | every create request over two policies, clocks and closers present or absent, seeds inside and outside the options; two faucets, with and without a rate, a cooldown of two seconds, each of two ticks, two sessions left or killed at any step |
| `keepers_outcome_index` | `DecisionCarriedOut` fails | see *Findings* |
| `review_double_dispatch` | `OneWagerPerProposal` fails | see *Findings* |

`CHECK_DEADLOCK FALSE` where the system really stops: a wager that has paid everybody,
with the clock at `MaxTime`. `Supply`, `MaxTime`, `MaxBatch`, `MaxLegs`, `MaxBlocks`,
`MaxCrashes` and the counts in the settings are the bounds on the unbounded parts. The
options are symmetric in the runs that declare it: no constant tells them apart.

**Fairness.** `FairSpec` of a wager: blocks keep coming; `expire` is open to everybody;
a claimant with money to collect collects it. Nothing is assumed of resolver and
closers, so the liveness properties say what an absent authority cannot prevent.
`Indexer`: the sync thread goes on for ever, since `_sync_loop` catches every exception
of a pass; the RPC refuses only a bounded number of calls. Readers do not hold it up.
`Keepers`: blocks, the index's poll and the sweeper's `--loop --execute` go on;
`ExpiredInTheEnd` is claimed for a sweeper started with `--execute`. Nothing is assumed of
the resolution service, which acts on request.

### Findings

* `keepers_outcome_index`: a decision may give `outcomeIndex`, which the service documents
  as "promoted to 1<<i if winningMask absent" (`service.py:27`). The code
  sends the index itself as the mask (`service.py:326-335`): index 1 resolves the wager to
  outcome 0, index 2 to outcome 1, and index 0 reverts.
* `review_double_dispatch`: two overlapping dispatch requests of one approved proposal both
  pass the check of `server.py:242` and create two wagers, which `dispatch.py:9-12` warns of
  and leaves to its caller.

### Differences between text and code that no run is spent on

Met while modelling; the models follow the code, and the properties are stated where
the code keeps them.

* *Contract.* `_resolutionWindowOver` is called the strict complement of
  `_resolutionWindowOpen` (`ParamutuelWagerV3.sol:355`): before betting closes both are false.
  `_resolutionWindowOpen` is said to be false until betting closes (335-337): without a
  window it is true. `resolve` and `retract` test the close of betting first, so neither
  comment misleads the callers; `WindowsPartition` is what holds.
* *Indexer.* An orphan log "will be replayed because its row was never written"
  (`indexer.py:323-327`): the cursor moves past it and it is not read again unless an operator
  replays the range. A replay that starts beyond the block after the cursor moves the cursor
  over blocks nobody read (`indexer.py:761-771`, `808`), which no later pass takes up: `Replay`
  starts no later than that block, and without this guard `NoGap` fails. `total_pot` is a SQLite integer and wrong past 2^63, which is 9.2 units
  of an 18-decimals token (`indexer.py:557`, `docs/MACHINE.md:146`); the pools are exact. An idle
  poll sets `last_sync_error` (`indexer.py:773-779`). The fees are in no event, so the index
  reports 0 for every wager.
* *Indexer API.* `get_wager` combines its tables "in one round trip" (`api.py:135-136`): they
  are several statements, and the answer may join several commits, though only forwards.
* *Resolution service.* The answer "exactly" (`service.py:30`) is stripped (`service.py:146`):
  an answer that somebody backed with a space at its end cannot be declared the winner.
  Only the newest 1000 open wagers are looked at.
* *Proposition service.* PATCH checks and writes in two statements: an approval in between
  leaves an approved draft nobody reviewed; approve and reject overlap in the same way
  (`db.py:11-22`). After a restart between the send and the record the proposal is still
  approved and can be sent again. An item whose draft is not stored before a stop or an
  error is never drafted (`docs/PROPOSITION-SERVICE.md:3`). Two overlapping ingests may both
  store a calendar text (`:58`). Entries without a guid share a key with others of the same
  link or title (`rss.py:64-65`).
* *Quotes.* Both clients quote without fees, as the index knows none; with a batch
  that names an outcome twice, or a policy other than `SINGLE_WINNER`, the expected payout
  is not the contract's (`docs/BET-AGENT.md:65`, `odds.py:22`). Ties of the best multiple are
  said to be broken "by lowest current pool share" (`policy.py:6`): `max` takes the first
  index (`policy.py:116`). Multiples are rounded to four places (`odds.py:27,32`), so outcomes of
  different pools do tie, above ten thousand units the usual case, and the larger pool may
  be picked; `PickIsSmallestPool` allows for this and nothing else. A row index into the answers moves when an
  answer with a smaller id is first backed between `recommend` and `quote`
  (`planner.py:127-129`). "Pass the exact UTF-8 answer" (`mcp_server/server.py:347`) is stripped.
* *Control panel.* `--outcome-index` of `resolve` is sent as a mask (`commands.py:227-229`). The
  HTTP shell "mirrors the CLI commands" (`web.py:4`) but does not read a payoff policy or its
  parameter: it creates `SINGLE_WINNER` whatever is asked (`web.py:88-105`), so `CreatedAsAsked`
  claims the policy for the CLI only. Multi-bit seeds are said to go through "by passing the
  precomputed mask as the index value" (`commands.py:82-84`): the value is promoted to
  `1 << value` like any index (`commands.py:116`), as the comment above that line says, which sends
  such callers to the factory; `CreatedAsAsked` reads a seed as an index.
* *Faucet script.* "This runbook is resumable" (`docs/FAUCET-RUNBOOK.md:8-12`): a session left
  between a drip and its record resumes without it, and the next READY for that pair is
  refused. A faucet that is depleted or down is READY too, and errors; the runbook says so
  (line 139) and what to do. `RefusalsExplained` speaks of the faucet's rate limit and
  names the visits that may be missing. Times are written in whole seconds
  (`next_faucet_run.py:129`), so READY may come up to a second early. Two people who record at
  the same time lose a visit; a kill during the write leaves a file no command can read.

## 4. What is proved

Theorems hold for every value of the constants that satisfies the `ASSUME`s of the module
and, where it says so, the assumption named in the theorem.

| Theorems | State |
|---|---|
| `TypeCorrect`, `LifecycleCorrect`, `PartitionCorrect`, `AnchorCorrect`, `PotCorrect`, `DeadlineCorrect`, `BookCorrect`, `Solvency`, `WinnersBeatRefunds`, `EscrowImplemented` | of the enumerated wager: types, `LifecycleInv`, `WindowsPartition`, the three action properties, the bet book after batches of any length, solvency with the exact bound on the dust, the refinement of `Escrow` |
| `FreeformTypeCorrect`, `FreeformClocks`, `FreeformBookCorrect`, `FreeformSolvency`, `FreeformEscrowImplemented` | the same of the freeform wager, with the cap on distinct answers |
| `IndexerTypeCorrect`, `IndexerNoGap`, `IndexerPoolsExact`, `IndexerImplementsHistory` | of the indexer, for any chain, chunk size, refusal and crash and any replay that leaves no blocks out; the last, the refinement of `WagerHistory`, for settings `WithinSQLite` |
| `APIAnswersReadForward`, `APIWalkReceivesEachOnce` | of the API's answers beside the sync loop, for any page size; the second where `NothingReplayed` |
| `KeepersCandidatesSound`, `KeepersRulesAgree`, `KeepersRevertMeansFinal`, `KeepersDecisionCarriedOut` | of the sweeper and the resolution service, for any wagers and rows of any age; the last for decisions that are `Unambiguous` |
| `QuotesArePaid`, `FreeformQuotesArePaid` | of the MCP server and the bet scout before a wager of either mode: for rows of any age and batches of any length, what was quoted is paid to the unit when nobody bets in between |
| `PicksSmallest`, `FreeformPicksSmallest`, `RefusalsFinal` | of the same clients: picks but for rounding, for pools of any size; refusals for any clocks and any lag |
| `SolventWithClients` | the wager stays solvent under the clients |
| `PanelRefusesRightly`, `PanelCreatesAsAsked` | of the control panel, for every request: the factory reverts what it refuses, and what it creates has the clocks, closers and seeds that were asked for, through the CLI also the policy |
| `OnlyKilledVisitsAreMissed` | of the faucet script, for any faucets, docks and rates and any number of sessions left or killed at any step; for one person (`OnePerson`) |
| `IngestNoDraftTwice`, `IngestEveryItemIsDrafted` | of ingests, any number at a time |
| `IngestOneWagerPerProposal`, `IngestReviewImplemented` | of requests that come `OneAtATime`, beside any ingests: the invariant and the refinement of `ReviewMachine` |

The assumptions are finite sets of bettors, options, answers, tickets, wagers and ingests, no
ticket being 0 (the key of a log without one; a mask has a bit and an answer id is a hash);
`OneAtATime` (at most one review request is served at a time), without which
`review_double_dispatch` is the counterexample; `Unambiguous` (a decision gives no outcome by
its index alone and no answer between blanks), without which `keepers_outcome_index` is; and
`NothingReplayed` (the operator's replay, for which the daemon is stopped, does not go on
while a client walks the list: it may index a wager older than those listed, which moves
the rows behind it by one); and `WithinSQLite` (no term of a wager and no pot is past SQLite's
integers: past them a creation event leaves no row and the pot's text is that of a REAL);
`ClientAssumption` (the client is one of the bettors; the masks name each option once, the hashes
tell the answer ids apart), which TLC evaluates in the runs of the quotes; `PanelAssumption` (the
operator may bet, options are numbered from 0, and the panel's default policy is
among the policies); `RatesTyped` (a rate is a number) and `OnePerson` (one person runs the
faucet script at a time: two who record side by side lose a visit). What a theorem
states was checked by TLC on the run of its component before it was proved.

**The lifecycle.** `WagerLifecycle_proofs` defines `LifecycleNext`, a next-state relation that
says of the mode's part of a step only that the stakes stay typed and that nobody's stake
exceeds the pot. It proves that `LifecycleIInv` (types and `LifecycleInv`) is inductive for
it and that each of its steps has the clock properties. `WindowsPartition` alone is not
inductive: it needs that an anchor is never 0, hence that an authority close lies in
`1..now`; `DecidedInTime` needs that an authority close is never later than the timed
one, and bounds `retract` like `resolve`; the type of a refund needs that a bettor with stake implies a pot. Each mode then
shows that its steps are steps of `LifecycleNext` (`EnumeratedStep` for the one), which is
where bets, batches and payouts are typed. The recursion over a batch is a recursive
function; that such a function exists is proved by taking the least length without one
(`BooksExist`). Sums are the community modules' fold, about which `FiniteSums` proves the
facts needed, by well-founded induction over the subsets of a finite set.

**The book.** `RecordedBook` shows that one entry of a batch keeps both enumerations complete
and free of repeats and moves the pool and the bettor's stake by the same amount;
`BooksAfterOK` carries that through a batch, again by a least counterexample. An answer
bet in freeform mode is one such entry.

**The money.** `Solvent` needs three companions (`MoneyInv`): the consistent book, "nobody is
paid and no fee credited before the verdict", and "the denominator is still that of the
winner". `MoneyStep` says what a transaction can do to the money: let stakes in,
settle, pay one claimant, or nothing. Settling is the step with arithmetic in it: the fee
slices add up to the fees (`ChargeFeesSum`); the stakes of all bettors, counted with their
weights, add up to the denominator that `resolve` computes from the pools (`AllUnits`, a
double sum exchanged by `SumFibres` and `SumReindex`); and floors of shares of n with total
weight d lose less than one unit each (`SumFloors`). A payment then subtracts the same
amount from custody and from what is owed (`PaysSolvent`). The refinement of `Escrow` maps
the same four kinds of step (`DepositSimulated`, `LockSimulated`, `SettleSimulated`,
`PaymentSimulated`); that a locked escrow never reopens is the anchor's doing.

**The quotes.** A client reads a row, quotes, and signs later; `QuotesInv` carries what is needed
from the one to the other: the invariant of the wager, that a row is never ahead of the wager
(`ViewInv`, `RowKept`), and that a quote comes from such a row and, once placed, lies on top of
it in the pools and among the client's bets (`QuoteFrom`, `GrownBy`). Pools and bets only
grow, so a step of anybody keeps it. At the claim the argument runs backwards: the pools add up to
the pot (`PoolsArePot`), each is at least the quoted pool plus the legs on it, and the pot is
exactly the quoted one; so all of these are equal (`QuoteIsExact`, by `SumTight`). With one
winner the denominator is the winner's pool (`OneWinner`), which makes the contract's quotient
the client's. On a freeform wager a row holds one pool and the pot, and the role
of the other pools is played by the stakes beside the answer, which only grow. `PicksSmallest`
rests on `SmallerPoolScoresMore`: rounding to four places, ties to even, is monotone
(`RoundMonotone`), so a smaller pool never scores less. That the answers have rows in the
order of their ids is `SortedEnumeration`.

**The control panel.** The panel's checks are weaker than the factory's (`FactoryAcceptsLess`),
and what it asks for does not change before it is refused (`RefusedStep`). Every request
that is sent is a step the wager could take from somebody else (`PanelStep`), so its invariant
holds under the panel. That each seed lies on the outcome that was asked
for needs that no stake precedes the creation (`NoStakeBefore`).

**The faucet script.** While the file can be read, each drip is in it with a time no more than a
second before the drip, or in the hands of the person who took it, or lost to a kill
(`FaucetInv`); who is about to write has read what the file still holds, which is where
`OnePerson` is needed. So what a refused person was not told of was lost, or was off by the
rounding. A kill during the write leaves a file that cannot be read, hence no further advice.

**The indexer.** `NoGap` says of the committed file what has to be true of four things at
once, so `IInv` is the conjunction of `ChainInv` (a wager's creation comes
first, and it has one of each event that occurs once and one verdict), `FileInv` of `disk` and of `work` (each is the result of applying its own
events), and `BatchInv`: everything of a known wager that the range being read holds is
applied or still in the batch, in log order, and what is applied of the rest lies before
it. Two clauses carry the proof. A log of a known wager that lies before the head of
the batch is applied: so the end of a chunk may move the cursor. And the creation of a wager
comes first in log order: so no log is dropped as an orphan that a row would want. That the
bisecting fetch returns exactly the logs of the range, whatever calls are refused, is
`FetchComplete`; that sorting gives log order without loss, `LogOrder`. The invariant is not
inductive for a replay that starts beyond the block after the cursor, which is how that
difference was found.

The refinement of `WagerHistory` adds `HistoryInv`: each row says what its events amount to
(`RowsFollow`), and the open transaction holds all events of the file. It is about sets of
logs; the abstract summary is about sequences. `IndexedFirst` joins them: as nothing of a wager
comes before an event that is in the file, the indexed events are the beginning of its events
in log order. The abstract last event of a kind is the only one (`LastIsCarried`, from
`ChainInv`), and the pot, which SQLite adds up bet by bet, is the sum of the pools and so of
the stakes in the events (`PoolsAddUp`, `StakedLogs`). A step of the chain only appends to the
histories (`EventsExtend`); any other leaves the chain, and the file it commits keeps
every event it had (`HistoryKeeps`).

**The answers.** What a handler has read is compared with the file as it is now, which commits
have moved on meanwhile. `FileGrows` is what every step of the indexer does to the file: events,
rows, winners and stakes are never taken back (`Ahead`), and without replays what is new
comes after all that was there. It needs that the open transaction is ahead of the file and
that a pass reads behind the cursor (`SyncInv`, `UnreadInv`). `WagerBundle` then orders the
parts: the pot read is at most the pools read, those are at most the stakes in the events
of any later file. For a walk the client's rows are the beginning of the list as it is now
(`WalkInv`), and a list that grows at its end keeps its beginning (`OrderExtends`).

**The keepers.** A row never knows more than the contract (`RowSound`): a close time in it is the
contract's, a window closed in it is closed. As time only makes wagers expirable and
verdicts are final, what the sweeper selected stays expirable or becomes final until it
is sent (`SweepInv`). `RulesAgree` compares the four texts of the rule case by case. A
decision reaches the contract in the mode of its wager because a row's mode never changes.

**Ingest and review.** `NoDraftTwice` needs that an item between its two commits has no draft and
belongs to one ingest (`ItemInv`); the calendar needs that no edit writes a calendar text,
which follows from what operators may write. `ReviewInv`: what a request has read is still so
when it writes, and a wager without a recorded dispatch is about to be recorded. Ingests only add
rows (`ReviewGrows`), so they may overlap a review. `ServeEffects` says once what each statement
of a request does to the tables; the invariants and the refinement share it.

**Only model-checked.** Liveness, as fairness and ENABLED are out of the prover's reach:
`TimedWagerPaysOut`, `ClosedWagerBecomesFinal`, `CatchesUp`, `ExpiredInTheEnd`. Every other property
of a passing run is a theorem. The proofs treat amounts as unbounded naturals, like the models;
SQLite's integers are bounded in `Indexer`, and `IndexerPoolsExact` holds beyond them.

## 5. Plan

Done: the contracts in both modes, the services that read and act on them, and the clients
and tools in front of them, with the proofs above. Left: a ledger module for the shell scripts
that move funds, across interruptions, and the
control panel's view of a freeform wager, whose create requests are checked but not followed.

### Not modelled

* Site, documentation, research notes, deployment and CI: no state of the running system.
* Browser code of the dApp and the explorer, HTTP parsing, configuration and argument parsing:
  they hold no state that another part reads.
* The MCP server's other encode tools and its resources: one ABI call or one pass-through
  each.
* `fetch_wager_metadata` (display texts read from a wager; its failures are swallowed), the
  free-text search of the API, the checklists of the control panel.
* The shell scripts `fund_wallets.sh`, `load_treasury.sh`, `sweep_wallets.sh`: see the plan.
* Tokens that take a cut of a transfer or call back; chain reorganisations.

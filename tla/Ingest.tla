------------------------------- MODULE Ingest -------------------------------
(***************************************************************************)
(* POST /api/ingest beside the review of drafts: run_ingest fetches each   *)
(* source, stores an entry it has not seen and then a draft for it, each   *)
(* in a commit of its own, and adds the drafts of the calendar.  Several   *)
(* ingests run at the same time (the panel's button, a cron job), sources  *)
(* answer with what they hold now or not at all, statements fail, and the  *)
(* server stops between two commits.                                       *)
(***************************************************************************)
EXTENDS Proposals

CONSTANTS
    Ingests,        \* names of the threads that serve ingests
    Sources,        \* ids of the enabled sources
    JsonSources     \* those of type json_array or hackernews; the others are RSS

\* The ingests served at the same time; the entries the sources have: [source, guid,
\* link, title]; the texts of template_calendar_propositions for these days. Bound:
\* statements that fail.
ASSUME IngestAssumption ==
    /\ JsonSources \subseteq Sources /\ IsFiniteSet(Ingests)
    /\ \A s \in Settings :
        /\ s.ingests \subseteq Ingests /\ s.faults \in Nat
        /\ s.calendar \cap Contents = {}
        /\ \A e \in s.feed : e.source \in Sources

VARIABLES
    item,       \* table source_items: the entry of each row, by id
    origin,     \* source_item_ids of each proposal: an item, or 0 for the calendar
    ingest,     \* what each ingest is doing
    faults

ingestVars == <<item, origin, ingest, faults>>
allVars == <<vars, ingestVars>>

NoEntry == "none"
Resting == [step |-> "idle", sources |-> {}, entries |-> {}, row |-> 0, texts |-> {}, text |-> NoEntry]
At(i, step) == ingest[i].step = step
Goes(i, state) == ingest' = [ingest EXCEPT ![i] = state]

-------------------------------------------------------------------------------
(* the dedupe key *)

\* rss.py: guid, or link, or title; json_sources.py: id, or title.
ExternalId(e) ==
    IF e.guid # "" THEN e.guid
    ELSE IF e.link # "" /\ e.source \notin JsonSources THEN e.link
    ELSE e.title

Key(e) == <<e.source, ExternalId(e)>>
Seen(e) == \E n \in DOMAIN item : Key(item[n]) = Key(e)

\* Mutant: INSERT OR IGNORE, whose lastrowid is that of the last insert.
UpsertOrIgnore(e) ==
    IF Seen(e) THEN [items |-> item, row |-> Len(item)]
    ELSE [items |-> Append(item, e), row |-> Len(item) + 1]

\* Mutant: the caller is given the number of rows there were before.
UpsertCountingBefore(e) ==
    IF Seen(e) THEN [items |-> item, row |-> 0]
    ELSE [items |-> Append(item, e), row |-> Len(item)]

\* The row of a new entry, or none (row 0) when UNIQUE refuses it.
UpsertSourceItem(e) ==
    IF Seen(e) THEN [items |-> item, row |-> 0]
    ELSE [items |-> Append(item, e), row |-> Len(item) + 1]

ProposalExists(text) == \E n \in DOMAIN proposal : proposal[n].content = text

\* The template names the headline; the text of a draft is its title here.
PropositionOf(e) == e.title

-------------------------------------------------------------------------------
StartIngest(i) ==
    /\ At(i, "idle") /\ Len(proposal) < setting.proposals
    /\ \E texts \in {{}, setting.calendar} :
        Goes(i, [Resting EXCEPT !.step = "sources", !.sources = Sources, !.texts = texts])
    /\ UNCHANGED <<vars, item, origin, faults>>

\* A source answers with some of its entries, or raises: the next source then.
FetchSource(i) ==
    /\ At(i, "sources")
    /\ \E s \in ingest[i].sources :
        LET left == [ingest[i] EXCEPT !.sources = @ \ {s}]
        IN  \/ \E entries \in SUBSET {e \in setting.feed : e.source = s} :
                Goes(i, [left EXCEPT !.step = "items", !.entries = entries])
            \/ Goes(i, left)
    /\ UNCHANGED <<vars, item, origin, faults>>

StoreItem(i) ==
    /\ At(i, "items")
    /\ \E e \in ingest[i].entries :
        LET upsert == UpsertSourceItem(e)
            left == [ingest[i] EXCEPT !.entries = @ \ {e}]
        IN  /\ item' = upsert.items
            /\ IF upsert.row = 0 THEN Goes(i, left)
               ELSE Goes(i, [left EXCEPT !.step = "draft", !.row = upsert.row])
    /\ UNCHANGED <<vars, origin, faults>>

StoreDraft(i) ==
    /\ At(i, "draft")
    /\ proposal' = InsertProposal(PropositionOf(item[ingest[i].row]))
    /\ origin' = Append(origin, ingest[i].row)
    /\ Goes(i, [ingest[i] EXCEPT !.step = "items", !.row = 0])
    /\ UNCHANGED <<setting, wager, request, crashes, item, faults>>

\* A statement on the file raises: the rest of the source is given up.
StatementFails(i) ==
    /\ ingest[i].step \in {"items", "draft"} /\ faults < setting.faults
    /\ faults' = faults + 1
    /\ Goes(i, [ingest[i] EXCEPT !.step = "sources", !.entries = {}, !.row = 0])
    /\ UNCHANGED <<vars, item, origin>>

SourceDone(i) ==
    /\ At(i, "items") /\ ingest[i].entries = {}
    /\ Goes(i, [ingest[i] EXCEPT !.step = "sources"])
    /\ UNCHANGED <<vars, item, origin, faults>>

SourcesDone(i) ==
    /\ At(i, "sources") /\ ingest[i].sources = {}
    /\ Goes(i, [ingest[i] EXCEPT !.step = "calendar"])
    /\ UNCHANGED <<vars, item, origin, faults>>

CheckCalendar(i) ==
    /\ At(i, "calendar")
    /\ \E text \in ingest[i].texts :
        LET left == [ingest[i] EXCEPT !.texts = @ \ {text}]
        IN  Goes(i, IF ProposalExists(text) THEN left
                    ELSE [left EXCEPT !.step = "template", !.text = text])
    /\ UNCHANGED <<vars, item, origin, faults>>

StoreCalendarDraft(i) ==
    /\ At(i, "template")
    /\ proposal' = InsertProposal(ingest[i].text)
    /\ origin' = Append(origin, 0)
    /\ Goes(i, [ingest[i] EXCEPT !.step = "calendar", !.text = NoEntry])
    /\ UNCHANGED <<setting, wager, request, crashes, item, faults>>

IngestDone(i) ==
    /\ At(i, "calendar") /\ ingest[i].texts = {}
    /\ Goes(i, Resting)
    /\ UNCHANGED <<vars, item, origin, faults>>

-------------------------------------------------------------------------------
\* The threads are gone, committed rows stay. A write that raises (SQLite stays
\* locked for longer than the timeout) ends its request in the same way.
ServerStops ==
    /\ crashes < setting.crashes
    /\ (\E i \in Ingests : ~At(i, "idle")) \/ (\E r \in Requests : ~Idle(r))
    /\ crashes' = crashes + 1
    /\ request' = [r \in Requests |-> Answered("none")]
    /\ ingest' = [i \in Ingests |-> Resting]
    /\ UNCHANGED <<setting, proposal, wager, item, origin, faults>>

IngestInit ==
    /\ Init
    /\ item = <<>> /\ origin = <<>> /\ faults = 0
    /\ ingest = [i \in Ingests |-> Resting]

IngestStep(i) ==
    \/ StartIngest(i) \/ FetchSource(i) \/ StoreItem(i) \/ StoreDraft(i)
    \/ StatementFails(i) \/ SourceDone(i) \/ SourcesDone(i)
    \/ CheckCalendar(i) \/ StoreCalendarDraft(i) \/ IngestDone(i)

IngestNext ==
    \/ \E i \in setting.ingests : IngestStep(i)
    \/ ServerStops
    \/ \E r \in setting.requests : Serve(r) /\ UNCHANGED ingestVars

IngestSpec == IngestInit /\ [][IngestNext]_allVars

-------------------------------------------------------------------------------
\* However often, and however many at a time, feeds are ingested, and whatever
\* fails, an entry is stored once and drafted at most once; a calendar text is not
\* drafted again while a draft says the same, if ingests do not overlap ("Identical
\* calendar proposition text is skipped if it already exists").
NoDraftTwice ==
    /\ \A m, n \in DOMAIN item : Key(item[m]) = Key(item[n]) => m = n
    /\ \A m, n \in DOMAIN origin : origin[m] = origin[n] /\ origin[m] # 0 => m = n
    /\ Cardinality(setting.ingests) = 1 =>
        \A m, n \in DOMAIN origin :
            (/\ origin[m] = 0 /\ origin[n] = 0
             /\ proposal[m].content \in setting.calendar
             /\ proposal[m].content = proposal[n].content) => m = n

\* As long as no statement fails and the server does not stop, every stored entry
\* has its draft, or an ingest is about to store it ("turns each new item into a
\* pending Yes/No draft wager", PROPOSITION-SERVICE.md).
EveryItemIsDrafted ==
    (faults = 0 /\ crashes = 0) =>
        \A n \in DOMAIN item :
            \/ \E m \in DOMAIN origin : origin[m] = n
            \/ \E i \in Ingests : At(i, "draft") /\ ingest[i].row = n
=============================================================================

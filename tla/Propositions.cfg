\* An operator beside an ingest; ingests that overlap; restarts, failing statements.
SPECIFICATION IngestSpec
CONSTANTS
    Requests = {"q", "r"}
    Contents = {"x", "y"}
    Ingests = {"i", "j"}
    Sources = {"rss", "hn"}
    JsonSources = {"hn"}
    Settings <- PropositionSettings
INVARIANTS OneWagerPerProposal NoDraftTwice EveryItemIsDrafted
PROPERTIES ImplementsReview

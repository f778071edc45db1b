\* Two dispatches of one proposal at the same time.
SPECIFICATION IngestSpec
CONSTANTS
    Requests = {"q", "r"}
    Contents = {"x"}
    Ingests = {"i"}
    Sources = {"rss"}
    JsonSources = {}
    Settings <- OverlappingRequests
INVARIANTS OneWagerPerProposal

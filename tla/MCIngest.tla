------------------------------ MODULE MCIngest ------------------------------
(* Settings for the runs of the proposition service that a .cfg cannot write. *)
EXTENDS Ingest

Entry(source, guid, link, title) ==
    [source |-> source, guid |-> guid, link |-> link, title |-> title]

\* One request and one ingest at a time, the calendar, restarts.
Operated == [requests |-> {"r"}, allowExecute |-> TRUE, configured |-> TRUE,
             proposals |-> 2, wagers |-> 2, crashes |-> 1,
             ingests |-> {"i"}, feed |-> {Entry("rss", "g1", "l", "t")},
             calendar |-> {"daily"}, faults |-> 1]
\* Two ingests at a time of two entries under one headline, one of them also in a
\* source without guids; restarts and failing statements.
Overlapping == [Operated EXCEPT !.requests = {}, !.proposals = 4, !.ingests = {"i", "j"},
    !.feed = {Entry("rss", "g1", "l", "t"), Entry("rss", "g2", "l", "t"), Entry("hn", "", "", "t")},
    !.calendar = {}]

\* A server that may not send, or cannot.
Disabled == [Operated EXCEPT !.allowExecute = FALSE, !.proposals = 1]
Unconfigured == [Operated EXCEPT !.configured = FALSE, !.proposals = 1]

PropositionSettings == {Operated, Overlapping, Disabled, Unconfigured}

\* Two requests at a time on one draft.
OverlappingRequests ==
    {[Operated EXCEPT !.requests = {"q", "r"}, !.proposals = 1, !.crashes = 0]}
=============================================================================

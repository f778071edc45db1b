----------------------------- MODULE Ingest_proofs -----------------------------
(***************************************************************************)
(* The proposition service for any requests, ingests, sources and feeds:   *)
(* items and drafts of overlapping ingests; and the review machine, for    *)
(* servers whose requests do not overlap.                                  *)
(***************************************************************************)
EXTENDS Ingest, FiniteSetTheorems, TLAPS

-------------------------------------------------------------------------------
(* Types *)

Feed == UNION {s.feed : s \in Settings}
Calendar == UNION {s.calendar : s \in Settings}
Texts == Contents \cup Calendar \cup {e.title : e \in Feed}
Proposal == [status : Statuses, content : Texts]
Wager == [proposal : Nat \ {0}, content : Texts]

IngestState == [step : {"idle", "sources", "items", "draft", "calendar", "template"},
                sources : SUBSET Sources, entries : SUBSET Feed, row : Nat,
                texts : SUBSET Calendar, text : Calendar \cup {NoEntry}]

Replies == {"none", "ok", "only pending proposals are editable", "not pending",
            "must approve before dispatch", "execute disabled on server", "missing env"}

RequestState == [step : {"idle"}, answer : Replies]
                \cup [step : {"edit", "decide", "send", "record"},
                      id : Nat \ {0}, row : Proposal]

TypeInv ==
    /\ setting \in Settings
    /\ proposal \in Seq(Proposal) /\ wager \in Seq(Wager) /\ item \in Seq(Feed)
    /\ origin \in Seq(Nat) /\ Len(origin) = Len(proposal)
    /\ faults \in Nat /\ crashes \in Nat
    /\ ingest \in [Ingests -> IngestState]
    /\ request \in [Requests -> RequestState]

-------------------------------------------------------------------------------
(* Items and drafts *)

\* Only the ingests and requests that are served do anything, a request to a row that
\* is there.
Started ==
    /\ \A i \in Ingests : i \notin setting.ingests => At(i, "idle")
    /\ \A r \in Requests :
        ~Idle(r) => r \in setting.requests /\ request[r].id \in DOMAIN proposal

\* An item between its two commits has no draft, and no other ingest is about to store
\* one.
ItemInv ==
    /\ \A m, n \in DOMAIN item : Key(item[m]) = Key(item[n]) => m = n
    /\ \A n \in DOMAIN origin : origin[n] <= Len(item)
    /\ \A m, n \in DOMAIN origin : origin[m] = origin[n] /\ origin[m] # 0 => m = n
    /\ \A i \in Ingests : At(i, "draft") =>
        /\ ingest[i].row \in DOMAIN item
        /\ \A n \in DOMAIN origin : origin[n] # ingest[i].row
    /\ \A i, j \in Ingests :
        At(i, "draft") /\ At(j, "draft") /\ ingest[i].row = ingest[j].row => i = j

\* No edit writes a calendar text; a lone ingest stores one that no draft has.
CalendarInv ==
    /\ \A r \in Requests : request[r].step = "edit" => request[r].row.content \in Contents
    /\ \A i \in Ingests : At(i, "template") => ingest[i].text \in Calendar
    /\ Cardinality(setting.ingests) = 1 =>
        /\ \A m, n \in DOMAIN origin :
            (/\ origin[m] = 0 /\ origin[n] = 0 /\ proposal[m].content \in Calendar
             /\ proposal[m].content = proposal[n].content) => m = n
        /\ \A i \in Ingests : At(i, "template") =>
            \A n \in DOMAIN proposal : proposal[n].content # ingest[i].text

IngestInv == TypeInv /\ Started /\ ItemInv /\ CalendarInv /\ EveryItemIsDrafted

-------------------------------------------------------------------------------
(* The steps of an ingest *)

LEMMA SettingFacts ==
    ASSUME TypeInv
    PROVE  /\ setting.ingests \subseteq Ingests /\ setting.requests \subseteq Requests
           /\ setting.calendar \subseteq Calendar /\ setting.feed \subseteq Feed
           /\ Calendar \cap Contents = {} /\ IsFiniteSet(setting.ingests)
<1>1. setting \in Settings
  BY DEF TypeInv
<1>2. setting.ingests \subseteq Ingests /\ setting.requests \subseteq Requests
  BY <1>1, IngestAssumption, ProposalsAssumption DEF IsSetting
<1>3. setting.calendar \subseteq Calendar /\ setting.feed \subseteq Feed
  BY <1>1 DEF Calendar, Feed
<1>4. Calendar \cap Contents = {}
  BY IngestAssumption DEF Calendar
<1>5. IsFiniteSet(setting.ingests)
  BY <1>2, IngestAssumption, FS_Subset
<1>6. QED
  BY <1>2, <1>3, <1>4, <1>5

LEMMA OneIngest ==
    ASSUME TypeInv, Cardinality(setting.ingests) = 1, NEW i \in setting.ingests
    PROVE  \A j \in setting.ingests : j = i
BY SettingFacts, FS_Singleton

\* A step of an ingest that writes neither table.
LEMMA MoveKeeps ==
    ASSUME IngestInv, UNCHANGED <<vars, item, origin>>, NEW i \in setting.ingests,
           NEW state \in IngestState, Goes(i, state), state.step # "draft",
           state.step = "template" => state.text \in Calendar /\ ~ProposalExists(state.text),
           faults' \in {faults, faults + 1}, At(i, "draft") => faults' = faults + 1
    PROVE  IngestInv'
<1>1. /\ setting' = setting /\ proposal' = proposal /\ wager' = wager /\ request' = request
      /\ crashes' = crashes /\ item' = item /\ origin' = origin
  BY DEF vars
<1>2. TypeInv /\ i \in Ingests /\ setting.ingests \subseteq Ingests
  BY SettingFacts DEF IngestInv
<1>3. /\ ingest' \in [Ingests -> IngestState] /\ ingest'[i] = state
      /\ \A j \in Ingests : j # i => ingest'[j] = ingest[j]
  BY <1>2 DEF TypeInv, Goes
<1>4. faults \in Nat /\ faults' \in Nat
  BY <1>2 DEF TypeInv
<1>5. TypeInv'
  BY <1>1, <1>2, <1>3, <1>4 DEF TypeInv
<1>6. Started'
  BY <1>1, <1>3 DEF IngestInv, Started, At, Idle
<1>7. ItemInv'
  <2>1. \A j \in Ingests : At(j, "draft")' => At(j, "draft") /\ ingest'[j] = ingest[j]
    BY <1>3 DEF At
  <2>2. QED
    BY <1>1, <2>1 DEF IngestInv, ItemInv
<1>8. CalendarInv'
  <2>1. CalendarInv
    BY DEF IngestInv
  <2>2. \A j \in Ingests : At(j, "template")' =>
          \/ j = i /\ ingest'[j].text \in Calendar /\ ~ProposalExists(ingest'[j].text)
          \/ At(j, "template") /\ ingest'[j] = ingest[j]
    BY <1>3 DEF At
  <2>3. \A text : ~ProposalExists(text) => \A n \in DOMAIN proposal : proposal[n].content # text
    BY DEF ProposalExists
  <2>4. QED
    BY <1>1, <2>1, <2>2, <2>3 DEF CalendarInv
<1>9. EveryItemIsDrafted'
  <2>1. ASSUME faults' = 0, crashes' = 0, NEW n \in DOMAIN item
        PROVE  \/ \E m \in DOMAIN origin : origin[m] = n
               \/ \E j \in Ingests : ingest'[j].step = "draft" /\ ingest'[j].row = n
    <3>1. faults = 0 /\ crashes = 0 /\ ~At(i, "draft")
      BY <1>1, <1>4, <2>1
    <3>2. \/ \E m \in DOMAIN origin : origin[m] = n
          \/ \E j \in Ingests : At(j, "draft") /\ ingest[j].row = n
      BY <3>1 DEF IngestInv, EveryItemIsDrafted
    <3>3. QED
      BY <1>3, <3>1, <3>2 DEF At
  <2>2. QED
    BY <1>1, <2>1 DEF EveryItemIsDrafted, At
<1>10. QED
  BY <1>5, <1>6, <1>7, <1>8, <1>9 DEF IngestInv

LEMMA MovesKeep ==
    ASSUME IngestInv, NEW i \in setting.ingests,
           \/ StartIngest(i) \/ FetchSource(i) \/ StatementFails(i) \/ SourceDone(i)
           \/ SourcesDone(i) \/ CheckCalendar(i) \/ IngestDone(i)
    PROVE  IngestInv'
<1>1. TypeInv /\ i \in Ingests /\ setting.feed \subseteq Feed /\ setting.calendar \subseteq Calendar
  BY SettingFacts DEF IngestInv
<1>2. ingest[i] \in IngestState /\ faults \in Nat
  BY <1>1 DEF TypeInv
<1>3. Resting \in IngestState
  BY DEF Resting, IngestState, NoEntry
<1>4. CASE StartIngest(i)
  <2>1. PICK texts \in {{}, setting.calendar} :
            Goes(i, [Resting EXCEPT !.step = "sources", !.sources = Sources, !.texts = texts])
    BY <1>4 DEF StartIngest
  <2>2. PICK state : state = [Resting EXCEPT !.step = "sources", !.sources = Sources, !.texts = texts]
    OBVIOUS
  <2>3. state \in IngestState /\ state.step = "sources"
    <3>1. texts \in SUBSET Calendar
      BY <1>1
    <3>2. QED
      BY <2>2, <3>1 DEF Resting, IngestState, NoEntry
  <2>4. UNCHANGED <<vars, item, origin>> /\ faults' = faults /\ ~At(i, "draft") /\ Goes(i, state)
    BY <1>4, <2>1, <2>2 DEF StartIngest, At
  <2>5. QED
    BY <2>3, <2>4, MoveKeeps
<1>5. CASE FetchSource(i)
  <2>1. PICK s \in ingest[i].sources :
            \/ \E entries \in SUBSET {e \in setting.feed : e.source = s} :
                  Goes(i, [[ingest[i] EXCEPT !.sources = @ \ {s}]
                              EXCEPT !.step = "items", !.entries = entries])
            \/ Goes(i, [ingest[i] EXCEPT !.sources = @ \ {s}])
    BY <1>5 DEF FetchSource
  <2>2. \E state \in IngestState : Goes(i, state) /\ state.step \in {"sources", "items"}
    <3>1. CASE Goes(i, [ingest[i] EXCEPT !.sources = @ \ {s}])
      <4>1. [ingest[i] EXCEPT !.sources = @ \ {s}] \in IngestState
        BY <1>2 DEF IngestState
      <4>2. [ingest[i] EXCEPT !.sources = @ \ {s}].step = "sources"
        BY <1>2, <1>5 DEF IngestState, FetchSource, At
      <4>3. QED
        BY <3>1, <4>1, <4>2
    <3>2. CASE \E entries \in SUBSET {e \in setting.feed : e.source = s} :
                  Goes(i, [[ingest[i] EXCEPT !.sources = @ \ {s}]
                              EXCEPT !.step = "items", !.entries = entries])
      <4>1. PICK entries \in SUBSET Feed :
                  Goes(i, [[ingest[i] EXCEPT !.sources = @ \ {s}]
                              EXCEPT !.step = "items", !.entries = entries])
        BY <1>1, <3>2
      <4>2. PICK state : state = [[ingest[i] EXCEPT !.sources = @ \ {s}]
                                     EXCEPT !.step = "items", !.entries = entries]
        OBVIOUS
      <4>3. state \in IngestState /\ state.step = "items"
        BY <1>2, <4>2 DEF IngestState
      <4>4. QED
        BY <4>1, <4>2, <4>3
    <3>3. QED
      BY <2>1, <3>1, <3>2
  <2>3. UNCHANGED <<vars, item, origin>> /\ faults' = faults /\ ~At(i, "draft")
    BY <1>5 DEF FetchSource, At
  <2>4. QED
    BY <2>2, <2>3, MoveKeeps
<1>6. CASE StatementFails(i)
  <2>1. PICK state : state = [ingest[i] EXCEPT !.step = "sources", !.entries = {}, !.row = 0]
    OBVIOUS
  <2>2. state \in IngestState /\ state.step = "sources"
    BY <1>2, <2>1 DEF IngestState
  <2>3. UNCHANGED <<vars, item, origin>> /\ faults' = faults + 1 /\ Goes(i, state)
    BY <1>6, <2>1 DEF StatementFails
  <2>4. QED
    BY <2>2, <2>3, MoveKeeps
<1>7. CASE SourceDone(i)
  <2>1. PICK state : state = [ingest[i] EXCEPT !.step = "sources"]
    OBVIOUS
  <2>2. state \in IngestState /\ state.step = "sources"
    BY <1>2, <2>1 DEF IngestState
  <2>3. UNCHANGED <<vars, item, origin>> /\ faults' = faults /\ ~At(i, "draft") /\ Goes(i, state)
    BY <1>7, <2>1 DEF SourceDone, At
  <2>4. QED
    BY <2>2, <2>3, MoveKeeps
<1>8. CASE SourcesDone(i)
  <2>1. PICK state : state = [ingest[i] EXCEPT !.step = "calendar"]
    OBVIOUS
  <2>2. state \in IngestState /\ state.step = "calendar"
    BY <1>2, <2>1 DEF IngestState
  <2>3. UNCHANGED <<vars, item, origin>> /\ faults' = faults /\ ~At(i, "draft") /\ Goes(i, state)
    BY <1>8, <2>1 DEF SourcesDone, At
  <2>4. QED
    BY <2>2, <2>3, MoveKeeps
<1>9. CASE CheckCalendar(i)
  <2>1. PICK text \in ingest[i].texts :
            Goes(i, IF ProposalExists(text) THEN [ingest[i] EXCEPT !.texts = @ \ {text}]
                    ELSE [[ingest[i] EXCEPT !.texts = @ \ {text}]
                             EXCEPT !.step = "template", !.text = text])
    BY <1>9 DEF CheckCalendar
  <2>2. ingest[i].step = "calendar" /\ text \in Calendar
    BY <1>2, <1>9 DEF IngestState, CheckCalendar, At
  <2>3. \E state \in IngestState : /\ Goes(i, state) /\ state.step \in {"calendar", "template"}
                                   /\ state.step = "template" =>
                                         state.text \in Calendar /\ ~ProposalExists(state.text)
    <3>1. CASE ProposalExists(text)
      <4>1. PICK state : state = [ingest[i] EXCEPT !.texts = @ \ {text}]
        OBVIOUS
      <4>2. state \in IngestState /\ state.step = "calendar"
        BY <1>2, <2>2, <4>1 DEF IngestState
      <4>3. QED
        BY <2>1, <3>1, <4>1, <4>2
    <3>2. CASE ~ProposalExists(text)
      <4>1. PICK state : state = [[ingest[i] EXCEPT !.texts = @ \ {text}]
                                     EXCEPT !.step = "template", !.text = text]
        OBVIOUS
      <4>2. state \in IngestState /\ state.step = "template" /\ state.text = text
        BY <1>2, <2>2, <4>1 DEF IngestState
      <4>3. QED
        BY <2>1, <2>2, <3>2, <4>1, <4>2
    <3>3. QED
      BY <3>1, <3>2
  <2>4. UNCHANGED <<vars, item, origin>> /\ faults' = faults /\ ~At(i, "draft")
    BY <1>9 DEF CheckCalendar, At
  <2>5. PICK state \in IngestState : /\ Goes(i, state) /\ state.step \in {"calendar", "template"}
                                     /\ state.step = "template" =>
                                          state.text \in Calendar /\ ~ProposalExists(state.text)
    BY <2>3
  <2>6. state.step # "draft" /\ faults' \in {faults, faults + 1}
    BY <2>4, <2>5
  <2>7. QED
    BY <2>4, <2>5, <2>6, MoveKeeps
<1>10. CASE IngestDone(i)
  <2>1. UNCHANGED <<vars, item, origin>> /\ faults' = faults /\ ~At(i, "draft") /\ Goes(i, Resting)
    BY <1>10 DEF IngestDone, At
  <2>2. Resting.step = "idle"
    BY DEF Resting
  <2>3. QED
    BY <1>3, <2>1, <2>2, MoveKeeps
<1>11. QED
  BY <1>4, <1>5, <1>6, <1>7, <1>8, <1>9, <1>10

\* A new entry takes the next row, and its ingest is about to draft it.
LEMMA StoreItemKeeps ==
    ASSUME IngestInv, NEW i \in setting.ingests, StoreItem(i)
    PROVE  IngestInv'
<1>1. TypeInv /\ i \in Ingests /\ setting.feed \subseteq Feed
  BY SettingFacts DEF IngestInv
<1>2. ingest[i] \in IngestState /\ item \in Seq(Feed) /\ ingest[i].step = "items"
  BY <1>1 DEF TypeInv, StoreItem, At
<1>3. PICK e \in ingest[i].entries :
        /\ item' = UpsertSourceItem(e).items
        /\ IF UpsertSourceItem(e).row = 0 THEN Goes(i, [ingest[i] EXCEPT !.entries = @ \ {e}])
           ELSE Goes(i, [[ingest[i] EXCEPT !.entries = @ \ {e}]
                            EXCEPT !.step = "draft", !.row = UpsertSourceItem(e).row])
  BY DEF StoreItem
<1>4. /\ setting' = setting /\ proposal' = proposal /\ wager' = wager /\ request' = request
      /\ crashes' = crashes /\ origin' = origin /\ faults' = faults
  BY DEF StoreItem, vars
<1>5. CASE Seen(e)
  <2>1. PICK state : state = [ingest[i] EXCEPT !.entries = @ \ {e}]
    OBVIOUS
  <2>2. state \in IngestState /\ state.step = "items"
    BY <1>2, <2>1 DEF IngestState
  <2>3. item' = item /\ Goes(i, state) /\ ~At(i, "draft")
    BY <1>2, <1>3, <1>5, <2>1 DEF UpsertSourceItem, At
  <2>4. UNCHANGED <<vars, item, origin>>
    BY <1>4, <2>3 DEF vars
  <2>5. QED
    BY <1>4, <2>2, <2>3, <2>4, MoveKeeps
<1>6. CASE ~Seen(e)
  <2>1. PICK state : state = [[ingest[i] EXCEPT !.entries = @ \ {e}]
                                 EXCEPT !.step = "draft", !.row = Len(item) + 1]
    OBVIOUS
  <2>2. state \in IngestState /\ state.step = "draft" /\ state.row = Len(item) + 1
    <3>1. PICK row \in Nat : row = Len(item) + 1
      BY <1>2
    <3>2. QED
      BY <1>2, <2>1, <3>1 DEF IngestState
  <2>3. UpsertSourceItem(e).items = Append(item, e) /\ UpsertSourceItem(e).row = Len(item) + 1
    BY <1>6 DEF UpsertSourceItem
  <2>4. item' = Append(item, e) /\ Goes(i, state)
    BY <1>2, <1>3, <2>1, <2>3
  <2>5. /\ ingest' \in [Ingests -> IngestState] /\ ingest'[i] = state
        /\ \A j \in Ingests : j # i => ingest'[j] = ingest[j]
    BY <1>1, <2>2, <2>4 DEF TypeInv, Goes
  <2>6. /\ item' \in Seq(Feed) /\ Len(item') = Len(item) + 1 /\ item'[Len(item) + 1] = e
        /\ \A n \in DOMAIN item : item'[n] = item[n]
        /\ DOMAIN item = 1..Len(item) /\ DOMAIN item' = 1..(Len(item) + 1) /\ Len(item) \in Nat
    <3>1. e \in Feed
      BY <1>2 DEF IngestState
    <3>2. QED
      BY <1>2, <2>4, <3>1
  <2>7. TypeInv'
    BY <1>1, <1>4, <2>5, <2>6 DEF TypeInv
  <2>8. Started'
    BY <1>4, <2>5 DEF IngestInv, Started, At, Idle
  <2>9. ItemInv'
    <3>1. ItemInv /\ origin \in Seq(Nat)
      BY <1>1 DEF IngestInv, TypeInv
    <3>2. \A m, n \in DOMAIN item' : Key(item'[m]) = Key(item'[n]) => m = n
      <4>1. \A n \in DOMAIN item : Key(item[n]) # Key(e)
        BY <1>6 DEF Seen
      <4>2. \A m, n \in DOMAIN item : Key(item[m]) = Key(item[n]) => m = n
        BY <3>1 DEF ItemInv
      <4>3. \A n \in DOMAIN item' : n \in DOMAIN item \/ n = Len(item) + 1
        BY <2>6
      <4>4. QED
        BY <2>6, <4>1, <4>2, <4>3
    <3>3. \A j \in Ingests : ingest'[j].step = "draft" =>
              /\ ingest'[j].row \in DOMAIN item'
              /\ j # i => ingest'[j].row <= Len(item)
              /\ \A n \in DOMAIN origin : origin[n] # ingest'[j].row
      BY <2>2, <2>5, <2>6, <3>1 DEF ItemInv, At
    <3>4. \A j, k \in Ingests :
              (/\ ingest'[j].step = "draft" /\ ingest'[k].step = "draft"
               /\ ingest'[j].row = ingest'[k].row) => j = k
      BY <2>2, <2>5, <2>6, <3>1, <3>3 DEF ItemInv, At
    <3>5. \A n \in DOMAIN origin : origin[n] <= Len(item')
      BY <2>6, <3>1 DEF ItemInv
    <3>6. \A m, n \in DOMAIN origin : origin[m] = origin[n] /\ origin[m] # 0 => m = n
      BY <3>1 DEF ItemInv
    <3>7. QED
      BY <1>4, <3>2, <3>3, <3>4, <3>5, <3>6 DEF ItemInv, At
  <2>10. CalendarInv'
    <3>1. \A j \in Ingests : ingest'[j].step = "template" =>
              ingest[j].step = "template" /\ ingest'[j] = ingest[j]
      BY <2>2, <2>5
    <3>2. QED
      BY <1>4, <3>1 DEF IngestInv, CalendarInv, At
  <2>11. EveryItemIsDrafted'
    <3>1. ASSUME faults = 0, crashes = 0, NEW n \in DOMAIN item'
          PROVE  \/ \E m \in DOMAIN origin : origin[m] = n
                 \/ \E j \in Ingests : ingest'[j].step = "draft" /\ ingest'[j].row = n
      <4>1. CASE n \in DOMAIN item
        <5>1. \/ \E m \in DOMAIN origin : origin[m] = n
              \/ \E j \in Ingests : ingest[j].step = "draft" /\ ingest[j].row = n
          BY <3>1, <4>1 DEF IngestInv, EveryItemIsDrafted, At
        <5>2. QED
          BY <1>2, <2>5, <5>1
      <4>2. CASE n = Len(item) + 1
        BY <1>1, <2>2, <2>5, <4>2
      <4>3. QED
        BY <2>6, <4>1, <4>2
    <3>2. QED
      BY <1>4, <3>1 DEF EveryItemIsDrafted, At
  <2>12. QED
    BY <2>7, <2>8, <2>9, <2>10, <2>11 DEF IngestInv
<1>7. QED
  BY <1>5, <1>6

\* What both inserts of a draft do to the tables; `source' is the item or 0.
LEMMA InsertFacts ==
    ASSUME TypeInv, NEW text \in Texts, NEW source \in Nat,
           proposal' = InsertProposal(text), origin' = Append(origin, source)
    PROVE  /\ proposal' \in Seq(Proposal) /\ origin' \in Seq(Nat)
           /\ Len(proposal) \in Nat /\ Len(origin) = Len(proposal)
           /\ Len(proposal') = Len(proposal) + 1 /\ Len(origin') = Len(proposal')
           /\ DOMAIN origin = 1..Len(proposal) /\ DOMAIN proposal = 1..Len(proposal)
           /\ DOMAIN origin' = 1..(Len(proposal) + 1) /\ DOMAIN proposal' = 1..(Len(proposal) + 1)
           /\ \A n \in 1..Len(proposal) : origin'[n] = origin[n] /\ proposal'[n] = proposal[n]
           /\ origin'[Len(proposal) + 1] = source
           /\ proposal'[Len(proposal) + 1] = [status |-> "pending", content |-> text]
<1>1. PICK new : new = [status |-> "pending", content |-> text]
  OBVIOUS
<1>2. new \in Proposal
  BY <1>1 DEF Proposal, Statuses
<1>3. proposal \in Seq(Proposal) /\ origin \in Seq(Nat) /\ Len(origin) = Len(proposal)
  BY DEF TypeInv
<1>4. proposal' = Append(proposal, new)
  BY <1>1 DEF InsertProposal
<1>5. /\ proposal' \in Seq(Proposal) /\ Len(proposal) \in Nat
      /\ Len(proposal') = Len(proposal) + 1
      /\ DOMAIN proposal = 1..Len(proposal) /\ DOMAIN proposal' = 1..(Len(proposal) + 1)
      /\ \A n \in 1..Len(proposal) : proposal'[n] = proposal[n]
      /\ proposal'[Len(proposal) + 1] = new
  BY <1>2, <1>3, <1>4
<1>6. /\ origin' \in Seq(Nat) /\ Len(origin') = Len(proposal) + 1
      /\ DOMAIN origin = 1..Len(proposal) /\ DOMAIN origin' = 1..(Len(proposal) + 1)
      /\ \A n \in 1..Len(proposal) : origin'[n] = origin[n]
      /\ origin'[Len(proposal) + 1] = source
  BY <1>3, <1>5
<1>7. QED
  BY <1>1, <1>3, <1>5, <1>6

LEMMA StoreDraftKeeps ==
    ASSUME IngestInv, NEW i \in setting.ingests, StoreDraft(i)
    PROVE  IngestInv'
<1>1. TypeInv /\ i \in Ingests
  BY SettingFacts DEF IngestInv
<1>2. ItemInv /\ CalendarInv /\ EveryItemIsDrafted
  BY DEF IngestInv
<1>3. /\ setting' = setting /\ wager' = wager /\ request' = request
      /\ crashes' = crashes /\ item' = item /\ faults' = faults
  BY DEF StoreDraft, vars
<1>4. ingest[i] \in IngestState /\ ingest[i].step = "draft" /\ item \in Seq(Feed)
  BY <1>1 DEF TypeInv, StoreDraft, At
<1>5. PICK row : row = ingest[i].row
  OBVIOUS
<1>6. /\ row \in Nat \ {0} /\ row <= Len(item) /\ item[row].title \in Texts
      /\ \A n \in DOMAIN origin : origin[n] # row
  <2>1. row \in DOMAIN item /\ \A n \in DOMAIN origin : origin[n] # row
    BY <1>1, <1>2, <1>4, <1>5 DEF ItemInv, At
  <2>2. item[row] \in Feed
    BY <1>4, <2>1
  <2>3. QED
    BY <1>4, <2>1, <2>2 DEF Texts
<1>7. PICK text \in Texts : text = item[row].title
  BY <1>6
<1>8. proposal' = InsertProposal(text) /\ origin' = Append(origin, row)
  BY <1>5, <1>7 DEF StoreDraft, PropositionOf
<1>9. /\ proposal' \in Seq(Proposal) /\ origin' \in Seq(Nat)
      /\ Len(proposal) \in Nat
      /\ Len(origin') = Len(proposal')
      /\ DOMAIN origin = 1..Len(proposal) /\ DOMAIN proposal = 1..Len(proposal)
      /\ DOMAIN origin' = 1..(Len(proposal) + 1) /\ DOMAIN proposal' = 1..(Len(proposal) + 1)
      /\ \A n \in 1..Len(proposal) : origin'[n] = origin[n] /\ proposal'[n] = proposal[n]
      /\ origin'[Len(proposal) + 1] = row
  BY <1>1, <1>6, <1>8, InsertFacts
<1>10. PICK state : state = [ingest[i] EXCEPT !.step = "items", !.row = 0]
  OBVIOUS
<1>11. state \in IngestState /\ state.step = "items"
  BY <1>4, <1>10 DEF IngestState
<1>12. /\ ingest' \in [Ingests -> IngestState] /\ ingest'[i] = state
       /\ \A j \in Ingests : j # i => ingest'[j] = ingest[j]
  <2>1. Goes(i, state)
    BY <1>10 DEF StoreDraft
  <2>2. QED
    BY <1>1, <1>11, <2>1 DEF TypeInv, Goes
<1>13. \A j \in Ingests : ingest'[j].step \in {"draft", "template"} => j # i /\ ingest'[j] = ingest[j]
  BY <1>11, <1>12
<1>14. TypeInv'
  BY <1>1, <1>3, <1>9, <1>12 DEF TypeInv
<1>15. Started'
  <2>1. \A n \in DOMAIN proposal : n \in DOMAIN proposal'
    BY <1>9
  <2>2. \A j \in Ingests : j \notin setting.ingests => ingest'[j] = ingest[j]
    BY <1>12
  <2>3. QED
    BY <1>3, <2>1, <2>2 DEF IngestInv, Started, At, Idle
<1>16. ItemInv'
  <2>1. \A m, n \in DOMAIN item : Key(item[m]) = Key(item[n]) => m = n
    BY <1>2 DEF ItemInv
  <2>2. \A n \in DOMAIN origin' : origin'[n] <= Len(item)
    BY <1>2, <1>6, <1>9 DEF ItemInv
  <2>3. \A m, n \in DOMAIN origin' : origin'[m] = origin'[n] /\ origin'[m] # 0 => m = n
    <3>1. \A m, n \in DOMAIN origin : origin[m] = origin[n] /\ origin[m] # 0 => m = n
      BY <1>2 DEF ItemInv
    <3>2. \A n \in DOMAIN origin' : n \in DOMAIN origin \/ n = Len(proposal) + 1
      BY <1>9
    <3>3. QED
      BY <1>6, <1>9, <3>1, <3>2
  <2>4. \A j \in Ingests : ingest'[j].step = "draft" =>
            /\ ingest'[j].row \in DOMAIN item
            /\ \A n \in DOMAIN origin' : origin'[n] # ingest'[j].row
    <3>1. ASSUME NEW j \in Ingests, ingest'[j].step = "draft"
          PROVE  /\ ingest[j].row \in DOMAIN item /\ ingest[j].row # row
                 /\ \A n \in DOMAIN origin : origin[n] # ingest[j].row
      BY <1>1, <1>2, <1>4, <1>5, <1>13, <3>1 DEF ItemInv, At
    <3>2. QED
      BY <1>9, <1>13, <3>1
  <2>5. \A j, k \in Ingests :
            (/\ ingest'[j].step = "draft" /\ ingest'[k].step = "draft"
             /\ ingest'[j].row = ingest'[k].row) => j = k
    BY <1>2, <1>13 DEF ItemInv, At
  <2>6. QED
    BY <1>3, <2>1, <2>2, <2>3, <2>4, <2>5 DEF ItemInv, At
<1>17. CalendarInv'
  <2>1. \A r \in Requests : request[r].step = "edit" => request[r].row.content \in Contents
    BY <1>2 DEF CalendarInv
  <2>2. \A j \in Ingests : ingest'[j].step = "template" => ingest'[j].text \in Calendar
    BY <1>2, <1>13 DEF CalendarInv, At
  <2>3. ASSUME Cardinality(setting.ingests) = 1
        PROVE  \A m, n \in DOMAIN origin' :
                  (/\ origin'[m] = 0 /\ origin'[n] = 0 /\ proposal'[m].content \in Calendar
                   /\ proposal'[m].content = proposal'[n].content) => m = n
    <3>1. \A m, n \in DOMAIN origin :
              (/\ origin[m] = 0 /\ origin[n] = 0 /\ proposal[m].content \in Calendar
               /\ proposal[m].content = proposal[n].content) => m = n
      BY <1>2, <2>3 DEF CalendarInv
    <3>2. \A n \in DOMAIN origin' : origin'[n] = 0 => n \in DOMAIN origin
      BY <1>6, <1>9
    <3>3. QED
      BY <1>9, <3>1, <3>2
  <2>4. ASSUME Cardinality(setting.ingests) = 1, NEW j \in Ingests
        PROVE  ingest'[j].step # "template"
    <3>1. CASE j \in setting.ingests
      BY <1>1, <1>11, <1>12, <2>4, <3>1, OneIngest
    <3>2. CASE j \notin setting.ingests
      <4>1. ingest'[j] = ingest[j]
        BY <1>12, <2>4, <3>2
      <4>2. QED
        BY <2>4, <3>2, <4>1 DEF IngestInv, Started, At
    <3>3. QED
      BY <3>1, <3>2
  <2>5. QED
    BY <1>3, <2>1, <2>2, <2>3, <2>4 DEF CalendarInv, At
<1>18. EveryItemIsDrafted'
  <2>1. ASSUME faults = 0, crashes = 0, NEW n \in DOMAIN item
        PROVE  \/ \E m \in DOMAIN origin' : origin'[m] = n
               \/ \E j \in Ingests : ingest'[j].step = "draft" /\ ingest'[j].row = n
    <3>1. \/ \E m \in DOMAIN origin : origin[m] = n
          \/ \E j \in Ingests : ingest[j].step = "draft" /\ ingest[j].row = n
      BY <1>2, <2>1 DEF EveryItemIsDrafted, At
    <3>2. CASE \E m \in DOMAIN origin : origin[m] = n
      BY <1>9, <3>2
    <3>3. CASE \E j \in Ingests : ingest[j].step = "draft" /\ ingest[j].row = n
      <4>1. PICK j \in Ingests : ingest[j].step = "draft" /\ ingest[j].row = n
        BY <3>3
      <4>2. CASE j = i
        <5>1. Len(proposal) + 1 \in DOMAIN origin' /\ n = row
          BY <1>5, <1>9, <4>1, <4>2
        <5>2. QED
          BY <1>9, <5>1
      <4>3. CASE j # i
        BY <1>12, <4>1, <4>3
      <4>4. QED
        BY <4>2, <4>3
    <3>4. QED
      BY <3>1, <3>2, <3>3
  <2>2. QED
    BY <1>3, <2>1 DEF EveryItemIsDrafted, At
<1>19. QED
  BY <1>14, <1>15, <1>16, <1>17, <1>18 DEF IngestInv

LEMMA StoreCalendarDraftKeeps ==
    ASSUME IngestInv, NEW i \in setting.ingests, StoreCalendarDraft(i)
    PROVE  IngestInv'
<1>1. TypeInv /\ i \in Ingests /\ Calendar \cap Contents = {}
  BY SettingFacts DEF IngestInv
<1>2. ItemInv /\ CalendarInv /\ EveryItemIsDrafted
  BY DEF IngestInv
<1>3. /\ setting' = setting /\ wager' = wager /\ request' = request
      /\ crashes' = crashes /\ item' = item /\ faults' = faults
  BY DEF StoreCalendarDraft, vars
<1>4. ingest[i] \in IngestState /\ ingest[i].step = "template"
  BY <1>1 DEF TypeInv, StoreCalendarDraft, At
<1>5. PICK text : text = ingest[i].text
  OBVIOUS
<1>6. text \in Calendar /\ text \in Texts
  BY <1>1, <1>2, <1>4, <1>5 DEF CalendarInv, At, Texts
<1>7. proposal' = InsertProposal(text) /\ origin' = Append(origin, 0)
  BY <1>5 DEF StoreCalendarDraft
<1>8. /\ proposal' \in Seq(Proposal) /\ origin' \in Seq(Nat)
      /\ Len(proposal) \in Nat /\ Len(origin') = Len(proposal')
      /\ DOMAIN origin = 1..Len(proposal) /\ DOMAIN proposal = 1..Len(proposal)
      /\ DOMAIN origin' = 1..(Len(proposal) + 1) /\ DOMAIN proposal' = 1..(Len(proposal) + 1)
      /\ \A n \in 1..Len(proposal) : origin'[n] = origin[n] /\ proposal'[n] = proposal[n]
      /\ origin'[Len(proposal) + 1] = 0
      /\ proposal'[Len(proposal) + 1] = [status |-> "pending", content |-> text]
  <2>1. 0 \in Nat
    OBVIOUS
  <2>2. QED
    BY <1>1, <1>6, <1>7, <2>1, InsertFacts
<1>9. proposal'[Len(proposal) + 1].content = text
  BY <1>8
<1>10. PICK state : state = [ingest[i] EXCEPT !.step = "calendar", !.text = NoEntry]
  OBVIOUS
<1>11. state \in IngestState /\ state.step = "calendar"
  BY <1>4, <1>10 DEF IngestState
<1>12. /\ ingest' \in [Ingests -> IngestState] /\ ingest'[i] = state
       /\ \A j \in Ingests : j # i => ingest'[j] = ingest[j]
  <2>1. Goes(i, state)
    BY <1>10 DEF StoreCalendarDraft
  <2>2. QED
    BY <1>1, <1>11, <2>1 DEF TypeInv, Goes
<1>13. \A j \in Ingests : ingest'[j].step \in {"draft", "template"} => j # i /\ ingest'[j] = ingest[j]
  BY <1>11, <1>12
<1>14. TypeInv'
  BY <1>1, <1>3, <1>8, <1>12 DEF TypeInv
<1>15. Started'
  <2>1. \A n \in DOMAIN proposal : n \in DOMAIN proposal'
    BY <1>8
  <2>2. \A j \in Ingests : j \notin setting.ingests => ingest'[j] = ingest[j]
    BY <1>12
  <2>3. QED
    BY <1>3, <2>1, <2>2 DEF IngestInv, Started, At, Idle
<1>16. ItemInv'
  <2>1. \A m, n \in DOMAIN item : Key(item[m]) = Key(item[n]) => m = n
    BY <1>2 DEF ItemInv
  <2>2. \A n \in DOMAIN origin' : n \in DOMAIN origin \/ n = Len(proposal) + 1
    BY <1>8
  <2>3. \A n \in DOMAIN origin' : origin'[n] <= Len(item)
    <3>1. Len(item) \in Nat
      BY <1>1 DEF TypeInv
    <3>2. QED
      BY <1>2, <1>8, <2>2, <3>1 DEF ItemInv
  <2>4. \A m, n \in DOMAIN origin' : origin'[m] = origin'[n] /\ origin'[m] # 0 => m = n
    BY <1>2, <1>8, <2>2 DEF ItemInv
  <2>5. \A j \in Ingests : ingest'[j].step = "draft" =>
            /\ ingest'[j].row \in DOMAIN item
            /\ \A n \in DOMAIN origin' : origin'[n] # ingest'[j].row
    <3>1. ASSUME NEW j \in Ingests, ingest'[j].step = "draft"
          PROVE  /\ ingest[j].row \in DOMAIN item /\ ingest[j].row # 0
                 /\ \A n \in DOMAIN origin : origin[n] # ingest[j].row
      <4>1. ingest[j].row \in DOMAIN item /\ \A n \in DOMAIN origin : origin[n] # ingest[j].row
        BY <1>2, <1>13, <3>1 DEF ItemInv, At
      <4>2. item \in Seq(Feed)
        BY <1>1 DEF TypeInv
      <4>3. QED
        BY <4>1, <4>2
    <3>2. QED
      BY <1>8, <1>13, <2>2, <3>1
  <2>6. \A j, k \in Ingests :
            (/\ ingest'[j].step = "draft" /\ ingest'[k].step = "draft"
             /\ ingest'[j].row = ingest'[k].row) => j = k
    BY <1>2, <1>13 DEF ItemInv, At
  <2>7. QED
    BY <1>3, <2>1, <2>3, <2>4, <2>5, <2>6 DEF ItemInv, At
<1>17. CalendarInv'
  <2>1. \A r \in Requests : request[r].step = "edit" => request[r].row.content \in Contents
    BY <1>2 DEF CalendarInv
  <2>2. \A j \in Ingests : ingest'[j].step = "template" => ingest'[j].text \in Calendar
    BY <1>2, <1>13 DEF CalendarInv, At
  <2>3. ASSUME Cardinality(setting.ingests) = 1
        PROVE  \A m, n \in DOMAIN origin' :
                  (/\ origin'[m] = 0 /\ origin'[n] = 0 /\ proposal'[m].content \in Calendar
                   /\ proposal'[m].content = proposal'[n].content) => m = n
    <3>1. \A m, n \in DOMAIN origin :
              (/\ origin[m] = 0 /\ origin[n] = 0 /\ proposal[m].content \in Calendar
               /\ proposal[m].content = proposal[n].content) => m = n
      BY <1>2, <2>3 DEF CalendarInv
    <3>2. \A n \in DOMAIN proposal : proposal[n].content # text
      BY <1>1, <1>2, <1>4, <1>5, <2>3 DEF CalendarInv, At
    <3>3. \A n \in DOMAIN origin' : n \in DOMAIN origin \/ n = Len(proposal) + 1
      BY <1>8
    <3>4. QED
      BY <1>8, <1>9, <3>1, <3>2, <3>3
  <2>4. ASSUME Cardinality(setting.ingests) = 1, NEW j \in Ingests
        PROVE  ingest'[j].step # "template"
    <3>1. CASE j \in setting.ingests
      BY <1>1, <1>11, <1>12, <2>4, <3>1, OneIngest
    <3>2. CASE j \notin setting.ingests
      <4>1. ingest'[j] = ingest[j]
        BY <1>12, <2>4, <3>2
      <4>2. QED
        BY <2>4, <3>2, <4>1 DEF IngestInv, Started, At
    <3>3. QED
      BY <3>1, <3>2
  <2>5. QED
    BY <1>3, <2>1, <2>2, <2>3, <2>4 DEF CalendarInv, At
<1>18. EveryItemIsDrafted'
  <2>1. ASSUME faults = 0, crashes = 0, NEW n \in DOMAIN item
        PROVE  \/ \E m \in DOMAIN origin' : origin'[m] = n
               \/ \E j \in Ingests : ingest'[j].step = "draft" /\ ingest'[j].row = n
    <3>1. \/ \E m \in DOMAIN origin : origin[m] = n
          \/ \E j \in Ingests : ingest[j].step = "draft" /\ ingest[j].row = n
      BY <1>2, <2>1 DEF EveryItemIsDrafted, At
    <3>2. QED
      BY <1>4, <1>8, <1>12, <3>1
  <2>2. QED
    BY <1>3, <2>1 DEF EveryItemIsDrafted, At
<1>19. QED
  BY <1>14, <1>15, <1>16, <1>17, <1>18 DEF IngestInv

-------------------------------------------------------------------------------
(* The steps of a request *)

LEMMA UpdateFacts ==
    ASSUME TypeInv, NEW id \in DOMAIN proposal, NEW new \in Proposal,
           proposal' = [proposal EXCEPT ![id] = new]
    PROVE  /\ proposal' \in Seq(Proposal) /\ Len(proposal') = Len(proposal)
           /\ DOMAIN proposal' = DOMAIN proposal /\ proposal'[id] = new
           /\ \A n \in DOMAIN proposal : n # id => proposal'[n] = proposal[n]
BY DEF TypeInv

LEMMA StatusUpdated ==
    ASSUME TypeInv, NEW id \in DOMAIN proposal, NEW status \in Statuses,
           proposal' = UpdateStatus(id, status)
    PROVE  /\ proposal' \in Seq(Proposal) /\ Len(proposal') = Len(proposal)
           /\ DOMAIN proposal' = DOMAIN proposal
           /\ \A n \in DOMAIN proposal : n # id => proposal'[n] = proposal[n]
           /\ proposal'[id].status = status /\ proposal'[id].content = proposal[id].content
<1>1. PICK new : new = [proposal[id] EXCEPT !.status = status]
  OBVIOUS
<1>2. proposal[id] \in Proposal
  BY DEF TypeInv
<1>3. new \in Proposal /\ new.status = status /\ new.content = proposal[id].content
  BY <1>1, <1>2 DEF Proposal
<1>4. proposal' = [proposal EXCEPT ![id] = new]
  BY <1>1 DEF UpdateStatus
<1>5. QED
  BY <1>3, <1>4, UpdateFacts

LEMMA ContentUpdated ==
    ASSUME TypeInv, NEW id \in DOMAIN proposal, NEW c \in Texts,
           proposal' = UpdateContent(id, c)
    PROVE  /\ proposal' \in Seq(Proposal) /\ Len(proposal') = Len(proposal)
           /\ DOMAIN proposal' = DOMAIN proposal
           /\ \A n \in DOMAIN proposal : n # id => proposal'[n] = proposal[n]
           /\ proposal'[id].content = c /\ proposal'[id].status = proposal[id].status
<1>1. PICK new : new = [proposal[id] EXCEPT !.content = c]
  OBVIOUS
<1>2. proposal[id] \in Proposal
  BY DEF TypeInv
<1>3. new \in Proposal /\ new.content = c /\ new.status = proposal[id].status
  BY <1>1, <1>2 DEF Proposal
<1>4. proposal' = [proposal EXCEPT ![id] = new]
  BY <1>1 DEF UpdateContent
<1>5. QED
  BY <1>3, <1>4, UpdateFacts

\* A request that leaves the contents of the drafts alone, or makes one what an operator
\* says, breaks nothing an ingest relies on.
LEMMA RequestKeeps ==
    ASSUME IngestInv, NEW r \in setting.requests, UNCHANGED <<setting, crashes, ingestVars>>,
           NEW state \in RequestState, request' = [request EXCEPT ![r] = state],
           state.step # "idle" => state.id \in DOMAIN proposal,
           state.step = "edit" => state.row.content \in Contents,
           wager' \in Seq(Wager), proposal' \in Seq(Proposal),
           Len(proposal') = Len(proposal),
           \A n \in DOMAIN proposal :
               proposal'[n].content \in {proposal[n].content} \cup Contents
    PROVE  IngestInv'
<1>1. TypeInv /\ r \in Requests /\ Calendar \cap Contents = {}
  BY SettingFacts DEF IngestInv
<1>2. /\ setting' = setting /\ crashes' = crashes /\ item' = item /\ origin' = origin
      /\ ingest' = ingest /\ faults' = faults
  BY DEF ingestVars
<1>3. /\ request' \in [Requests -> RequestState] /\ request'[r] = state
      /\ \A q \in Requests : q # r => request'[q] = request[q]
  BY <1>1 DEF TypeInv
<1>4. DOMAIN proposal' = DOMAIN proposal /\ DOMAIN origin = DOMAIN proposal
  BY <1>1 DEF TypeInv
<1>5. TypeInv'
  BY <1>1, <1>2, <1>3 DEF TypeInv
<1>6. Started'
  BY <1>2, <1>3, <1>4 DEF IngestInv, Started, At, Idle
<1>7. ItemInv'
  BY <1>2 DEF IngestInv, ItemInv, At
<1>8. CalendarInv'
  <2>1. CalendarInv
    BY DEF IngestInv
  <2>2. \A q \in Requests : request'[q].step = "edit" => request'[q].row.content \in Contents
    BY <1>3, <2>1 DEF CalendarInv
  <2>3. \A n \in DOMAIN proposal : \A text \in Calendar :
            proposal'[n].content = text => proposal[n].content = text
    BY <1>1
  <2>4. \A i \in Ingests : At(i, "template") => ingest[i].text \in Calendar
    BY <2>1 DEF CalendarInv
  <2>5. ASSUME Cardinality(setting.ingests) = 1
        PROVE  \A m, n \in DOMAIN origin :
                  (/\ origin[m] = 0 /\ origin[n] = 0 /\ proposal'[m].content \in Calendar
                   /\ proposal'[m].content = proposal'[n].content) => m = n
    <3>1. \A m, n \in DOMAIN origin :
              (/\ origin[m] = 0 /\ origin[n] = 0 /\ proposal[m].content \in Calendar
               /\ proposal[m].content = proposal[n].content) => m = n
      BY <2>1, <2>5 DEF CalendarInv
    <3>2. QED
      BY <1>4, <2>3, <3>1
  <2>6. ASSUME Cardinality(setting.ingests) = 1, NEW i \in Ingests, At(i, "template")
        PROVE  \A n \in DOMAIN proposal : proposal'[n].content # ingest[i].text
    <3>1. \A n \in DOMAIN proposal : proposal[n].content # ingest[i].text
      BY <2>1, <2>6 DEF CalendarInv
    <3>2. QED
      BY <2>3, <2>4, <2>6, <3>1
  <2>7. QED
    BY <1>2, <1>4, <2>2, <2>4, <2>5, <2>6 DEF CalendarInv, At
<1>9. EveryItemIsDrafted'
  BY <1>2 DEF IngestInv, EveryItemIsDrafted, At
<1>10. QED
  BY <1>5, <1>6, <1>7, <1>8, <1>9 DEF IngestInv

\* What each statement of a request does to the tables, and what it leaves its thread
\* with (the fields the proofs need).
Reads(r, state) ==
    /\ proposal' = proposal /\ wager' = wager
    /\ \/ request[r].step \in {"idle", "send"} /\ state.step = "idle"
       \/ /\ Idle(r)
          /\ state.step \in {"edit", "decide", "send"} /\ state.id \in DOMAIN proposal
          /\ state.step = "edit" =>
                proposal[state.id].status = "pending" /\ state.row.content \in Contents
          /\ state.step = "decide" =>
                proposal[state.id].status = "pending" /\ state.row.status \in {"approved", "rejected"}
          /\ state.step = "send" =>
                proposal[state.id].status = "approved" /\ state.row = proposal[state.id]

Rewords(r, state) ==
    /\ request[r].step = "edit" /\ state.step = "idle" /\ wager' = wager
    /\ proposal' = UpdateContent(request[r].id, request[r].row.content)

SetsStatus(r, state) ==
    /\ request[r].step \in {"decide", "record"} /\ state.step = "idle" /\ wager' = wager
    /\ proposal' = UpdateStatus(request[r].id, request[r].row.status)

Sends(r, state) ==
    /\ request[r].step = "send" /\ proposal' = proposal
    /\ state.step = "record" /\ state.id = request[r].id
    /\ state.row.status \in {"dispatched", "dispatch_failed"}
    /\ \/ wager' = wager /\ state.row.status = "dispatch_failed"
       \/ wager' = Append(wager, [proposal |-> request[r].id, content |-> request[r].row.content])

Effect(r, state) ==
    Reads(r, state) \/ Rewords(r, state) \/ SetsStatus(r, state) \/ Sends(r, state)

LEMMA RequestStates ==
    ASSUME NEW step \in {"edit", "decide", "send", "record"}, NEW id \in Nat \ {0},
           NEW row \in Proposal, NEW state, state = [step |-> step, id |-> id, row |-> row]
    PROVE  state \in RequestState /\ state.step = step /\ state.id = id /\ state.row = row
BY DEF RequestState

LEMMA AnswerStates ==
    ASSUME NEW answer \in Replies
    PROVE  Answered(answer) \in RequestState /\ Answered(answer).step = "idle"
BY DEF RequestState, Answered

\* A thread that is not idle has read a row that is there.
LEMMA RequestRow ==
    ASSUME IngestInv, NEW r \in Requests, ~Idle(r)
    PROVE  /\ request[r].id \in DOMAIN proposal /\ request[r].row \in Proposal
           /\ request[r].step \in {"edit", "decide", "send", "record"}
<1>1. request[r] \in RequestState
  BY DEF IngestInv, TypeInv
<1>2. request[r] \in [step : {"edit", "decide", "send", "record"}, id : Nat \ {0}, row : Proposal]
  BY <1>1 DEF RequestState, Idle
<1>3. QED
  BY <1>2 DEF IngestInv, Started

LEMMA ServeEffects ==
    ASSUME IngestInv, NEW r \in setting.requests, Serve(r)
    PROVE  \E state \in RequestState :
              request' = [request EXCEPT ![r] = state] /\ Effect(r, state)
<1>1. TypeInv /\ r \in Requests
  BY SettingFacts DEF IngestInv
<1>2. \A id \in DOMAIN proposal : id \in Nat \ {0} /\ proposal[id] \in Proposal
  BY <1>1 DEF TypeInv
<1>3. ASSUME NEW answer \in Replies, Answers(r, answer),
             \/ /\ request[r].step \in {"idle", "send"}
                /\ proposal' = proposal /\ wager' = wager
             \/ Rewords(r, Answered(answer)) \/ SetsStatus(r, Answered(answer))
      PROVE  \E state \in RequestState :
                request' = [request EXCEPT ![r] = state] /\ Effect(r, state)
  <2>1. request' = [request EXCEPT ![r] = Answered(answer)]
    BY <1>3 DEF Answers
  <2>2. Answered(answer) \in RequestState /\ Answered(answer).step = "idle"
    BY AnswerStates
  <2>3. Effect(r, Answered(answer))
    BY <1>3, <2>2 DEF Effect, Reads
  <2>4. QED
    BY <2>1, <2>2, <2>3
<1>4. ASSUME NEW step \in {"edit", "decide", "send"}, NEW id \in DOMAIN proposal,
             NEW row \in Proposal, Begins(r, step, id, row),
             Idle(r), proposal' = proposal, wager' = wager,
             step = "edit" => proposal[id].status = "pending" /\ row.content \in Contents,
             step = "decide" =>
                proposal[id].status = "pending" /\ row.status \in {"approved", "rejected"},
             step = "send" => proposal[id].status = "approved" /\ row = proposal[id]
      PROVE  \E state \in RequestState :
                request' = [request EXCEPT ![r] = state] /\ Effect(r, state)
  <2>1. PICK state : state = [step |-> step, id |-> id, row |-> row]
    OBVIOUS
  <2>2. state \in RequestState /\ state.step = step /\ state.id = id /\ state.row = row
    BY <1>2, <1>4, <2>1, RequestStates
  <2>3. request' = [request EXCEPT ![r] = state]
    BY <1>4, <2>1 DEF Begins
  <2>4. Effect(r, state)
    BY <1>4, <2>2 DEF Effect, Reads
  <2>5. QED
    BY <2>2, <2>3, <2>4
<1>5. CASE BeginEdit(r)
  <2>1. PICK id \in DOMAIN proposal, c \in Contents :
            IF Editable(proposal[id])
            THEN Begins(r, "edit", id, [proposal[id] EXCEPT !.content = c])
            ELSE Answers(r, "only pending proposals are editable")
    BY <1>5 DEF BeginEdit
  <2>2. Idle(r) /\ request[r].step = "idle" /\ proposal' = proposal /\ wager' = wager
    BY <1>5 DEF BeginEdit, Idle
  <2>3. PICK row : row = [proposal[id] EXCEPT !.content = c]
    OBVIOUS
  <2>4. row \in Proposal /\ row.content \in Contents
    BY <1>2, <2>3 DEF Proposal, Texts
  <2>5. CASE Editable(proposal[id])
    BY <1>4, <2>1, <2>2, <2>3, <2>4, <2>5 DEF Editable
  <2>6. CASE ~Editable(proposal[id])
    BY <1>3, <2>1, <2>2, <2>6 DEF Replies
  <2>7. QED
    BY <2>5, <2>6
<1>6. CASE BeginDecision(r)
  <2>1. PICK id \in DOMAIN proposal, verdict \in {"approved", "rejected"} :
            IF Decidable(proposal[id])
            THEN Begins(r, "decide", id, [proposal[id] EXCEPT !.status = verdict])
            ELSE Answers(r, "not pending")
    BY <1>6 DEF BeginDecision
  <2>2. Idle(r) /\ request[r].step = "idle" /\ proposal' = proposal /\ wager' = wager
    BY <1>6 DEF BeginDecision, Idle
  <2>3. PICK row : row = [proposal[id] EXCEPT !.status = verdict]
    OBVIOUS
  <2>4. row \in Proposal /\ row.status \in {"approved", "rejected"}
    BY <1>2, <2>3 DEF Proposal, Statuses
  <2>5. CASE Decidable(proposal[id])
    BY <1>4, <2>1, <2>2, <2>3, <2>4, <2>5 DEF Decidable
  <2>6. CASE ~Decidable(proposal[id])
    BY <1>3, <2>1, <2>2, <2>6 DEF Replies
  <2>7. QED
    BY <2>5, <2>6
<1>7. CASE BeginDispatch(r)
  <2>1. PICK id \in DOMAIN proposal :
            IF ~Dispatchable(proposal[id]) THEN Answers(r, "must approve before dispatch")
            ELSE IF ~setting.allowExecute THEN Answers(r, "execute disabled on server")
            ELSE IF ~setting.configured THEN Answers(r, "missing env")
            ELSE Begins(r, "send", id, proposal[id])
    BY <1>7 DEF BeginDispatch
  <2>2. Idle(r) /\ request[r].step = "idle" /\ proposal' = proposal /\ wager' = wager
    BY <1>7 DEF BeginDispatch, Idle
  <2>3. CASE Dispatchable(proposal[id]) /\ Begins(r, "send", id, proposal[id])
    BY <1>2, <1>4, <2>2, <2>3 DEF Dispatchable
  <2>4. CASE \E answer \in Replies : Answers(r, answer)
    BY <1>3, <2>2, <2>4
  <2>5. QED
    BY <2>1, <2>3, <2>4 DEF Replies
<1>8. CASE WriteContent(r)
  <2>1. Answers(r, "ok") /\ Rewords(r, Answered("ok"))
    BY <1>8, AnswerStates DEF WriteContent, Rewords, Replies
  <2>2. QED
    BY <1>3, <2>1 DEF Replies
<1>9. CASE WriteStatus(r) \/ RecordDispatch(r)
  <2>1. Answers(r, "ok") /\ SetsStatus(r, Answered("ok"))
    BY <1>9, AnswerStates DEF WriteStatus, RecordDispatch, SetsStatus, Replies
  <2>2. QED
    BY <1>3, <2>1 DEF Replies
<1>10. CASE Send(r)
  <2>1. ~Idle(r) /\ request[r].step = "send" /\ proposal' = proposal
    BY <1>10 DEF Send, Idle
  <2>2. request[r].id \in Nat \ {0} /\ request[r].row \in Proposal
    BY <1>1, <1>2, <2>1, RequestRow
  <2>3. PICK landed, ok \in BOOLEAN :
            /\ ok => landed
            /\ wager' = IF landed
                        THEN Append(wager, [proposal |-> request[r].id,
                                            content |-> request[r].row.content])
                        ELSE wager
            /\ Begins(r, "record", request[r].id,
                      [request[r].row EXCEPT !.status = Outcome(ok)])
    BY <1>10 DEF Send
  <2>4. PICK row : row = [request[r].row EXCEPT !.status = Outcome(ok)]
    OBVIOUS
  <2>5. /\ row \in Proposal /\ row.status \in {"dispatched", "dispatch_failed"}
        /\ ~ok => row.status = "dispatch_failed"
    BY <2>2, <2>4 DEF Proposal, Statuses, Outcome
  <2>6. PICK state : state = [step |-> "record", id |-> request[r].id, row |-> row]
    OBVIOUS
  <2>7. state \in RequestState /\ state.step = "record" /\ state.id = request[r].id /\ state.row = row
    BY <2>2, <2>5, <2>6, RequestStates
  <2>8. request' = [request EXCEPT ![r] = state]
    BY <2>3, <2>4, <2>6 DEF Begins
  <2>9. Effect(r, state)
    <3>1. Sends(r, state)
      BY <2>1, <2>3, <2>5, <2>7 DEF Sends
    <3>2. QED
      BY <3>1 DEF Effect
  <2>10. QED
    BY <2>7, <2>8, <2>9
<1>11. CASE SendRaises(r)
  BY <1>3, <1>11 DEF SendRaises, Replies
<1>12. QED
  BY <1>5, <1>6, <1>7, <1>8, <1>9, <1>10, <1>11 DEF Serve

LEMMA ServeKeeps ==
    ASSUME IngestInv, NEW r \in setting.requests, Serve(r), UNCHANGED ingestVars
    PROVE  IngestInv'
<1>1. TypeInv /\ r \in Requests
  BY SettingFacts DEF IngestInv
<1>2. setting' = setting /\ crashes' = crashes
  BY DEF Serve, BeginEdit, WriteContent, BeginDecision, WriteStatus, BeginDispatch, Send,
         SendRaises, RecordDispatch
<1>3. PICK state \in RequestState :
          request' = [request EXCEPT ![r] = state] /\ Effect(r, state)
  BY ServeEffects
<1>4. proposal \in Seq(Proposal) /\ wager \in Seq(Wager)
  BY <1>1 DEF TypeInv
<1>5. \A id \in DOMAIN proposal : id \in Nat \ {0}
  BY <1>4
<1>6. CASE Reads(r, state)
  <2>1. /\ state.step # "idle" => state.id \in DOMAIN proposal
        /\ state.step = "edit" => state.row.content \in Contents
        /\ proposal' = proposal /\ wager' = wager
    BY <1>6 DEF Reads
  <2>2. QED
    BY <1>2, <1>3, <1>4, <2>1, RequestKeeps
<1>7. CASE Rewords(r, state)
  <2>1. ~Idle(r) /\ state.step = "idle" /\ wager' = wager
    BY <1>7 DEF Rewords, Idle
  <2>2. request[r].id \in DOMAIN proposal /\ request[r].row.content \in Contents
    BY <1>1, <1>7, <2>1, RequestRow DEF Rewords, IngestInv, CalendarInv
  <2>3. request[r].row.content \in Texts
    BY <2>2 DEF Texts
  <2>4. /\ proposal' \in Seq(Proposal) /\ Len(proposal') = Len(proposal)
        /\ \A n \in DOMAIN proposal :
              proposal'[n].content \in {proposal[n].content} \cup Contents
    BY <1>1, <1>7, <2>2, <2>3, ContentUpdated DEF Rewords
  <2>5. QED
    BY <1>2, <1>3, <1>4, <2>1, <2>4, RequestKeeps
<1>8. CASE SetsStatus(r, state)
  <2>1. ~Idle(r) /\ state.step = "idle" /\ wager' = wager
    BY <1>8 DEF SetsStatus, Idle
  <2>2. request[r].id \in DOMAIN proposal /\ request[r].row.status \in Statuses
    BY <1>1, <2>1, RequestRow DEF Proposal
  <2>3. /\ proposal' \in Seq(Proposal) /\ Len(proposal') = Len(proposal)
        /\ \A n \in DOMAIN proposal :
              proposal'[n].content \in {proposal[n].content} \cup Contents
    BY <1>1, <1>8, <2>2, StatusUpdated DEF SetsStatus
  <2>4. QED
    BY <1>2, <1>3, <1>4, <2>1, <2>3, RequestKeeps
<1>9. CASE Sends(r, state)
  <2>1. ~Idle(r) /\ state.step = "record" /\ state.id = request[r].id /\ proposal' = proposal
    BY <1>9 DEF Sends, Idle
  <2>2. request[r].id \in DOMAIN proposal /\ request[r].row.content \in Texts
    BY <1>1, <2>1, RequestRow DEF Proposal
  <2>3. PICK new : new = [proposal |-> request[r].id, content |-> request[r].row.content]
    OBVIOUS
  <2>4. new \in Wager
    BY <1>5, <2>2, <2>3 DEF Wager
  <2>5. wager' \in Seq(Wager)
    BY <1>4, <1>9, <2>3, <2>4 DEF Sends
  <2>6. QED
    BY <1>2, <1>3, <1>4, <2>1, <2>2, <2>5, RequestKeeps
<1>10. QED
  BY <1>3, <1>6, <1>7, <1>8, <1>9 DEF Effect

-------------------------------------------------------------------------------
(* The other steps, and the theorems about ingests *)

LEMMA IngestStepKeeps ==
    ASSUME IngestInv, NEW i \in setting.ingests, IngestStep(i)
    PROVE  IngestInv'
BY MovesKeep, StoreItemKeeps, StoreDraftKeeps, StoreCalendarDraftKeeps DEF IngestStep

\* A restart leaves committed rows, and nobody at work.
LEMMA StopKeeps ==
    ASSUME IngestInv, ServerStops
    PROVE  IngestInv'
<1>1. TypeInv /\ ItemInv /\ CalendarInv
  BY DEF IngestInv
<1>2. /\ setting' = setting /\ proposal' = proposal /\ wager' = wager /\ item' = item
      /\ origin' = origin /\ faults' = faults /\ crashes' = crashes + 1 /\ crashes \in Nat
      /\ request' = [r \in Requests |-> Answered("none")]
      /\ ingest' = [i \in Ingests |-> Resting]
  BY <1>1 DEF ServerStops, TypeInv
<1>3. Resting \in IngestState /\ Resting.step = "idle"
  BY DEF Resting, IngestState, NoEntry
<1>4. Answered("none") \in RequestState /\ Answered("none").step = "idle"
  BY AnswerStates DEF Replies
<1>5. /\ ingest' \in [Ingests -> IngestState] /\ request' \in [Requests -> RequestState]
      /\ \A i \in Ingests : ingest'[i].step = "idle"
      /\ \A r \in Requests : request'[r].step = "idle"
  BY <1>2, <1>3, <1>4
<1>6. crashes' \in Nat /\ crashes' # 0
  BY <1>2
<1>7. TypeInv'
  BY <1>1, <1>2, <1>5, <1>6 DEF TypeInv
<1>8. Started'
  BY <1>5 DEF Started, At, Idle
<1>9. ItemInv'
  BY <1>1, <1>2, <1>5 DEF ItemInv, At
<1>10. CalendarInv'
  BY <1>1, <1>2, <1>5 DEF CalendarInv, At
<1>11. EveryItemIsDrafted'
  BY <1>6 DEF EveryItemIsDrafted
<1>12. QED
  BY <1>7, <1>8, <1>9, <1>10, <1>11 DEF IngestInv

LEMMA IngestInitHolds ==
    ASSUME IngestInit
    PROVE  IngestInv
<1>1. /\ setting \in Settings /\ proposal = <<>> /\ wager = <<>> /\ item = <<>> /\ origin = <<>>
      /\ faults = 0 /\ crashes = 0
      /\ request = [r \in Requests |-> Answered("none")]
      /\ ingest = [i \in Ingests |-> Resting]
  BY DEF IngestInit, Init
<1>2. Resting \in IngestState /\ Resting.step = "idle"
  BY DEF Resting, IngestState, NoEntry
<1>3. Answered("none") \in RequestState /\ Answered("none").step = "idle"
  BY AnswerStates DEF Replies
<1>4. /\ ingest \in [Ingests -> IngestState] /\ request \in [Requests -> RequestState]
      /\ \A i \in Ingests : ingest[i].step = "idle"
      /\ \A r \in Requests : request[r].step = "idle"
  BY <1>1, <1>2, <1>3
<1>5. DOMAIN item = {} /\ DOMAIN origin = {} /\ DOMAIN proposal = {}
  BY <1>1
<1>6. TypeInv
  BY <1>1, <1>4 DEF TypeInv
<1>7. Started
  BY <1>4 DEF Started, At, Idle
<1>8. ItemInv
  BY <1>4, <1>5 DEF ItemInv, At
<1>9. CalendarInv
  BY <1>4, <1>5 DEF CalendarInv, At
<1>10. EveryItemIsDrafted
  BY <1>5 DEF EveryItemIsDrafted
<1>11. QED
  BY <1>6, <1>7, <1>8, <1>9, <1>10 DEF IngestInv

LEMMA IngestNextKeeps ==
    ASSUME IngestInv, [IngestNext]_allVars
    PROVE  IngestInv'
<1>1. CASE UNCHANGED allVars
  BY <1>1 DEF allVars, vars, ingestVars, IngestInv, TypeInv, Started, ItemInv, CalendarInv,
              EveryItemIsDrafted, At, Idle
<1>2. CASE IngestNext
  BY <1>2, IngestStepKeeps, StopKeeps, ServeKeeps DEF IngestNext
<1>3. QED
  BY <1>1, <1>2

\* For any requests, ingests, sources and feeds: every row and thread has its type, an
\* item between its two commits is one ingest's alone and has no draft, no edit writes
\* what the calendar says, and a lone ingest stores a calendar text no draft has. Every
\* commit of an ingest and of a request keeps this, and so does a restart between two.
THEOREM IngestInductiveInvariant == IngestSpec => []IngestInv
<1>1. IngestInit => IngestInv
  BY IngestInitHolds
<1>2. IngestInv /\ [IngestNext]_allVars => IngestInv'
  BY IngestNextKeeps
<1>3. QED
  BY <1>1, <1>2, PTL DEF IngestSpec

\* However many ingests overlap, statements fail and restarts happen: an entry is stored
\* once and drafted at most once, and ingests that do not overlap draft a calendar text
\* once as long as the draft says it.
THEOREM IngestNoDraftTwice == IngestSpec => []NoDraftTwice
<1>1. IngestInv => NoDraftTwice
  <2>1. SUFFICES ASSUME IngestInv PROVE NoDraftTwice
    OBVIOUS
  <2>2. TypeInv /\ ItemInv /\ CalendarInv
    BY <2>1 DEF IngestInv
  <2>. setting.calendar \subseteq Calendar
    BY <2>2, SettingFacts
  <2>3. /\ \A m, n \in DOMAIN item : Key(item[m]) = Key(item[n]) => m = n
        /\ \A m, n \in DOMAIN origin : origin[m] = origin[n] /\ origin[m] # 0 => m = n
    BY <2>2 DEF ItemInv
  <2>4. ASSUME Cardinality(setting.ingests) = 1
        PROVE  \A m, n \in DOMAIN origin :
                  (/\ origin[m] = 0 /\ origin[n] = 0
                   /\ proposal[m].content \in setting.calendar
                   /\ proposal[m].content = proposal[n].content) => m = n
    BY <2>2, <2>4 DEF CalendarInv
  <2>5. QED
    BY <2>3, <2>4 DEF NoDraftTwice
<1>2. QED
  BY <1>1, IngestInductiveInvariant, PTL

\* As long as no statement fails and the server does not stop, a stored entry has its
\* draft or the ingest that stored it is about to make it.
THEOREM IngestEveryItemIsDrafted == IngestSpec => []EveryItemIsDrafted
<1>1. IngestInv => EveryItemIsDrafted
  BY DEF IngestInv
<1>2. QED
  BY <1>1, IngestInductiveInvariant, PTL

-------------------------------------------------------------------------------
(* Reviews that do not overlap *)

OneAtATime == \A s \in Settings : \A q, r \in s.requests : q = r

\* What a request has read is still so when it writes; a wager of this run of the
\* server belongs to a dispatch that is recorded, or is about to be.
ReviewInv ==
    /\ \A r \in Requests :
        /\ request[r].step \in {"edit", "decide"} => proposal[request[r].id].status = "pending"
        /\ request[r].step = "decide" => request[r].row.status \in {"approved", "rejected"}
        /\ request[r].step \in {"send", "record"} => proposal[request[r].id].status = "approved"
        /\ request[r].step = "send" => request[r].row = proposal[request[r].id]
        /\ request[r].step = "record" =>
            /\ request[r].row.status \in {"dispatched", "dispatch_failed"}
            /\ request[r].row.status = "dispatched" =>
                \E n \in DOMAIN wager : wager[n].proposal = request[r].id
    /\ \A n \in DOMAIN wager : wager[n].proposal \in DOMAIN proposal
    /\ crashes = 0 =>
        /\ \A m, n \in DOMAIN wager : wager[m].proposal = wager[n].proposal => m = n
        /\ \A n \in DOMAIN wager :
            \/ proposal[wager[n].proposal].status \in {"dispatched", "dispatch_failed"}
            \/ \E r \in Requests :
                request[r].step = "record" /\ request[r].id = wager[n].proposal

LEMMA OthersAreIdle ==
    ASSUME OneAtATime, IngestInv, NEW r \in setting.requests
    PROVE  \A q \in Requests : q # r => request[q].step = "idle"
BY DEF OneAtATime, IngestInv, TypeInv, Started, Idle

LEMMA ReviewInit ==
    ASSUME IngestInit
    PROVE  ReviewInv
<1>1. wager = <<>> /\ request = [r \in Requests |-> Answered("none")]
  BY DEF IngestInit, Init
<1>2. DOMAIN wager = {} /\ \A r \in Requests : request[r].step = "idle"
  BY <1>1 DEF Answered
<1>3. QED
  BY <1>2 DEF ReviewInv

\* The inserts of an ingest leave the rows that are there alone.
LEMMA ReviewGrows ==
    ASSUME ReviewInv, IngestInv, IngestInv', wager' = wager, request' = request,
           crashes' = crashes,
           \A n \in DOMAIN proposal : n \in DOMAIN proposal' /\ proposal'[n] = proposal[n]
    PROVE  ReviewInv'
<1>1. \A r \in Requests : request[r].step # "idle" => request[r].id \in DOMAIN proposal
  BY DEF IngestInv, Started, Idle
<1>2. \A r \in Requests : request[r].step # "idle" =>
          proposal'[request[r].id] = proposal[request[r].id]
  BY <1>1
<1>3. \A n \in DOMAIN wager : /\ wager[n].proposal \in DOMAIN proposal'
                              /\ proposal'[wager[n].proposal] = proposal[wager[n].proposal]
  BY DEF ReviewInv
<1>4. \A r \in Requests :
        /\ request[r].step \in {"edit", "decide"} => proposal'[request[r].id].status = "pending"
        /\ request[r].step = "decide" => request[r].row.status \in {"approved", "rejected"}
        /\ request[r].step \in {"send", "record"} => proposal'[request[r].id].status = "approved"
        /\ request[r].step = "send" => request[r].row = proposal'[request[r].id]
        /\ request[r].step = "record" =>
            /\ request[r].row.status \in {"dispatched", "dispatch_failed"}
            /\ request[r].row.status = "dispatched" =>
                \E n \in DOMAIN wager : wager[n].proposal = request[r].id
  BY <1>2 DEF ReviewInv
<1>5. crashes = 0 =>
        /\ \A m, n \in DOMAIN wager : wager[m].proposal = wager[n].proposal => m = n
        /\ \A n \in DOMAIN wager :
            \/ proposal'[wager[n].proposal].status \in {"dispatched", "dispatch_failed"}
            \/ \E r \in Requests :
                request[r].step = "record" /\ request[r].id = wager[n].proposal
  BY <1>3 DEF ReviewInv
<1>6. QED
  BY <1>3, <1>4, <1>5 DEF ReviewInv

LEMMA ReviewStops ==
    ASSUME ReviewInv, IngestInv, ServerStops
    PROVE  ReviewInv'
<1>1. /\ proposal' = proposal /\ wager' = wager /\ crashes' = crashes + 1 /\ crashes \in Nat
      /\ request' = [r \in Requests |-> Answered("none")]
  BY DEF ServerStops, IngestInv, TypeInv
<1>2. crashes' # 0 /\ \A r \in Requests : request'[r].step = "idle"
  BY <1>1 DEF Answered
<1>3. QED
  BY <1>1, <1>2 DEF ReviewInv

LEMMA ReviewReads ==
    ASSUME ReviewInv, IngestInv, NEW r \in Requests, NEW state,
           request' = [request EXCEPT ![r] = state], Reads(r, state), crashes' = crashes
    PROVE  ReviewInv'
<1>1. /\ proposal' = proposal /\ wager' = wager /\ request[r].step \in {"idle", "send"}
      /\ state.step \in {"idle", "edit", "decide", "send"}
  BY DEF Reads, Idle
<1>2. request'[r] = state /\ \A q \in Requests : q # r => request'[q] = request[q]
  BY DEF IngestInv, TypeInv
<1>3. \A q \in Requests : request[q].step = "record" => request'[q] = request[q]
  BY <1>1, <1>2
<1>4. \A q \in Requests :
        /\ request'[q].step \in {"edit", "decide"} => proposal[request'[q].id].status = "pending"
        /\ request'[q].step = "decide" => request'[q].row.status \in {"approved", "rejected"}
        /\ request'[q].step \in {"send", "record"} => proposal[request'[q].id].status = "approved"
        /\ request'[q].step = "send" => request'[q].row = proposal[request'[q].id]
        /\ request'[q].step = "record" =>
            /\ request'[q].row.status \in {"dispatched", "dispatch_failed"}
            /\ request'[q].row.status = "dispatched" =>
                \E n \in DOMAIN wager : wager[n].proposal = request'[q].id
  <2>1. ASSUME NEW q \in Requests, q # r
        PROVE  request'[q] = request[q]
    BY <1>2, <2>1
  <2>2. /\ state.step \in {"edit", "decide"} => proposal[state.id].status = "pending"
        /\ state.step = "decide" => state.row.status \in {"approved", "rejected"}
        /\ state.step = "send" => proposal[state.id].status = "approved"
        /\ state.step = "send" => state.row = proposal[state.id]
    BY DEF Reads
  <2>3. QED
    BY <1>1, <1>2, <2>1, <2>2 DEF ReviewInv
<1>5. crashes = 0 =>
        \A n \in DOMAIN wager :
            \/ proposal[wager[n].proposal].status \in {"dispatched", "dispatch_failed"}
            \/ \E q \in Requests :
                request'[q].step = "record" /\ request'[q].id = wager[n].proposal
  BY <1>3 DEF ReviewInv
<1>6. /\ \A n \in DOMAIN wager : wager[n].proposal \in DOMAIN proposal
      /\ crashes = 0 => \A m, n \in DOMAIN wager : wager[m].proposal = wager[n].proposal => m = n
  BY DEF ReviewInv
<1>7. QED
  BY <1>1, <1>4, <1>5, <1>6 DEF ReviewInv

\* A write to the row of the only request at work, after which it is idle.
LEMMA ReviewWrites ==
    ASSUME OneAtATime, ReviewInv, IngestInv, NEW r \in setting.requests, ~Idle(r), NEW state,
           request' = [request EXCEPT ![r] = state], state.step = "idle",
           wager' = wager, crashes' = crashes, DOMAIN proposal' = DOMAIN proposal,
           \A n \in DOMAIN proposal : n # request[r].id => proposal'[n] = proposal[n],
           \/ /\ request[r].step # "record"
              /\ proposal[request[r].id].status = "pending"
           \/ proposal'[request[r].id].status \in {"dispatched", "dispatch_failed"}
    PROVE  ReviewInv'
<1>1. TypeInv /\ r \in Requests
  BY SettingFacts DEF IngestInv
<1>2. \A q \in Requests : q # r => request[q].step = "idle"
  BY OthersAreIdle
<1>3. \A q \in Requests : request'[q].step = "idle"
  BY <1>1, <1>2 DEF TypeInv
<1>4. ASSUME crashes = 0, NEW n \in DOMAIN wager
      PROVE  proposal'[wager[n].proposal].status \in {"dispatched", "dispatch_failed"}
  <2>1. /\ wager[n].proposal \in DOMAIN proposal
        /\ \/ proposal[wager[n].proposal].status \in {"dispatched", "dispatch_failed"}
           \/ request[r].step = "record" /\ request[r].id = wager[n].proposal
    BY <1>2, <1>4 DEF ReviewInv
  <2>2. CASE wager[n].proposal = request[r].id
    BY <2>1, <2>2
  <2>3. CASE wager[n].proposal # request[r].id
    BY <2>1, <2>3
  <2>4. QED
    BY <2>2, <2>3
<1>5. /\ \A n \in DOMAIN wager : wager[n].proposal \in DOMAIN proposal
      /\ crashes = 0 => \A m, n \in DOMAIN wager : wager[m].proposal = wager[n].proposal => m = n
  BY DEF ReviewInv
<1>6. QED
  BY <1>3, <1>4, <1>5 DEF ReviewInv

LEMMA ReviewSends ==
    ASSUME OneAtATime, ReviewInv, IngestInv, NEW r \in setting.requests, NEW state,
           request' = [request EXCEPT ![r] = state], Sends(r, state), crashes' = crashes
    PROVE  ReviewInv'
<1>1. TypeInv /\ r \in Requests
  BY SettingFacts DEF IngestInv
<1>2. PICK id, new : id = request[r].id /\ new = [proposal |-> id, content |-> request[r].row.content]
  OBVIOUS
<1>3. /\ request[r].step = "send" /\ proposal' = proposal
      /\ state.step = "record" /\ state.id = id
      /\ state.row.status \in {"dispatched", "dispatch_failed"}
      /\ wager' = wager \/ wager' = Append(wager, new)
      /\ state.row.status = "dispatched" => wager' = Append(wager, new)
  BY <1>2 DEF Sends
<1>4. id \in DOMAIN proposal /\ proposal[id].status = "approved" /\ new.proposal = id
  BY <1>1, <1>2, <1>3, RequestRow DEF ReviewInv, Idle
<1>5. \A q \in Requests : q # r => request[q].step = "idle"
  BY OthersAreIdle
<1>6. request'[r] = state /\ \A q \in Requests : q # r => request'[q].step = "idle"
  BY <1>1, <1>5 DEF TypeInv
<1>7. wager \in Seq(Wager) /\ DOMAIN wager = 1..Len(wager) /\ Len(wager) \in Nat
  BY <1>1 DEF TypeInv
<1>8. crashes = 0 => /\ \A n \in DOMAIN wager : wager[n].proposal # id
                     /\ \A n \in DOMAIN wager :
                          proposal[wager[n].proposal].status \in {"dispatched", "dispatch_failed"}
  <2>1. \A q \in Requests : request[q].step # "record"
    BY <1>3, <1>5
  <2>2. crashes = 0 =>
          \A n \in DOMAIN wager :
              proposal[wager[n].proposal].status \in {"dispatched", "dispatch_failed"}
    BY <2>1 DEF ReviewInv
  <2>3. QED
    BY <1>4, <2>2
<1>9. /\ \A n \in DOMAIN wager : wager[n].proposal \in DOMAIN proposal
      /\ crashes = 0 => \A m, n \in DOMAIN wager : wager[m].proposal = wager[n].proposal => m = n
  BY DEF ReviewInv
<1>10. \A n \in DOMAIN wager : n \in DOMAIN wager' /\ wager'[n] = wager[n]
  BY <1>3, <1>7
<1>11. ASSUME NEW n \in DOMAIN wager'
       PROVE  \/ n \in DOMAIN wager
              \/ n = Len(wager) + 1 /\ wager' = Append(wager, new) /\ wager'[n] = new
  BY <1>3, <1>7, <1>11
<1>12. \A n \in DOMAIN wager' : wager'[n].proposal \in DOMAIN proposal
  BY <1>4, <1>9, <1>10, <1>11
<1>13. state.row.status = "dispatched" => \E n \in DOMAIN wager' : wager'[n].proposal = id
  <2>1. ASSUME wager' = Append(wager, new)
        PROVE  Len(wager) + 1 \in DOMAIN wager' /\ wager'[Len(wager) + 1] = new
    BY <1>7, <2>1
  <2>2. QED
    BY <1>3, <1>4, <2>1
<1>14. \A q \in Requests :
        /\ request'[q].step \in {"edit", "decide"} => proposal[request'[q].id].status = "pending"
        /\ request'[q].step = "decide" => request'[q].row.status \in {"approved", "rejected"}
        /\ request'[q].step \in {"send", "record"} => proposal[request'[q].id].status = "approved"
        /\ request'[q].step = "send" => request'[q].row = proposal[request'[q].id]
        /\ request'[q].step = "record" =>
            /\ request'[q].row.status \in {"dispatched", "dispatch_failed"}
            /\ request'[q].row.status = "dispatched" =>
                \E n \in DOMAIN wager' : wager'[n].proposal = request'[q].id
  BY <1>3, <1>4, <1>6, <1>13
<1>15. ASSUME crashes = 0
       PROVE  \A m, n \in DOMAIN wager' : wager'[m].proposal = wager'[n].proposal => m = n
  BY <1>4, <1>8, <1>9, <1>10, <1>11, <1>15
<1>16. ASSUME crashes = 0, NEW n \in DOMAIN wager'
       PROVE  \/ proposal[wager'[n].proposal].status \in {"dispatched", "dispatch_failed"}
              \/ \E q \in Requests :
                  request'[q].step = "record" /\ request'[q].id = wager'[n].proposal
  <2>1. CASE n \in DOMAIN wager
    BY <1>8, <1>10, <1>16, <2>1
  <2>2. CASE wager'[n] = new
    BY <1>1, <1>3, <1>4, <1>6, <2>2
  <2>3. QED
    BY <1>11, <2>1, <2>2
<1>17. QED
  BY <1>3, <1>12, <1>14, <1>15, <1>16 DEF ReviewInv

LEMMA ReviewServes ==
    ASSUME OneAtATime, ReviewInv, IngestInv, NEW r \in setting.requests, Serve(r)
    PROVE  ReviewInv'
<1>1. TypeInv /\ r \in Requests
  BY SettingFacts DEF IngestInv
<1>2. crashes' = crashes
  BY DEF Serve, BeginEdit, WriteContent, BeginDecision, WriteStatus, BeginDispatch, Send,
         SendRaises, RecordDispatch
<1>3. PICK state \in RequestState :
          request' = [request EXCEPT ![r] = state] /\ Effect(r, state)
  BY ServeEffects
<1>4. CASE Reads(r, state)
  BY <1>1, <1>2, <1>3, <1>4, ReviewReads
<1>5. CASE Rewords(r, state)
  <2>1. ~Idle(r) /\ request[r].step = "edit" /\ state.step = "idle" /\ wager' = wager
    BY <1>5 DEF Rewords, Idle
  <2>2. request[r].id \in DOMAIN proposal /\ request[r].row.content \in Texts
    BY <1>1, <2>1, RequestRow DEF Proposal
  <2>3. /\ DOMAIN proposal' = DOMAIN proposal
        /\ \A n \in DOMAIN proposal : n # request[r].id => proposal'[n] = proposal[n]
    BY <1>1, <1>5, <2>2, ContentUpdated DEF Rewords
  <2>4. proposal[request[r].id].status = "pending"
    BY <1>1, <2>1 DEF ReviewInv
  <2>5. QED
    BY <1>2, <1>3, <2>1, <2>3, <2>4, ReviewWrites
<1>6. CASE SetsStatus(r, state)
  <2>1. /\ ~Idle(r) /\ request[r].step \in {"decide", "record"} /\ state.step = "idle"
        /\ wager' = wager
    BY <1>6 DEF SetsStatus, Idle
  <2>2. request[r].id \in DOMAIN proposal /\ request[r].row.status \in Statuses
    BY <1>1, <2>1, RequestRow DEF Proposal
  <2>3. /\ DOMAIN proposal' = DOMAIN proposal
        /\ \A n \in DOMAIN proposal : n # request[r].id => proposal'[n] = proposal[n]
        /\ proposal'[request[r].id].status = request[r].row.status
    BY <1>1, <1>6, <2>2, StatusUpdated DEF SetsStatus
  <2>4. /\ request[r].step = "decide" => proposal[request[r].id].status = "pending"
        /\ request[r].step = "record" => request[r].row.status \in {"dispatched", "dispatch_failed"}
    BY <1>1 DEF ReviewInv
  <2>5. QED
    BY <1>2, <1>3, <2>1, <2>3, <2>4, ReviewWrites
<1>7. CASE Sends(r, state)
  BY <1>2, <1>3, <1>7, ReviewSends
<1>8. QED
  BY <1>3, <1>4, <1>5, <1>6, <1>7 DEF Effect

\* What the steps of an ingest do to the drafts.
LEMMA IngestWrites ==
    ASSUME IngestInv, NEW i \in setting.ingests, IngestStep(i)
    PROVE  /\ wager' = wager /\ request' = request /\ crashes' = crashes
           /\ \/ proposal' = proposal
              \/ \E text \in Texts : proposal' = InsertProposal(text)
<1>1. TypeInv /\ ItemInv /\ CalendarInv /\ i \in Ingests
  BY SettingFacts DEF IngestInv
<1>2. ingest[i] \in IngestState
  BY <1>1 DEF TypeInv
<1>3. CASE StoreDraft(i)
  <2>1. ingest[i].row \in DOMAIN item
    BY <1>1, <1>3 DEF ItemInv, StoreDraft
  <2>2. item[ingest[i].row] \in Feed
    BY <1>1, <2>1 DEF TypeInv
  <2>3. item[ingest[i].row].title \in Texts
    BY <2>2 DEF Texts
  <2>4. QED
    BY <1>3, <2>3 DEF StoreDraft, PropositionOf
<1>4. CASE StoreCalendarDraft(i)
  <2>1. ingest[i].text \in Texts
    BY <1>1, <1>4 DEF CalendarInv, StoreCalendarDraft, Texts
  <2>2. QED
    BY <1>4, <2>1 DEF StoreCalendarDraft
<1>5. CASE ~StoreDraft(i) /\ ~StoreCalendarDraft(i)
  BY <1>5 DEF IngestStep, StartIngest, FetchSource, StoreItem, StatementFails, SourceDone,
              SourcesDone, CheckCalendar, IngestDone, vars
<1>6. QED
  BY <1>3, <1>4, <1>5

LEMMA DraftInserted ==
    ASSUME TypeInv, NEW text \in Texts, proposal' = InsertProposal(text)
    PROVE  /\ Len(proposal) \in Nat /\ Len(proposal') = Len(proposal) + 1
           /\ DOMAIN proposal = 1..Len(proposal)
           /\ proposal'[Len(proposal')].content = text
           /\ \A n \in DOMAIN proposal : n \in DOMAIN proposal' /\ proposal'[n] = proposal[n]
<1>1. PICK new : new = [status |-> "pending", content |-> text]
  OBVIOUS
<1>2. new \in Proposal /\ new.content = text
  BY <1>1 DEF Proposal, Statuses
<1>3. proposal \in Seq(Proposal) /\ proposal' = Append(proposal, new)
  BY <1>1 DEF TypeInv, InsertProposal
<1>4. QED
  BY <1>2, <1>3

LEMMA ReviewNextKeeps ==
    ASSUME OneAtATime, ReviewInv, IngestInv, [IngestNext]_allVars
    PROVE  ReviewInv'
<1>1. IngestInv'
  BY IngestNextKeeps
<1>2. CASE UNCHANGED allVars
  BY <1>2 DEF allVars, vars, ReviewInv
<1>3. CASE \E i \in setting.ingests : IngestStep(i)
  <2>1. PICK i \in setting.ingests : IngestStep(i)
    BY <1>3
  <2>2. wager' = wager /\ request' = request /\ crashes' = crashes
    BY <2>1, IngestWrites
  <2>3. \A n \in DOMAIN proposal : n \in DOMAIN proposal' /\ proposal'[n] = proposal[n]
    <3>1. CASE proposal' = proposal
      BY <3>1
    <3>2. CASE \E text \in Texts : proposal' = InsertProposal(text)
      <4>1. PICK text \in Texts : proposal' = InsertProposal(text)
        BY <3>2
      <4>2. TypeInv
        BY DEF IngestInv
      <4>3. QED
        BY <4>1, <4>2, DraftInserted
    <3>3. QED
      BY <2>1, <3>1, <3>2, IngestWrites
  <2>4. QED
    BY <1>1, <2>2, <2>3, ReviewGrows
<1>4. CASE ServerStops
  BY <1>4, ReviewStops
<1>5. CASE \E r \in setting.requests : Serve(r)
  BY <1>5, ReviewServes
<1>6. QED
  BY <1>2, <1>3, <1>4, <1>5 DEF IngestNext

\* When requests do not overlap, ingests may: a draft becomes at most one wager as long
\* as the server is not restarted, also when the outcome of its dispatch was recorded as
\* a failure although the transaction went through.
THEOREM IngestOneWagerPerProposal ==
    ASSUME OneAtATime
    PROVE  IngestSpec => []OneWagerPerProposal
<1>1. IngestInit => IngestInv /\ ReviewInv
  BY IngestInitHolds, ReviewInit
<1>2. IngestInv /\ ReviewInv /\ [IngestNext]_allVars => ReviewInv'
  BY ReviewNextKeeps
<1>3. IngestInv /\ ReviewInv => OneWagerPerProposal
  <2>1. ASSUME ReviewInv, crashes = 0, NEW id \in DOMAIN proposal
        PROVE  Cardinality(WagersOf(id)) <= 1
    <3>1. \A m, n \in WagersOf(id) : m = n
      BY <2>1 DEF ReviewInv, WagersOf
    <3>2. CASE WagersOf(id) = {}
      BY <3>2, FS_EmptySet
    <3>3. CASE \E n : n \in WagersOf(id)
      <4>1. PICK n : n \in WagersOf(id)
        BY <3>3
      <4>2. WagersOf(id) = {n}
        BY <3>1, <4>1
      <4>3. Cardinality({n}) = 1
        BY FS_Singleton, Zenon
      <4>4. Cardinality(WagersOf(id)) = 1
        BY <4>2, <4>3, Zenon
      <4>5. QED
        BY <4>4
    <3>4. QED
      BY <3>2, <3>3
  <2>2. QED
    BY <2>1 DEF OneWagerPerProposal
<1>4. QED
  BY <1>1, <1>2, <1>3, IngestInductiveInvariant, PTL DEF IngestSpec

-------------------------------------------------------------------------------
(* The review machine *)

\* A step of an ingest drafts, or changes nothing an operator sees.
LEMMA IngestDrafts ==
    ASSUME IngestInv, NEW i \in setting.ingests, IngestStep(i)
    PROVE  Review!Draft \/ UNCHANGED <<proposal, wager>>
<1>1. CASE proposal' = proposal
  BY <1>1, IngestWrites
<1>2. CASE \E text \in Texts : proposal' = InsertProposal(text)
  <2>1. PICK text \in Texts : proposal' = InsertProposal(text)
    BY <1>2
  <2>2. Len(proposal') = Len(proposal) + 1 /\ proposal'[Len(proposal')].content = text
    BY <2>1, DraftInserted DEF IngestInv
  <2>3. proposal' = Append(proposal, [status |-> "pending",
                                      content |-> proposal'[Len(proposal')].content])
    BY <2>1, <2>2 DEF InsertProposal
  <2>4. wager' = wager
    BY IngestWrites
  <2>5. QED
    BY <2>2, <2>3, <2>4 DEF Review!Draft
<1>3. QED
  BY <1>1, <1>2, IngestWrites

\* Each statement of a request is a step of the machine, or none.
LEMMA RequestReviews ==
    ASSUME OneAtATime, ReviewInv, IngestInv, NEW r \in setting.requests, Serve(r)
    PROVE  Review!Next \/ UNCHANGED <<proposal, wager>>
<1>1. TypeInv /\ r \in Requests
  BY SettingFacts DEF IngestInv
<1>2. PICK state \in RequestState :
          request' = [request EXCEPT ![r] = state] /\ Effect(r, state)
  BY ServeEffects
<1>3. CASE Reads(r, state)
  BY <1>3 DEF Reads
<1>4. PICK id, row : id = request[r].id /\ row = request[r].row
  OBVIOUS
<1>5. ~Idle(r) => id \in DOMAIN proposal /\ row \in Proposal
  BY <1>1, <1>4, RequestRow
<1>6. CASE Rewords(r, state)
  <2>1. /\ ~Idle(r) /\ request[r].step = "edit" /\ wager' = wager
        /\ proposal' = UpdateContent(id, row.content)
    BY <1>4, <1>6 DEF Rewords, Idle
  <2>2. id \in DOMAIN proposal /\ row.content \in Texts
    BY <1>5, <2>1 DEF Proposal
  <2>3. proposal'[id].content = row.content
    BY <1>1, <2>1, <2>2, ContentUpdated
  <2>4. proposal[id].status = "pending"
    BY <1>1, <1>4, <2>1 DEF ReviewInv
  <2>5. proposal' = [proposal EXCEPT ![id].content = proposal'[id].content]
    BY <2>1, <2>3 DEF UpdateContent
  <2>6. Review!Edit(id)
    BY <2>1, <2>4, <2>5 DEF Review!Edit
  <2>7. QED
    BY <2>2, <2>6 DEF Review!Next
<1>7. CASE SetsStatus(r, state)
  <2>1. /\ ~Idle(r) /\ request[r].step \in {"decide", "record"} /\ wager' = wager
        /\ proposal' = [proposal EXCEPT ![id].status = row.status]
    BY <1>4, <1>7 DEF SetsStatus, Idle, UpdateStatus
  <2>2. id \in DOMAIN proposal
    BY <1>5, <2>1
  <2>3. CASE request[r].step = "decide"
    <3>1. proposal[id].status = "pending" /\ row.status \in {"approved", "rejected"}
      BY <1>1, <1>4, <2>3 DEF ReviewInv
    <3>2. Review!Decide(id)
      BY <2>1, <3>1 DEF Review!Decide, Review!Moves
    <3>3. QED
      BY <2>2, <3>2 DEF Review!Next
  <2>4. CASE request[r].step = "record"
    <3>1. /\ proposal[id].status = "approved" /\ row.status \in {"dispatched", "dispatch_failed"}
          /\ row.status = "dispatched" => \E n \in DOMAIN wager : wager[n].proposal = id
      BY <1>1, <1>4, <2>4 DEF ReviewInv
    <3>2. Review!Settle(id)
      BY <2>1, <3>1 DEF Review!Settle, Review!Moves
    <3>3. QED
      BY <2>2, <3>2 DEF Review!Next
  <2>5. QED
    BY <2>1, <2>3, <2>4
<1>8. CASE Sends(r, state)
  <2>1. /\ ~Idle(r) /\ request[r].step = "send" /\ proposal' = proposal
        /\ \/ wager' = wager
           \/ wager' = Append(wager, [proposal |-> id, content |-> row.content])
    BY <1>4, <1>8 DEF Sends, Idle
  <2>2. id \in DOMAIN proposal /\ proposal[id].status = "approved" /\ row = proposal[id]
    BY <1>1, <1>4, <1>5, <2>1 DEF ReviewInv
  <2>3. CASE wager' = wager
    BY <2>1, <2>3
  <2>4. CASE wager' = Append(wager, [proposal |-> id, content |-> row.content])
    <3>1. Review!Send(id)
      BY <2>1, <2>2, <2>4 DEF Review!Send
    <3>2. QED
      BY <2>2, <3>1 DEF Review!Next
  <2>5. QED
    BY <2>1, <2>3, <2>4
<1>9. QED
  BY <1>2, <1>3, <1>6, <1>7, <1>8 DEF Effect

\* Requests that do not overlap, beside any ingests and through restarts, make the
\* machine the service promises: a draft is edited while it is pending, decided once,
\* sent with the text it was approved with, and its status never goes back.
THEOREM IngestReviewImplemented ==
    ASSUME OneAtATime
    PROVE  IngestSpec => ImplementsReview
<1>1. IngestInit => IngestInv /\ ReviewInv /\ Review!Init
  BY IngestInitHolds, ReviewInit DEF IngestInit, Init, Review!Init
<1>2. IngestInv /\ ReviewInv /\ [IngestNext]_allVars => ReviewInv'
  BY ReviewNextKeeps
<1>3. IngestInv /\ ReviewInv /\ [IngestNext]_allVars => [Review!Next]_<<proposal, wager>>
  <2>1. SUFFICES ASSUME IngestInv, ReviewInv, [IngestNext]_allVars
                 PROVE  Review!Next \/ UNCHANGED <<proposal, wager>>
    OBVIOUS
  <2>2. CASE UNCHANGED allVars
    BY <2>2 DEF allVars, vars
  <2>3. CASE \E i \in setting.ingests : IngestStep(i)
    BY <2>1, <2>3, IngestDrafts DEF Review!Next
  <2>4. CASE ServerStops
    BY <2>4 DEF ServerStops
  <2>5. CASE \E r \in setting.requests : Serve(r)
    BY <2>1, <2>5, RequestReviews
  <2>6. QED
    BY <2>1, <2>2, <2>3, <2>4, <2>5 DEF IngestNext
<1>4. QED
  BY <1>1, <1>2, <1>3, IngestInductiveInvariant, PTL
  DEF IngestSpec, ImplementsReview, Review!Spec
===============================================================================

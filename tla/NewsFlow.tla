------------------------------ MODULE NewsFlow ------------------------------
(***************************************************************************)
(* The way of a headline: two fetchers land news items in raw_news_items,  *)
(* the enrichment thread has a local model read each one and stores a      *)
(* catalyst row and a news event per ticker, and the readers (arming, the  *)
(* watcher, the entry veto) ask for the latest headline or catalyst of a   *)
(* ticker.                                                                 *)
(*                                                                         *)
(* The connections commit every statement on its own: the scheduler's      *)
(* fetches, the enrichment and its undo interleave statement by statement, *)
(* and stop anywhere.                                                      *)
(***************************************************************************)
EXTENDS Integers, Sequences, SequencesExt, FiniteSets

CONSTANTS
    Headlines,     \* the dedupe keys of the items: a hash of source, url and title
    Tickers,       \* [Headlines -> Seq(symbol)]: raw_tickers, upper case, may be empty
    Offering,      \* the headlines whose text looks dilutive
    Untitled,      \* items with neither an id nor a title
    RssFeeds,      \* the RSS feeds, in the order of NEWS_FEEDS
    ApiFeed,       \* the news of the broker's API
    Listed,        \* [feed -> Seq(Headlines)]: what a feed returns
    Batch, Lookback,
    MaxFetches, MaxNewsTime, \* bounds on the fetches and the clock of a run
    NewsFaults     \* the combinations of faults a run may see

(* gives_up   the process dies                                             *)
(* no_feed    a feed cannot be fetched                                     *)
(* no_row     the database refuses a statement of a fetch or of a store    *)
(* no_undo    it refuses the compensating delete                           *)
(* no_model   the model is down, or answers with no JSON object            *)
NewsFaultNames == {"gives_up", "no_feed", "no_row", "no_undo", "no_model"}

NewsAssumption ==
    /\ Offering \cup Untitled \subseteq Headlines
    /\ RssFeeds # <<>> /\ RssFeeds \in Seq(DOMAIN Listed) /\ ApiFeed \in DOMAIN Listed
    /\ \A i \in DOMAIN RssFeeds : RssFeeds[i] # ApiFeed
    /\ \A f \in DOMAIN Listed : Listed[f] \in Seq(Headlines)
    /\ \A h \in Headlines : Tickers[h] \in Seq(STRING \ {""})
    /\ Batch \in Nat \ {0} /\ Lookback \in Nat
    /\ MaxFetches \in Nat /\ MaxNewsTime \in Nat
    /\ NewsFaults \subseteq SUBSET NewsFaultNames

VARIABLES
    raw,       \* raw_news_items in landing order: [hash, at]
    cache,     \* news_catalyst_cache: [hash, symbol, at, dilutive]
    events,    \* the ids of news_events: <<hash, symbol>>
    fetch,     \* the scheduler's fetch
    enrich,    \* the enrichment pass and its locals
    fetches, clock, hit

newsVars == <<raw, cache, events, fetch, enrich, fetches, clock, hit>>
tableVars == <<raw, cache, events>>

NoFetch == [at |-> "idle", feeds |-> <<>>, items |-> <<>>, when |-> 0]
NoPass == [at |-> "idle", rows |-> <<>>, todo |-> <<>>, dilutive |-> FALSE]

Init ==
    /\ raw = <<>> /\ cache = {} /\ events = {}
    /\ fetch = NoFetch /\ enrich = NoPass
    /\ fetches = 0 /\ clock = 0
    /\ hit \in NewsFaults

Recent(row) == row.at >= clock - Lookback
Landed == {raw[i].hash : i \in DOMAIN raw}
Cached == {r.hash : r \in cache}
TooOld(h) == \E i \in DOMAIN raw : raw[i].hash = h /\ ~Recent(raw[i])
LandedAt(h) == raw[CHOOSE i \in DOMAIN raw : raw[i].hash = h].at

-----------------------------------------------------------------------------
(* ingest_all_feeds (discovery) and ingest_alpaca_news (step_news) *)

FetchStart ==
    /\ fetch.at = "idle" /\ fetches < MaxFetches
    /\ fetches' = fetches + 1
    /\ \E feeds \in {RssFeeds, <<ApiFeed>>} :
        fetch' = [NoFetch EXCEPT !.at = "get", !.feeds = feeds]
    /\ UNCHANGED <<tableVars, enrich, clock, hit>>

\* the request, then the attempt row: a feed that fails lands no items; a refused
\* attempt row ends an RSS pass and does not trouble the API's
FetchFeed ==
    /\ fetch.at = "get"
    /\ \/ fetch' = [fetch EXCEPT !.at = "land", !.when = clock,
                                 !.items = Listed[Head(fetch.feeds)]]
       \/ "no_feed" \in hit /\ fetch' = [fetch EXCEPT !.at = "land"]
       \/ "no_row" \in hit /\ Head(fetch.feeds) # ApiFeed /\ fetch' = NoFetch
    /\ UNCHANGED <<tableVars, enrich, fetches, clock, hit>>

FeedEnds ==
    IF Len(fetch.feeds) = 1 THEN NoFetch
    ELSE [fetch EXCEPT !.at = "get", !.feeds = Tail(@), !.items = <<>>]

NextFeed ==
    /\ fetch.at = "land" /\ fetch.items = <<>>
    /\ fetch' = FeedEnds
    /\ UNCHANGED <<tableVars, enrich, fetches, clock, hit>>

\* an item lands once; the API leaves out an item without id and title, RSS does not
LandItem ==
    LET h == Head(fetch.items)
        skip == h \in Landed \/ (h \in Untitled /\ Head(fetch.feeds) = ApiFeed)
        goOn == fetch' = [fetch EXCEPT !.items = Tail(@)]
    IN  /\ fetch.at = "land" /\ fetch.items # <<>>
        /\ \/ skip /\ goOn /\ UNCHANGED raw
           \/ /\ ~skip /\ goOn
              /\ raw' = Append(raw, [hash |-> h, at |-> fetch.when])
           \/ /\ "no_row" \in hit /\ UNCHANGED raw
              /\ IF Head(fetch.feeds) = ApiFeed THEN goOn ELSE fetch' = NoFetch
        /\ UNCHANGED <<cache, events, enrich, fetches, clock, hit>>

-----------------------------------------------------------------------------
(* enrich_recent_news *)

\* mutant of ToEnrich: rows of a headline that is stored in part are taken again
ToEnrichAll == {raw[i].hash : i \in {i \in DOMAIN raw : Recent(raw[i])}}

ToEnrich == {raw[i].hash : i \in {i \in DOMAIN raw : Recent(raw[i])}} \ Cached

\* the newest rows, newest first, at most a batch of them
NewestFirst(hashes) ==
    {s \in BoundedSeq(hashes, Batch) :
        /\ \A i, j \in DOMAIN s :
            i < j => s[i] # s[j] /\ LandedAt(s[i]) >= LandedAt(s[j])
        /\ \A h \in hashes \ Range(s) :
            Len(s) = Batch /\ \A i \in DOMAIN s : LandedAt(h) <= LandedAt(s[i])}

PassStart ==
    /\ enrich.at = "idle" /\ ToEnrich # {}
    /\ \E rows \in NewestFirst(ToEnrich) :
        enrich' = [NoPass EXCEPT !.at = "classify", !.rows = rows]
    /\ UNCHANGED <<tableVars, fetch, fetches, clock, hit>>

Over(rows) == IF rows = <<>> THEN NoPass ELSE [NoPass EXCEPT !.at = "classify", !.rows = rows]

\* _parse: an offering in the text outweighs the model
IsDilutive(h, said) == said \/ h \in Offering

\* classify_headline: no analysis leaves the headline to a later pass; a headline
\* without tickers gets one row with the symbol ""
Classify ==
    LET h == Head(enrich.rows) IN
    /\ enrich.at = "classify"
    /\ \/ "no_model" \in hit /\ enrich' = Over(Tail(enrich.rows))
       \/ \E said \in BOOLEAN :
            enrich' = [enrich EXCEPT !.at = "store",
                        !.todo = IF Tickers[h] = <<>> THEN <<"">> ELSE Tickers[h],
                        !.dilutive = IsDilutive(h, said)]
    /\ UNCHANGED <<tableVars, fetch, fetches, clock, hit>>

\* _store_cache_row
StoreCacheRow ==
    LET h == Head(enrich.rows)  t == Head(enrich.todo) IN
    /\ enrich.at = "store"
    /\ \/ /\ cache' = IF \E r \in cache : r.hash = h /\ r.symbol = t THEN cache
                      ELSE cache \cup {[hash |-> h, symbol |-> t, at |-> clock,
                                        dilutive |-> enrich.dilutive]}
          /\ enrich' = [enrich EXCEPT !.at = "event"]
       \/ "no_row" \in hit /\ enrich' = [enrich EXCEPT !.at = "undo"] /\ UNCHANGED cache
    /\ UNCHANGED <<raw, events, fetch, fetches, clock, hit>>

NextTicker ==
    IF Len(enrich.todo) = 1 THEN Over(Tail(enrich.rows))
    ELSE [enrich EXCEPT !.at = "store", !.todo = Tail(@)]

\* _upsert_news_event
UpsertNewsEvent ==
    LET h == Head(enrich.rows)  t == Head(enrich.todo) IN
    /\ enrich.at = "event"
    /\ \/ /\ events' = IF t = "" THEN events ELSE events \cup {<<h, t>>}
          /\ enrich' = NextTicker
       \/ /\ t # "" /\ "no_row" \in hit
          /\ enrich' = [enrich EXCEPT !.at = "undo"] /\ UNCHANGED events
    /\ UNCHANGED <<raw, cache, fetch, fetches, clock, hit>>

\* mutant of Undone: only the row of the ticker that failed
UndoneLast == {r \in cache : r.hash # Head(enrich.rows) \/ r.symbol # Head(enrich.todo)}

Undone == {r \in cache : r.hash # Head(enrich.rows)}

\* the compensating delete, whose own failure is swallowed
UndoHeadline ==
    /\ enrich.at = "undo"
    /\ \/ cache' = Undone
       \/ "no_undo" \in hit /\ UNCHANGED cache
    /\ enrich' = Over(Tail(enrich.rows))
    /\ UNCHANGED <<raw, events, fetch, fetches, clock, hit>>

-----------------------------------------------------------------------------
(* The readers *)

\* catalyst_map: of each ticker a recent row than which none was enriched later
CatalystMap ==
    {r \in cache : /\ r.symbol # "" /\ Recent(r)
                   /\ \A q \in cache : q.symbol = r.symbol => q.at <= r.at}

NewsTick ==
    /\ clock < MaxNewsTime
    /\ clock' = clock + 1
    /\ UNCHANGED <<tableVars, fetch, enrich, fetches, hit>>

ProcessDies ==
    /\ "gives_up" \in hit
    /\ fetch' = NoFetch /\ enrich' = NoPass
    /\ UNCHANGED <<tableVars, fetches, clock, hit>>

Enrich ==
    PassStart \/ Classify \/ StoreCacheRow \/ UpsertNewsEvent \/ UndoHeadline

Fetch == FetchStart \/ FetchFeed \/ NextFeed \/ LandItem

Next == Fetch \/ Enrich \/ NewsTick \/ ProcessDies

-----------------------------------------------------------------------------
(* Properties *)

\* Every variable has its type.
TypeOK ==
    /\ Landed \subseteq Headlines /\ Cached \subseteq Landed
    /\ fetch.at \in {"idle", "get", "land"}
    /\ enrich.at \in {"idle", "classify", "store", "event", "undo"}
    /\ clock \in 0..MaxNewsTime /\ fetches \in 0..MaxFetches

\* Between two headlines, while no process dies and no undo is refused, a headline with
\* a row has one for each of its tickers, each with its news event and all with one
\* verdict, dilutive where the text is: no statement that fails leaves a part of one,
\* which the next pass would take for the whole.
WholeHeadlines ==
    (enrich.at \in {"idle", "classify"} /\ hit \cap {"gives_up", "no_undo"} = {}) =>
        \A h \in Cached :
            LET rows == {r \in cache : r.hash = h} IN
            /\ \A i \in DOMAIN Tickers[h] :
                /\ \E r \in rows : r.symbol = Tickers[h][i]
                /\ <<h, Tickers[h][i]>> \in events
            /\ \A r, q \in rows : r.dilutive = q.dilutive
            /\ h \in Offering => \A r \in rows : r.dilutive

\* While nothing fails, a headline is enriched or too old in the end, whatever lands
\* after it and ahead of it.
NewsEnriched ==
    \A h \in Headlines :
        (hit = {} /\ h \in Landed) ~> (h \in Cached \/ TooOld(h))
=============================================================================

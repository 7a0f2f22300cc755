------------------------------- MODULE Stores -------------------------------
(***************************************************************************)
(* The parts that keep the event store, the research tables and what is    *)
(* told of them: PaperSync and the ones instantiated below.  They meet in  *)
(* tables only, so a behaviour is one part's, chosen at the start, and the *)
(* others stay at one of their initial states.                             *)
(***************************************************************************)
EXTENDS PaperSync

CONSTANTS
    Videos, Playlists, Items, Published, Answers, Workers, Pollers, MaxRetries, MaxWindows,
    MaxPolls, PipelineFaults,
    Headlines, Tickers, Offering, Untitled, Listed, RssFeeds, ApiFeed, Batch, Lookback,
    MaxFetches, MaxNewsTime, NewsFaults,
    Stocks, Traded, Screens, NewsNames, Fallback, Excluded, Band, TopNames, MaxUniverse,
    MaxGappers, Refresh, OrbBars, StaleAfter, StaleBlock, LastMinute, MaxDiscoveries, BarFaults,
    WatchNames, Injectable, MinBars, RowLimit, MaxSymbols, MaxBars, MaxTicks, FlowFaults,
    Tickets, Watched, QueryLimit, MaxEvents, MaxDrops,
    ScanLimit, MaxRisks, MaxQuestions, MaxStarts, NoticeFaults,
    BuiltTracks, Sessions, MaxBuilds, MaxChanges

VARIABLES
    part,
    status, retries, claims, quota, worker, poller, attempts, polls, given,
    raw, cache, events, fetch, enrich, fetches, clock, hit,
    list, firstPass, stale, minute_bars, daily_bars, ranges, minute, lastPass, since,
    discoveries, mishaps,
    states, extra, bars, queue, at, verdict, logged, signals, torn, ticks, troubles,
    log, truth, conn, lost, cut, stream, page, drops,
    risks, seen, alerts, pushed, before, primed, starts, questions, confirmed, batch,
    offset, answers, ills,
    found, setups, features, labels, job, broken, builds, changes

videoVars == <<status, retries, claims, quota, worker, poller, attempts, polls, given>>
newsVars == <<raw, cache, events, fetch, enrich, fetches, clock, hit>>
barVars == <<list, firstPass, stale, minute_bars, daily_bars, ranges, minute, lastPass,
             since, discoveries, mishaps>>
flowVars == <<states, extra, bars, queue, at, verdict, logged, signals, torn, ticks, troubles>>
logVars == <<log, truth, conn, lost, cut, stream, page, drops>>
noticeVars == <<risks, seen, alerts, pushed, before, primed, starts, questions, confirmed,
                batch, offset, answers, ills>>
labelVars == <<found, setups, features, labels, job, broken, builds, changes>>

-----------------------------------------------------------------------------
(* The parts *)

Claims == INSTANCE VideoPipeline
News == INSTANCE NewsFlow
Market == INSTANCE MarketBars
Watcher == INSTANCE SignalFlow
Log == INSTANCE EventLog
Notices == INSTANCE Notifications
Store == INSTANCE LabelStore

ASSUME StoresAssumption ==
    /\ Claims!PipelineAssumption /\ News!NewsAssumption /\ Market!BarsAssumption
    /\ Watcher!FlowAssumption /\ Log!LogAssumption /\ Notices!NoticesAssumption
    /\ Store!LabelAssumption

Parts == {"sync", "claims", "news", "market", "watcher", "log", "notices", "labels"}

\* the fault sets and the other choices of a part are made only where it runs
Chosen(p, choice, choices) == part = p \/ choice = CHOOSE c \in choices : TRUE

StoresInit ==
    /\ part \in Parts
    /\ Init /\ Claims!Init /\ News!Init /\ Market!Init /\ Watcher!Init /\ Log!Init
    /\ Notices!Init /\ Store!Init
    /\ Chosen("sync", faults, FaultSets)
    /\ Chosen("claims", given, PipelineFaults)
    /\ Chosen("news", hit, NewsFaults)
    /\ Chosen("market", <<mishaps, list, minute>>, BarFaults \X Market!Watchlist \X {1})
    /\ Chosen("watcher", troubles, FlowFaults)
    /\ Chosen("notices", <<ills, risks>>, NoticeFaults \X {<<>>})
    /\ Chosen("labels", found, {{}})

DrainStep(w) ==
    /\ part = "claims" /\ Claims!Drain(w)
    /\ UNCHANGED <<part, vars, newsVars, barVars, flowVars, logVars, noticeVars, labelVars>>
EnrichStep ==
    /\ part = "news" /\ News!Enrich
    /\ UNCHANGED <<part, vars, videoVars, barVars, flowVars, logVars, noticeVars, labelVars>>

StoresNext ==
    \/ part = "sync" /\ Next
       /\ UNCHANGED <<part, videoVars, newsVars, barVars, flowVars, logVars, noticeVars, labelVars>>
    \/ part = "claims" /\ Claims!Next
       /\ UNCHANGED <<part, vars, newsVars, barVars, flowVars, logVars, noticeVars, labelVars>>
    \/ part = "news" /\ News!Next
       /\ UNCHANGED <<part, vars, videoVars, barVars, flowVars, logVars, noticeVars, labelVars>>
    \/ part = "market" /\ Market!Next
       /\ UNCHANGED <<part, vars, videoVars, newsVars, flowVars, logVars, noticeVars, labelVars>>
    \/ part = "watcher" /\ Watcher!Next
       /\ UNCHANGED <<part, vars, videoVars, newsVars, barVars, logVars, noticeVars, labelVars>>
    \/ part = "log" /\ Log!Next
       /\ UNCHANGED <<part, vars, videoVars, newsVars, barVars, flowVars, noticeVars, labelVars>>
    \/ part = "notices" /\ Notices!Next
       /\ UNCHANGED <<part, vars, videoVars, newsVars, barVars, flowVars, logVars, labelVars>>
    \/ part = "labels" /\ Store!Next
       /\ UNCHANGED <<part, vars, videoVars, newsVars, barVars, flowVars, logVars,
                      noticeVars>>

storesVars == <<part, vars, videoVars, newsVars, barVars, flowVars, logVars, noticeVars, labelVars>>

StoresSpec ==
    /\ StoresInit /\ [][StoresNext]_storesVars
    /\ \A w \in Workers : WF_storesVars(DrainStep(w))
    /\ WF_storesVars(EnrichStep)

-----------------------------------------------------------------------------
(* Properties: those of the parts, as their modules state them *)

\* Every variable of every part has its type.
Types ==
    /\ TypeOK /\ Claims!TypeOK /\ News!TypeOK /\ Market!TypeOK /\ Watcher!TypeOK
    /\ Log!TypeOK /\ Notices!TypeOK /\ Store!TypeOK

\* A video's claims are of one attempt, and it is tried no oftener than its retries
\* allow; and the videos are a queue that hands out no job whose results are stored
\* (VideoPipeline, ClaimQueue).
ClaimsSound == [](Claims!ClaimsOnce /\ Claims!AttemptsBounded) /\ Claims!ImplementsQueue

\* What was begun is brought to an end: a queued video, and a headline that can
\* be enriched (VideoPipeline, NewsFlow).
WorkEnds == Claims!VideoEnds /\ News!NewsEnriched

\* Rows that belong together are there together: the tickers of a headline, the
\* bars of a listed symbol (NewsFlow, MarketBars).
RowsWhole == News!WholeHeadlines /\ Market!BarsWhole

\* A signal is logged once for each stay in ready, an alert pushed once
\* (SignalFlow, Notifications).
SaidOnce == Watcher!SignalPerStay /\ Notices!ToldOnce

\* What the dashboard and a restart read from the log is what happened (EventLog).
LogAgrees == Log!ViewsAgree /\ Log!PageUpToDate

\* A step of a build leaves no label without its setup, and a build that ends no setup
\* without its label, also when one died before it (LabelStore).
LabelsKept == [][part = "labels" => Store!LabelsKept' /\ Store!RebuiltWhole]_labelVars
=============================================================================

----------------------------- MODULE MarketBars -----------------------------
(***************************************************************************)
(* The market data one process of run_live_paper.py works on: the list of  *)
(* watched symbols, which discovery extends and rotates, the minute bars   *)
(* an ingest pass stores for the symbols listed at that moment, the daily  *)
(* baseline without which a symbol has no gap, and the opening ranges that *)
(* arming takes from the stored bars.  All steps run on the scheduler's    *)
(* thread, so each is atomic; the process may end between any two.         *)
(*                                                                         *)
(* The clock counts the minutes of the regular session.  A bar is stored   *)
(* or not: closed bars never change.                                       *)
(***************************************************************************)
EXTENDS Integers, Sequences, FiniteSets, FiniteSetsExt, Functions

CONSTANTS
    Stocks,        \* every symbol of the run
    Traded,        \* [Stocks -> SUBSET Nat]: the minutes a symbol has a bar of
    Screens,       \* what the screener may answer: gainers, then most actives
    Excluded,      \* leveraged ETFs and the like
    Band,          \* the symbols whose last trade is in the price band
    NewsNames,     \* sequences of tickers news_candidates may return
    Fallback,      \* DEFAULT_SYMBOLS, each once
    TopNames, MaxUniverse, MaxGappers,
    Refresh,       \* minutes a pass asks for, after the first
    OrbBars,       \* bars of an opening range
    StaleAfter, StaleBlock,
    LastMinute,    \* bound on the clock
    MaxDiscoveries, \* bound on the discoveries of a run
    BarFaults      \* the combinations of faults a run may see

(* dies      the process ends, and is started again                        *)
(* no_screen the screener fails, or has no names                           *)
(* no_bars   a request for bars fails                                      *)
(* no_upsert the bars of one symbol are refused                            *)
BarFaultNames == {"dies", "no_screen", "no_bars", "no_upsert"}

Minutes == 1..LastMinute

BarsAssumption ==
    /\ Traded \in [Stocks -> SUBSET Minutes]
    /\ \A q \in Screens \cup NewsNames \cup {Fallback} : q \in Seq(Stocks)
    /\ IsInjective(Fallback)
    /\ Excluded \cup Band \subseteq Stocks
    /\ \A n \in {TopNames, MaxUniverse, MaxGappers, Refresh, OrbBars, StaleAfter,
                 LastMinute, MaxDiscoveries} : n \in Nat \ {0}
    /\ LastMinute > 1
    /\ StaleBlock \in BOOLEAN /\ BarFaults \subseteq SUBSET BarFaultNames

VARIABLES
    list,      \* symbols, oldest first
    firstPass, \* _ingest_first
    stale,     \* _data_stale
    minute_bars, daily_bars, \* what the tables hold: minutes of a symbol; symbols
    ranges,    \* the opening ranges armed: [symbol, bars]
    minute,
    lastPass,  \* when bars were last asked for, 0 before the process did
    since,     \* history: from which minute on a listed symbol should have its bars
    discoveries, mishaps

barVars == <<list, firstPass, stale, minute_bars, daily_bars, ranges, minute, lastPass,
             since, discoveries, mishaps>>

-----------------------------------------------------------------------------
(* The screener *)

\* a list, and behind it those of some names that may be there and are not yet
Joined(names, others, allowed) ==
    LET upTo[i \in 0 .. Len(others)] ==
            IF i = 0 THEN names
            ELSE IF others[i] \in allowed \ Range(upTo[i - 1])
                 THEN Append(upTo[i - 1], others[i]) ELSE upTo[i - 1]
    IN  upTo[Len(others)]

First(names, top) == SubSeq(names, 1, Min({top, Len(names)}))

\* discover_active_symbols: in order, without repetitions, inside the price band
InBand(names, top) == First(Joined(<<>>, names, Band), top)

\* screen_universe: twice as many as are wanted, less the ETFs
Screened(names) ==
    First(Joined(<<>>, InBand(names, 2 * TopNames), Stocks \ Excluded), TopNames)

\* what the screener comes to after its retries
Screen == {Screened(q) : q \in Screens} \cup {q \in {<<>>} : "no_screen" \in mishaps}

\* build_runtime: the screener's names, or the fallback
Watchlist == {IF names = <<>> THEN Fallback ELSE names : names \in Screen}

-----------------------------------------------------------------------------

Init ==
    /\ mishaps \in BarFaults
    /\ list \in Watchlist
    /\ firstPass = TRUE /\ stale = FALSE
    /\ minute_bars = [s \in Stocks |-> {}] /\ daily_bars = {}
    /\ ranges = {}
    /\ minute \in {1, LastMinute \div 2}
    /\ lastPass = 0
    /\ since = [s \in Stocks |-> 0]
    /\ discoveries = 0

\* ingest_daily_history of some symbols; a refused request leaves no baseline
DailyHistory(names) ==
    {daily_bars \cup names} \cup
    {d \in {daily_bars} : mishaps \cap {"no_bars", "no_upsert"} # {}}

\* the backfill at the start of main()
BootBackfill ==
    /\ lastPass = 0 /\ Range(list) \ daily_bars # {}
    /\ daily_bars' \in DailyHistory(Range(list))
    /\ UNCHANGED <<list, firstPass, stale, minute_bars, ranges, minute, lastPass, since,
                   discoveries, mishaps>>

\* the window of a pass: the session so far at first, then the last minutes
Asked == {m \in Minutes : m < minute /\ (firstPass \/ m >= minute - Refresh)}

\* ingest_live_minute_bars: what is stored after a pass, symbol by symbol
Stored(refused) ==
    [s \in Stocks |-> IF s \in Range(list) \ refused
                      THEN minute_bars[s] \cup (Asked \cap Traded[s])
                      ELSE minute_bars[s]]

\* _freshest_bar_age and _ingest_stale_secs
StaleNow(bars) ==
    LET all == UNION {bars[s] : s \in Stocks}
    IN  all # {} /\ minute - Max(all) > StaleAfter

\* step_ingest: the first pass is the first that asks, answered or not
StepIngest ==
    /\ \/ minute_bars' = Stored({})
       \/ "no_bars" \in mishaps /\ UNCHANGED minute_bars
       \/ "no_upsert" \in mishaps /\ \E s \in Range(list) : minute_bars' = Stored({s})
    /\ firstPass' = FALSE
    /\ stale' = StaleNow(minute_bars')
    /\ lastPass' = minute
    /\ since' = [s \in Stocks |->
            IF s \notin Range(list) THEN 0
            ELSE IF since[s] # 0 THEN since[s]
            ELSE IF firstPass THEN 1 ELSE Max({1, minute - Refresh})]
    /\ UNCHANGED <<list, daily_bars, ranges, minute, discoveries, mishaps>>

\* the oldest names leave a list that is too long
Rotated(names) == SubSeq(names, Max({1, Len(names) - MaxUniverse + 1}), Len(names))

\* a symbol that leaves the list has no bars to wait for
WhileListed == since' = [s \in Stocks |-> IF s \in Range(list') THEN since[s] ELSE 0]

\* run_discovery: the screener's names and those of the news, and their baseline
\* step_discover: the new ones join the list
StepDiscover ==
    /\ discoveries < MaxDiscoveries
    /\ discoveries' = discoveries + 1
    /\ \E screened \in Screen, news \in NewsNames :
        LET universe == Joined(screened, news, Stocks)
        IN  /\ daily_bars' \in DailyHistory(Range(universe))
            /\ list' = Rotated(Joined(list, universe, Stocks))
    /\ WhileListed
    /\ UNCHANGED <<firstPass, stale, minute_bars, ranges, minute, lastPass, mishaps>>

\* inject_symbol, from the dashboard
InjectSymbol(s) ==
    /\ s \notin Range(list) /\ Len(list) < MaxUniverse
    /\ list' = Append(list, s)
    /\ WhileListed
    /\ UNCHANGED <<firstPass, stale, minute_bars, daily_bars, ranges, minute, lastPass,
                   discoveries, mishaps>>

\* scan_gappers: bars of today, a close of an earlier day, a price in the band
Gappers == {s \in daily_bars \cap Band : minute_bars[s] # {}}

\* opening_range: the first OrbBars bars there are
OpeningRange(bars) == {m \in bars : Cardinality({n \in bars : n <= m}) <= OrbBars}

\* step_arm: the best MaxGappers of them, whose range is complete
StepArm ==
    /\ ~(StaleBlock /\ stale)
    /\ \E best \in SUBSET Gappers :
        /\ Cardinality(best) = Min({MaxGappers, Cardinality(Gappers)})
        /\ ranges' = {[symbol |-> s, bars |-> OpeningRange(minute_bars[s])] :
                        s \in {s \in best : Cardinality(minute_bars[s]) >= OrbBars}}
    /\ UNCHANGED <<list, firstPass, stale, minute_bars, daily_bars, minute, lastPass, since,
                   discoveries, mishaps>>

\* a pass runs at least once in Refresh minutes
MinutePasses ==
    /\ minute < LastMinute /\ (firstPass \/ minute < lastPass + Refresh)
    /\ minute' = minute + 1
    /\ UNCHANGED <<list, firstPass, stale, minute_bars, daily_bars, ranges, lastPass, since,
                   discoveries, mishaps>>

\* the tables stay, the process starts over
ProcessRestarts ==
    /\ "dies" \in mishaps /\ lastPass # 0
    /\ list' \in Watchlist
    /\ firstPass' = TRUE /\ stale' = FALSE /\ ranges' = {} /\ lastPass' = 0
    /\ since' = [s \in Stocks |-> 0]
    /\ UNCHANGED <<minute_bars, daily_bars, minute, discoveries, mishaps>>

Next ==
    \/ BootBackfill \/ StepIngest \/ StepDiscover \/ StepArm
    \/ MinutePasses \/ ProcessRestarts
    \/ \E s \in Stocks : InjectSymbol(s)

-----------------------------------------------------------------------------
(* Properties *)

\* Every variable has its type.
TypeOK ==
    /\ list \in Seq(Stocks) /\ IsInjective(list)
    /\ firstPass \in BOOLEAN /\ stale \in BOOLEAN
    /\ \A s \in Stocks : minute_bars[s] \subseteq Traded[s]
    /\ daily_bars \subseteq Stocks
    /\ minute \in Minutes /\ lastPass \in 0..minute
    /\ since \in [Stocks -> 0..LastMinute]

\* While every request is answered, a listed symbol has every bar from the open on if
\* the first pass of the process found it listed, and from Refresh minutes before its
\* own first pass if it joined later, whatever left the list, came back or restarted.
BarsWhole ==
    mishaps \cap {"no_bars", "no_upsert"} = {} =>
        \A s \in Stocks \cap Range(list) : since[s] # 0 =>
            {m \in Traded[s] : m >= since[s] /\ m < lastPass} \subseteq minute_bars[s]
=============================================================================

--------------------------- MODULE ShadowSetups ---------------------------
(***************************************************************************)
(* The shadow detectors of strategy/evaluation: setups that the research   *)
(* labeler finds on the session's bars and that are never traded.  They    *)
(* read the tape of SetupRules; their windows are further fields of K and  *)
(* their volumes those of the small bars.                                  *)
(***************************************************************************)
EXTENDS SetupRules

CONSTANTS
    Floors       \* the floors of volume and price: session, bar, traded, premarket, price

ShadowAssumption ==
    SetupAssumption
    /\ {"lookback", "green", "burst", "swing", "curl", "fast", "slow"} \subseteq DOMAIN K
    /\ K.curl >= 3 /\ K.swing >= 3      \* 21 and 40 (vwap_reclaim.py:102-105)

Signal(entry, stop, target) == {[entry |-> entry, stop |-> stop, target |-> target]}

\* the last established higher low beneath the final bar, else the lowest low
HigherLow(t) ==
    LET ups == {i \in 2 .. Len(t) - 1 : t[i].low > t[i - 1].low}
    IN  IF ups = {} THEN Low(t, 1, Len(t)) ELSE t[Max(ups)].low

\* the session's average price so far, in thousandths
Vwap(t) ==
    LET typical(bar) == bar.high + bar.low + bar.close
    IN  IF Volume(t) = 0 THEN (1000 * typical(Last(t))) \div 3
        ELSE (1000 * Total(t, LAMBDA bar : typical(bar) * bar.volume)) \div (3 * Volume(t))

\* 2 % under the average still holds it
HoldsVwap(t) == 100000 * Price(t) >= 98 * Vwap(t)

Ema(t, n) ==
    FoldLeft(LAMBDA ema, bar : (ema * (n - 1) + 2000 * bar.close) \div (n + 1),
             1000 * t[1].close, Tail(t))

\* the last bars: the gain over the window, green bars and higher highs among them
Velocity(t) == Share(Price(t) - t[Len(t) - K.window].close, t[Len(t) - K.window].close)
Recent(t) == Len(t) - K.lookback + 1 .. Len(t)
Green(t) == Cardinality({i \in Recent(t) : t[i].close > t[i].open})
Higher(t) == Cardinality({i \in Recent(t) : t[i].high > t[i - 1].high})
\* the last bar's volume against the mean of those before it, 0 when they had none
Burst(t) ==
    LET prior == Volume(SubSeq(t, Len(t) - K.burst, Len(t) - 1))
    IN  IF prior = 0 THEN 0 ELSE Share(Last(t).volume * K.burst, prior)

Enough(t) == Len(t) > Max({K.window, K.lookback, K.burst})

\* detect_momentum_ignition: a new session high above every earlier one
Ignition(t, ath) ==
    LET top == High(t, 1, Len(t))
        fires == /\ Enough(t)
                 /\ Last(t).high >= top /\ ath > 0 /\ top > ath
                 /\ Velocity(t) >= 80 /\ Green(t) >= K.green /\ Higher(t) >= K.green
                 /\ Burst(t) >= 3000 /\ Volume(t) >= Floors.session
    IN  IF fires THEN Signal(top, HigherLow(t), 0) ELSE {}

\* detect_leading_gainer_runner: a large run off the base, without the all-time high
Runner(t, previous) ==
    LET base == IF previous > 0 THEN previous ELSE t[1].open
        fires == /\ Enough(t)
                 /\ 100 * High(t, 1, Len(t)) >= 120 * base
                 /\ Velocity(t) >= 80 /\ Higher(t) >= K.green /\ Green(t) >= K.green - 1
                 /\ Burst(t) >= 1800 /\ Volume(t) >= Floors.session
                 /\ HoldsVwap(t)
    IN  IF fires THEN Signal(Price(t), HigherLow(t), 0) ELSE {}

\* a tag of a runner: the premarket took more than 70 % of the move
Exhausted(t, previous) ==
    LET base == IF previous > 0 THEN previous ELSE t[1].open
        premarket == In(t, "premarket")
        top == High(premarket, 1, Len(premarket))
        move == Larger(top, High(t, 1, Len(t))) - base
    IN  premarket # <<>> /\ move > 0 /\ 10 * (top - base) > 7 * move

\* detect_liquid_intraday_breakout: money traded, at the session high, above the average
Liquid(t) ==
    LET traded(bar) == bar.close * bar.volume
        late == {i \in Len(t) - K.lookback + 1 .. Len(t) : traded(t[i]) >= Floors.bar}
        fires == /\ Enough(t)
                 /\ Total(t, traded) >= Floors.traded
                 /\ 2 * Cardinality(late) > K.lookback
                 /\ Price(t) >= Floors.price
                 /\ 1000 * Price(t) >= 995 * High(t, 1, Len(t))
                 /\ HoldsVwap(t)
    IN  IF fires THEN Signal(Price(t), HigherLow(t), 0) ELSE {}

\* detect_premarket_setup: the same continuation, on the premarket bars alone
Premarket(t, previous) ==
    LET bars == In(t, "premarket")
        base == IF previous > 0 THEN previous ELSE bars[1].open
        fires == /\ Enough(bars)
                 /\ 100 * High(bars, 1, Len(bars)) >= 110 * base
                 /\ Volume(bars) >= Floors.premarket
                 /\ Price(bars) >= Floors.price
                 /\ Velocity(bars) >= 30
                 /\ 1000 * Price(bars) >= 995 * High(bars, 1, Len(bars))
                 /\ HoldsVwap(bars)
    IN  IF fires THEN Signal(Price(bars), HigherLow(bars), 0) ELSE {}

\* the latest bar's high is the first above those since the pullback's low, its
\* close is off that low and back at the average
Curls(t, low) ==
    /\ low < Len(t)
    /\ Last(t).high > High(t, low, Len(t) - 1)
    /\ Price(t) > t[low].close
    /\ 1000 * Price(t) >= Vwap(t)

\* detect_vwap_reclaim: bought below the leg's high, stopped at the pullback's low;
\* risk, in thousandths of the entry, is the least the stop may be away, two cents at
\* least (0 turns the gate off)
VwapReclaim(t, risk) ==
    LET n == Len(t)
        from == Larger(1, n - K.swing + 1)
        top == Min({i \in from .. n - 2 : t[i].high = High(t, from, n - 2)})
        high == t[top].high
        base == Low(t, from, top)
        low == Min({i \in top + 1 .. n : t[i].low = Low(t, top + 1, n)})
        pullback == t[low].low
        fires == /\ n >= K.curl
                 /\ 10 * (high - base) >= base
                 /\ 2 * pullback >= 2 * base + (high - base)
                 /\ Curls(t, low)
                 /\ 100 * Price(t) <= 98 * high
                 /\ Ema(t, K.fast) >= Ema(t, K.slow)
                 /\ 1000 * (Price(t) - pullback) >= risk * Price(t)
                 /\ risk = 0 \/ Price(t) - pullback >= 2
    IN  IF fires THEN Signal(Price(t), pullback, high) ELSE {}

\* find_vwap_pullback_entry: the first bar from a given one that dips to the
\* average and closes back over it, its close and its low; 0 when there is none
Reclaims(t, from) ==
    {i \in from .. Len(t) :
        LET vwap == Vwap(SubSeq(t, 1, i))
        IN  1000 * t[i].low <= vwap /\ vwap <= 1000 * t[i].close /\ t[i].low < t[i].close}
PullbackEntry(t, from) ==
    IF Reclaims(t, from) = {} THEN {}
    ELSE LET i == Min(Reclaims(t, from)) IN Signal(t[i].close, t[i].low, i)
-----------------------------------------------------------------------------
(* Properties *)

\* A reclaim, with the placeability gate on or off (labeler.py:392 takes it off),
\* has its stop below its entry and its entry below its target, wherever in the
\* session the pullback's low lies; the later entry at the average has its stop
\* below it too, and an ignition, entered at the session's high, is not stopped above
\* that.
ShadowsSound(t) ==
    /\ \A risk \in {0, 15} : \A s \in VwapReclaim(t, risk) :
           s.stop < s.entry /\ s.entry < s.target
    /\ \A s \in PullbackEntry(t, K.range + 1) : s.stop < s.entry
    /\ \A x \in Contexts : \A s \in Ignition(t, x.ath) : s.stop <= s.entry
=============================================================================

------------------------------ MODULE Labeler ------------------------------
(***************************************************************************)
(* What research makes of a session's bars: the setups of the labeler's    *)
(* five tracks and their outcomes (research/labeler.py), and the trades of *)
(* the backtest (strategy/backtest/engine.py).  All of it is computed from *)
(* the whole session after the fact, and must be what could have been      *)
(* known at the time.                                                      *)
(***************************************************************************)
EXTENDS ShadowSetups

LabelerAssumption ==
    ShadowAssumption
    /\ {"ahead", "warm", "room", "cooldown", "horizon", "budget", "scan", "every"}
            \subseteq DOMAIN K

Tracks == {"vwap_reclaim", "runner", "liquid", "premarket"}

-----------------------------------------------------------------------------
(* The shadow tracks: a detector slid over the session *)

\* the bars a track reads, and those it is scored on
TrackBars(track, t) ==
    CASE track = "premarket" -> In(t, "premarket")
      [] track = "runner"    -> t
      [] OTHER               -> In(t, "regular")
LabelBars(track, t) == In(t, IF track = "premarket" THEN "premarket" ELSE "regular")

\* the bars at which a track may fire: none in a session too short to be scored
Decisions(track, bars) ==
    LET room == IF track = "premarket" THEN K.warm + K.ahead ELSE K.room
    IN  IF Len(LabelBars(track, bars)) < room THEN {}
        ELSE {i \in K.warm .. Len(bars) : track = "runner" => bars[i].session = "regular"}

Detected(track, bars, x) ==
    CASE track = "vwap_reclaim" -> VwapReclaim(bars, 0)
      [] track = "runner"       -> Runner(bars, x.previous)
      [] track = "liquid"       -> Liquid(bars)
      [] track = "premarket"    -> Premarket(bars, x.previous)

\* What the detector finds at bar i, as setups: the stop below the entry, and a
\* premarket one leaves bars to score.
SetupsAt(track, bars, x, i) ==
    LET upto == SubSeq(bars, 1, i)
    IN  {[at |-> Len(LabelBars(track, upto)), entry |-> s.entry, stop |-> s.stop,
          spent |-> track = "runner" /\ Exhausted(upto, x.previous)] :
            s \in {s \in Detected(track, upto, x) :
                    /\ s.stop < s.entry
                    /\ track = "premarket" => Len(bars) - i >= K.ahead}}

\* A setup each time the detector starts to fire, a cooldown after the last.
Slide(acc, track, bars, x, i) ==
    LET new == IF ~acc.firing /\ i - acc.last >= K.cooldown THEN SetupsAt(track, bars, x, i)
               ELSE {}
    IN  [firing |-> Detected(track, SubSeq(bars, 1, i), x) # {},
         last   |-> IF new = {} THEN acc.last ELSE i,
         setups |-> acc.setups \cup new]

Fires(track, t, x) ==
    LET bars == TrackBars(track, t)
        slid[i \in 0 .. Len(bars)] ==
            IF i = 0 THEN [firing |-> FALSE, last |-> -K.cooldown, setups |-> {}]
            ELSE IF i \in Decisions(track, bars) THEN Slide(slid[i - 1], track, bars, x, i)
            ELSE slid[i - 1]
    IN  slid[Len(bars)].setups

\* mutant of OrbSetup: the features of the whole session
OrbSetupWhole(t, x) ==
    IF OpeningRange(t) = <<>> THEN {}
    ELSE {[at |-> K.range, entry |-> OpeningRange(t)[1], volume |-> RelativeVolume(t, x)]}

\* The opening range as a setup, with what was known when it was complete.
OrbSetup(t, x) ==
    LET range == OpeningRange(t)
        at == Min({i \in DOMAIN t : /\ t[i].session = "regular"
                                    /\ Len(In(SubSeq(t, 1, i), "regular")) = K.range})
        upto == SubSeq(t, 1, at)
    IN  IF range = <<>> \/ range[1] <= range[2] THEN {}
        ELSE {[at |-> at, entry |-> range[1], stop |-> range[2],
               gap |-> IF x.previous > 0
                       THEN Share(In(t, "regular")[1].open - x.previous, x.previous) ELSE 0,
               above |-> AboveVwap(upto), quality |-> DataQuality(upto),
               volume |-> RelativeVolume(upto, x)]}

-----------------------------------------------------------------------------
(* The outcome of a setup, from the bars after it *)

\* the bars after the setup and before the one that touches its stop
Before(bars, s) ==
    LET stopped == {i \in s.at + 1 .. Len(bars) : bars[i].low <= s.stop}
    IN  IF stopped = {} THEN s.at + 1 .. Len(bars) ELSE s.at + 1 .. Min(stopped) - 1

\* the pessimistic race: a bar that touches both counts as the stop
Reached(bars, s, r) ==
    \E i \in Before(bars, s) : bars[i].high >= s.entry + r * (s.entry - s.stop)

HeldVwap(bars, s) ==
    LET window == s.at + 1 .. Smaller(s.at + K.horizon, Len(bars))
    IN  /\ window # {}
        /\ \A i \in window : 1000 * bars[i].close >= Vwap(SubSeq(bars, 1, i))

\* the highest gain in a window, none when no bar is in it
Upside(bars, s) ==
    LET window == s.at + 1 .. Smaller(s.at + K.horizon, Len(bars))
    IN  IF window = {} THEN {} ELSE {Max({bars[i].high : i \in window}) - s.entry}

Outcome(bars, s) ==
    [one |-> Reached(bars, s, 1) \/ Reached(bars, s, 2),
     two |-> Reached(bars, s, 2),
     held |-> HeldVwap(bars, s),
     upside |-> Upside(bars, s),
     failed |-> /\ \E i \in s.at + 1 .. Len(bars) : bars[i].high > s.entry
                /\ \E i \in s.at + 1 .. Len(bars) : bars[i].low < s.stop,
     trend |-> 10 * (High(bars, 1, Len(bars)) - bars[1].open) >= 2 * bars[1].open]

Stopped(bars, s) == Before(bars, s) # s.at + 1 .. Len(bars)

-----------------------------------------------------------------------------
(* The backtest *)

\* shares for the risk; each limit a set, empty when it is not in force
PositionSize(entry, stop, budgets, values, shares) ==
    LET risk == Larger(entry - stop, stop - entry)
    IN  IF risk = 0 \/ entry <= 0 THEN 0
        ELSE Larger(0, Min({b \div risk : b \in budgets} \cup {v \div entry : v \in values}
                               \cup shares))

\* the bar that ends a trade entered at bar i under the default exits (a fixed stop
\* and target; ExitRules has the managed ones), the last when neither is touched
ExitBar(t, i, stop, target) ==
    LET ends == {j \in i + 1 .. Len(t) : t[j].low * 1000 <= stop \/ t[j].high * 1000 >= target}
    IN  IF ends = {} THEN Len(t) ELSE Min(ends)

\* mutant of Trades: the scan goes on while the trade is open
TradesOverlap(t, x) ==
    {[signal |-> i, entry |-> i + 1, exit |-> Len(t), price |-> 1000 * t[i + 1].open, stop |-> 0] :
        i \in {i \in K.scan .. Len(t) - 1 : Evaluate(SubSeq(t, 1, i), x, {}).status = "ready"}}

\* the trade on the setup of a signal at bar i, entered at the next bar's open
Trade(t, i, s) ==
    LET price == 1000 * t[i + 1].open
    IN  [signal |-> i, entry |-> i + 1, price |-> price, stop |-> s.stop,
         exit |-> ExitBar(t, i + 1, s.stop, price + 2 * (price - s.stop))]

\* evaluated every few bars: what a signal at bar i opens
Opened(t, x, i) ==
    LET signal == Evaluate(SubSeq(t, 1, i), x, {})
    IN  IF (i - 1) % K.every # 0 \/ signal.status # "ready" THEN {}
        ELSE {trd \in {Trade(t, i, s) : s \in signal.setups} :
                 /\ PositionSize(trd.price, trd.stop, {K.budget}, {}, {}) > 0
                 /\ trd.stop < trd.price}

\* The scan starts after the warm-up, ends before the last bar, and resumes after the
\* bar that ends a trade.
Trades(t, x) ==
    LET scan[i \in 0 .. Len(t)] ==
            IF i = 0 THEN [resume |-> K.scan, trades |-> {}]
            ELSE LET before == scan[i - 1]
                     new == IF i >= before.resume /\ i < Len(t) THEN Opened(t, x, i) ELSE {}
                 IN  [resume |-> Max({before.resume} \cup {trd.exit + 1 : trd \in new}),
                      trades |-> before.trades \cup new]
    IN  scan[Len(t)].trades

-----------------------------------------------------------------------------
(* Properties *)

\* What research says of a moment is what could have been known then: a setup
\* once found, with its entry, its stop and its features, is found again however
\* many bars follow (labeler.py:6-8 "No look-ahead"), its race to a multiple of
\* its risk is over once it is stopped, and a trade of the backtest that ended
\* before the last bar stays as it is: of every step.
TimeSplit ==
    \A x \in Contexts :
        /\ \A track \in Tracks : Fires(track, tape, x) \subseteq Fires(track, tape', x)
        /\ OrbSetup(tape, x) \subseteq OrbSetup(tape', x)
        /\ \A track \in Tracks : \A s \in Fires(track, tape, x) :
              LET old == Outcome(LabelBars(track, tape), s)
                  new == Outcome(LabelBars(track, tape'), s)
              IN  /\ old.two => old.one
                  /\ old.one => new.one
                  /\ Stopped(LabelBars(track, tape), s) => new.one = old.one
        /\ \A trd \in Trades(tape, x) : trd.exit < Len(tape) => trd \in Trades(tape', x)

\* The backtest holds one trade at a time, entered after its signal with the
\* stop below the entry (engine.py:158-159 "so trades never overlap").
OneTradeAtATime(t) ==
    \A x \in Contexts :
        /\ \A a \in Trades(t, x) : a.signal < a.entry /\ a.stop < a.price
        /\ \A a, b \in Trades(t, x) : a = b \/ a.exit < b.signal \/ b.exit < a.signal
=============================================================================

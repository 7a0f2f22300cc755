----------------------------- MODULE ExitRules -----------------------------
(***************************************************************************)
(* The exit rules of strategy/exits.py and the two ways they are used: the *)
(* backtest (simulate_exit) walks the bars once; the live manager calls    *)
(* manage_live on all bars since the entry after each new one, while the   *)
(* broker works the resting stop and target.                               *)
(*                                                                         *)
(* Prices are integers (ticks).  An R multiple is given in quarters, a     *)
(* percentage in hundredths, and a stop that would fall between two ticks  *)
(* is rounded down.  A share of the position is a percentage, so a profit  *)
(* is a price difference times a percentage.                               *)
(***************************************************************************)
EXTENDS Integers, Sequences, FiniteSets

CONSTANTS Entry, InitStop, Configs, Bars, MaxBars

\* Settings are numbers, and the part that is scaled out is not negative.
ConfigType(c) ==
    /\ {c.target, c.breakevenR, c.breakevenPct, c.trailPct, c.trailAfter, c.step,
        c.scaleR} \subseteq Int
    /\ c.scalePct \in Nat
    /\ c.firstRed \in BOOLEAN
    /\ IsFiniteSet(c.tiers)
    /\ \A t \in c.tiers : {t.gain, t.lock} \subseteq Int

ASSUME RulesAssumption ==
    /\ {Entry, InitStop, MaxBars} \subseteq Nat
    /\ 0 < InitStop /\ InitStop < Entry
    /\ \A c \in Configs : ConfigType(c)
    /\ \A b \in Bars :
          /\ {b.low, b.close, b.high} \subseteq Int
          /\ b.low <= b.close /\ b.close <= b.high /\ b.low > 0

Risk == Entry - InitStop
Max2(a, b) == IF a >= b THEN a ELSE b

VARIABLES
    cfg,    \* ExitConfig
    bars,   \* the bars since the entry
    live    \* the live trade: its resting stop, whether scaled out, how it ended

vars == <<cfg, bars, live>>

-----------------------------------------------------------------------------
(* The stop after a bar *)

\* Has the high-water mark reached q quarters of R?
Reached(high, q) == 4 * (high - Entry) >= q * Risk

\* What each rule asks of the stop, 0 when it asks nothing.
Breakeven(high) ==
    IF \/ cfg.breakevenR > 0 /\ Reached(high, cfg.breakevenR)
       \/ cfg.breakevenPct > 0 /\ 100 * high >= Entry * (100 + cfg.breakevenPct)
    THEN Entry ELSE 0
Trail(high, low) ==
    IF ~Reached(high, cfg.trailAfter) THEN 0
    ELSE CASE cfg.mode = "prior_low" -> low
           [] cfg.mode = "pct"       -> (high * (100 - cfg.trailPct)) \div 100
           [] OTHER                  -> 0
StepTrail(high) ==
    IF cfg.step > 0 /\ Reached(high, cfg.step)
    THEN LET steps == (4 * (high - Entry)) \div (cfg.step * Risk)
         IN  Entry + ((steps - 1) * cfg.step * Risk) \div 4
    ELSE 0
ProfitLock(high) ==
    LET met == {t \in cfg.tiers : 100 * (high - Entry) >= Entry * t.gain}
        locks == {(Entry * (100 + t.lock)) \div 100 : t \in met}
    IN  IF locks = {} THEN 0 ELSE CHOOSE l \in locks : \A k \in locks : k <= l

\* mutant of TrailStop: the stop follows the trail, also downwards
TrailFollows(stop, high, low) ==
    LET trail == Trail(high, low)
    IN  IF trail > 0 THEN trail ELSE Max2(stop, Breakeven(high))

\* _trail_stop: it only ever rises
TrailStop(stop, high, low) ==
    Max2(Max2(Max2(stop, Breakeven(high)), Trail(high, low)),
         Max2(StepTrail(high), ProfitLock(high)))

-----------------------------------------------------------------------------
(* simulate_exit *)

Start == [stop |-> InitStop, high |-> Entry, low |-> 0, left |-> 100,
          profit |-> 0, scaled |-> FALSE, out |-> "open"]

ScaleLevel == Entry + (cfg.scaleR * Risk) \div 4
Target == Entry + (cfg.target * Risk) \div 4

Close(t, price, out) ==
    [t EXCEPT !.profit = @ + t.left * (price - Entry), !.left = 0, !.out = out]

\* the reason of a stop (breakeven, trail, loss) is a matter of words
StopFill(t, b) == Close(t, t.stop, "stop")

\* min(scale_out_pct, remaining) at the scale level
Scaled(t, b) ==
    LET part == IF cfg.scalePct <= t.left THEN cfg.scalePct ELSE t.left
    IN  IF cfg.scaleR > 0 /\ ~t.scaled /\ b.high >= ScaleLevel
        THEN [t EXCEPT !.profit = @ + part * (ScaleLevel - Entry),
                       !.left = @ - part, !.scaled = TRUE,
                       !.out = IF t.left = part THEN "scale_out" ELSE "open"]
        ELSE t

\* one bar: the stop first, then scale-out, target, first red, and the ratchet
Walk1(before, b) ==
    LET high == Max2(before.high, b.high)
        t == Scaled([before EXCEPT !.high = high], b)
    IN  CASE before.out # "open"   -> before
          [] before.out = "open" /\ b.low <= before.stop ->
                StopFill([before EXCEPT !.high = high], b)
          [] OTHER ->
             CASE t.out # "open" -> t
               [] t.out = "open" /\ cfg.target > 0 /\ b.high >= Target ->
                    Close(t, Target, "target")
               [] t.out = "open" /\ ~(cfg.target > 0 /\ b.high >= Target)
                        /\ cfg.firstRed /\ t.low > 0 /\ b.close < t.low ->
                    Close(t, b.close, "first_red")
               [] OTHER -> [t EXCEPT !.stop = TrailStop(@, high, b.low), !.low = b.low]

Simulated ==
    LET walk[n \in 0..Len(bars)] ==
            IF n = 0 THEN Start ELSE Walk1(walk[n - 1], bars[n])
    IN  walk

\* the trade as it stands, or closed at the last bar when the session ends
Backtest == Simulated[Len(bars)]
SessionEnd ==
    IF Backtest.out = "open" /\ bars # <<>>
    THEN Close(Backtest, bars[Len(bars)].close, "session_end") ELSE Backtest

-----------------------------------------------------------------------------
(* manage_live *)

HighWater(bs) ==
    LET high[n \in 0..Len(bs)] ==
            IF n = 0 THEN Entry ELSE Max2(high[n - 1], bs[n].high)
    IN  high

\* the stop after each bar
StopAfter(bs) ==
    LET stop[n \in 0..Len(bs)] ==
            IF n = 0 THEN InitStop
            ELSE TrailStop(stop[n - 1], HighWater(bs)[n], bs[n].low)
    IN  stop

\* mutant of DesiredStop: the last bar is left for the next pass
DesiredLate(bs) == StopAfter(bs)[IF bs = <<>> THEN 0 ELSE Len(bs) - 1]

DesiredStop(bs) == StopAfter(bs)[Len(bs)]

ExitNow(bs) ==
    /\ cfg.firstRed
    /\ Len(bs) >= 2
    /\ bs[Len(bs)].close < bs[Len(bs) - 1].low
    /\ Reached(HighWater(bs)[Len(bs)], cfg.trailAfter)

ScaleNow(bs) ==
    /\ cfg.scaleR > 0
    /\ ~live.scaled
    /\ HighWater(bs)[Len(bs)] >= ScaleLevel

-----------------------------------------------------------------------------
(* The live trade: the broker's legs work within the bar, then manage runs *)

LegsWork(b) ==
    CASE b.low <= live.stop -> "stop"
      [] b.low > live.stop /\ cfg.target > 0 /\ b.high >= Target -> "target"
      [] OTHER -> "open"

\* the outcome of a pass of the exit manager over the bars bs
Managed(bs) ==
    LET want == DesiredStop(bs)
        price == bs[Len(bs)].close
    IN  CASE ExitNow(bs) -> [live EXCEPT !.out = "first_red"]
          [] ~ExitNow(bs) /\ want > live.stop /\ want >= price ->
                [live EXCEPT !.scaled = @ \/ ScaleNow(bs), !.out = "trail"]
          [] OTHER -> [live EXCEPT !.scaled = @ \/ ScaleNow(bs),
                                   !.stop = Max2(@, want)]

NewBar(b) ==
    /\ Len(bars) < MaxBars
    /\ live.out = "open" \/ Backtest.out = "open"
    /\ bars' = Append(bars, b)
    /\ live' = CASE live.out # "open" -> live
                 [] live.out = "open" /\ LegsWork(b) # "open" ->
                        [live EXCEPT !.out = LegsWork(b)]
                 [] OTHER -> Managed(Append(bars, b))
    /\ UNCHANGED cfg

Init ==
    /\ cfg \in Configs
    /\ bars = <<>>
    /\ live = [stop |-> InitStop, scaled |-> FALSE, out |-> "open"]

Next == \E b \in Bars : NewBar(b)

Spec == Init /\ [][Next]_vars

-----------------------------------------------------------------------------
(* Properties *)

\* The two users of the rules agree on the stop: while both trades are open, the
\* live stop, recomputed from all bars at every pass, is the one the backtest
\* ratcheted bar by bar.
StopsAgree ==
    live.out = "open" /\ Backtest.out = "open" => live.stop = Backtest.stop

\* A trade whose stop was raised to its entry, by one rule or another, before the
\* last bar ends without a loss, whichever rule ends it.
WinnersKept ==
    \A n \in 0..Len(bars) - 1 :
        Simulated[n].out = "open" /\ Simulated[n].stop >= Entry
            => SessionEnd.profit >= 0

\* No trade of the backtest loses more than its risk, and what was scaled out and
\* what was closed make up the whole position.
RiskBounded ==
    /\ SessionEnd.profit >= -100 * Risk
    /\ Backtest.left \in 0..100
    /\ Backtest.left = 0 <=> Backtest.out # "open"

\* A winner never ends below its entry once it was protected, and no trade loses
\* more than its risk.
ExitsBounded == WinnersKept /\ RiskBounded
=============================================================================

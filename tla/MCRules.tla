------------------------------ MODULE MCRules ------------------------------
(* Small instances of Rules for TLC: settings, bars and prices.                *)
EXTENDS Rules, TLC

-----------------------------------------------------------------------------
(* Exit rules: each alone and together *)

Off == [target |-> 8, breakevenR |-> 0, breakevenPct |-> 0, mode |-> "none",
        trailPct |-> 0, trailAfter |-> 4, step |-> 0, scaleR |-> 0,
        scalePct |-> 50, firstRed |-> FALSE, tiers |-> {}]

ExitConfigs == {
    [Off EXCEPT !.breakevenR = 2],
    [Off EXCEPT !.breakevenPct = 10, !.scaleR = 4],
    [Off EXCEPT !.mode = "prior_low", !.trailAfter = 2, !.target = 0],
    [Off EXCEPT !.mode = "pct", !.trailPct = 40, !.breakevenR = 2],
    [Off EXCEPT !.step = 1, !.target = 0],
    [Off EXCEPT !.tiers = {[gain |-> 10, lock |-> 0], [gain |-> 30, lock |-> 10]}],
    [Off EXCEPT !.mode = "prior_low", !.step = 2, !.scaleR = 2, !.scalePct = 100]}

FirstRed == {[r EXCEPT !.firstRed = TRUE] : r \in ExitConfigs}
AllRules == ExitConfigs \cup FirstRed

PricePoints == {5, 9, 10, 11, 12, 15}
SmallBars == {b \in [high : PricePoints, low : PricePoints, close : PricePoints] :
                b.low <= b.close /\ b.close <= b.high}

-----------------------------------------------------------------------------
(* Entry rules: bars on which each detector fires, in windows of a few bars *)

TapeBar(session, open, high, low, close, volume) ==
    [session |-> session, open |-> open, high |-> high, low |-> low, close |-> close,
     volume |-> volume, wait |-> 1]
SomeShapes == {
    TapeBar("regular", 100, 101, 99, 100, 3), TapeBar("regular", 100, 106, 100, 105, 6),
    TapeBar("regular", 109, 112, 108, 112, 9), TapeBar("regular", 108, 109, 107, 107, 1),
    TapeBar("regular", 112, 115, 112, 115, 1),
    TapeBar("premarket", 104, 105, 99, 101, 3), TapeBar("premarket", 104, 116, 104, 116, 4)}
SomeK == [leg |-> 1, flag |-> 3, few |-> 3, search |-> 4, reach |-> 2, run |-> 1, pullback |-> 2,
      first |-> 2, hod |-> 1, recent |-> 2, window |-> 1, fallback |-> 4, rest |-> 2,
      range |-> 2, full |-> 1, dead |-> 2, bars |-> 1, cutoff |-> 60, grace |-> 5,
      lookback |-> 2, green |-> 1, burst |-> 1, swing |-> 4, curl |-> 3, fast |-> 2,
      slow |-> 3, ahead |-> 1, warm |-> 3, room |-> 4, cooldown |-> 2, horizon |-> 2,
      budget |-> 100000, scan |-> 1, every |-> 1]
SomeSettings == {{}, {"opening_range_break"}}
SomeContexts == {[previous |-> 95, average |-> 3, minute |-> 65, catalyst |-> -1, ath |-> 105],
             [previous |-> 0, average |-> 0, minute |-> 66, catalyst |-> 500, ath |-> 100]}
SomeFloors == [session |-> 5, bar |-> 100, traded |-> 400, premarket |-> 3, price |-> 50]

\* the price of each minute at which an order of the journal may be filled
SomeTape == <<1, 3>>
=============================================================================

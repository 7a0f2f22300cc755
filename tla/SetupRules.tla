---------------------------- MODULE SetupRules ----------------------------
(***************************************************************************)
(* The entry rules: the setup detectors of strategy/evaluation/structure.py*)
(* and the score that makes a signal of them (setup_evaluator.py), applied *)
(* to a session's bars as they arrive.                                     *)
(*                                                                         *)
(* A price is an integer, a level (of a stop or a breakout, which the code *)
(* takes at 99.5 % of a price) a thousandth of one, and a quality or a     *)
(* score in thousandths, rounded down.  The detectors' window lengths are  *)
(* the fields of K, so that a short tape passes through every window.      *)
(***************************************************************************)
EXTENDS Recursions, SequencesExt

CONSTANTS
    Shapes,     \* the bars: open, high, low, close, volume, session, wait
    MaxTape,
    K,          \* the window lengths
    Settings,   \* STRATEGY_SETUPS: each a set of types, all when empty
    Contexts    \* previous close and average volume (0: unknown), minute, catalyst

Windows == {"leg", "flag", "few", "search", "reach", "run", "pullback", "first", "hod", "recent",
            "window", "fallback", "rest", "range", "full", "dead", "bars", "cutoff", "grace"}

SetupAssumption ==
    /\ MaxTape \in Nat
    /\ Shapes \subseteq [session : {"premarket", "regular"}, open : Nat, high : Nat, low : Nat \ {0},
                         close : Nat, volume : Nat, wait : Nat]
    /\ \A b \in Shapes : /\ b.low <= b.open /\ b.open <= b.high
                         /\ b.low <= b.close /\ b.close <= b.high
    /\ Windows \subseteq DOMAIN K /\ K \in [DOMAIN K -> Nat \ {0}]
    /\ K.window < K.fallback       \* 25 and 40 (structure.py:427-428)

VARIABLE tape

Smaller(a, b) == IF a <= b THEN a ELSE b
Larger(a, b) == IF a >= b THEN a ELSE b
Share(part, whole) == (1000 * part) \div whole
Unit(quality) == Smaller(1000, Larger(0, quality))

High(t, i, j) == Max({t[k].high : k \in i..j})
Low(t, i, j) == Min({t[k].low : k \in i..j})
Price(t) == t[Len(t)].close
Total(t, F(_)) == FoldLeft(LAMBDA sum, bar : sum + F(bar), 0, t)
Volume(t) == Total(t, LAMBDA bar : bar.volume)
In(t, session) == Kept(t, {bar \in Shapes : bar.session = session})

-----------------------------------------------------------------------------
(* The detectors: each gives the setup it finds, as a set of at most one *)

Setup(type, breakout, stop, quality) ==
    [type |-> type, breakout |-> breakout, stop |-> stop, quality |-> quality]

\* the ranges after the leg do not widen by more than a fifth
Calm(t, leg, j) ==
    \A i \in leg + 1 .. j :
        10 * (t[i].high - t[i].low) <= 12 * Min({t[k].high - t[k].low : k \in leg .. i - 1})

\* the bars whose close is 1.5 % over that of a leg ago
Legs(t) == {i \in K.leg + 1 .. Len(t) :
                1000 * (t[i].close - t[i - K.leg].close) >= 15 * t[i - K.leg].close}
FlagEnds(t, leg) == {j \in leg + 2 .. Smaller(leg + K.flag, Len(t) - 1) : Calm(t, leg, j)}
FlagQuality(t, leg, end) ==
    LET start == leg - K.leg
        depth == High(t, leg + 1, end) - Low(t, leg + 1, end)
    IN  (4 * Smaller(1000, 10 * Share(t[leg].close - t[start].close, t[start].close))
         + 3 * Larger(0, 1000 - Share(end - leg, K.flag))
         + 3 * Larger(0, 1000 - 20 * Share(depth, t[leg].close))) \div 10

BullFlag(t) ==
    LET leg == Min(Legs(t))
        end == Max(FlagEnds(t, leg))
    IN  IF Legs(t) = {} \/ FlagEnds(t, leg) = {} THEN {}
        ELSE {Setup("bull_flag", 1000 * High(t, leg + 1, end),
                    Smaller(1000 * Low(t, leg - K.leg, end), 995 * t[leg + 1].low),
                    FlagQuality(t, leg, end))}

Searched(t) == Smaller(Len(t), K.search)
FirstTop(t) == Min({i \in 1 .. Searched(t) : t[i].high = High(t, 1, Searched(t))})
PullbackQuality(depth, bars) ==
    (6 * Larger(0, 1000 - (10 * depth) \div 6) + 4 * Larger(0, 1000 - Share(bars, K.pullback)))
        \div 10

FirstPullback(t) ==
    LET top == FirstTop(t)
        reach == Smaller(top - 1, K.reach)
        base == Low(t, top - reach, top - 1)
        run == t[top].high - base
        end == Smaller(top + K.pullback, Len(t))
        low == Low(t, top + 1, end)
        depth == Share(t[top].high - low, run)
        found == /\ Len(t) >= K.few /\ Searched(t) >= K.few
                 /\ reach >= K.run
                 /\ 100 * run >= 3 * base
                 /\ top < Len(t)
                 /\ depth <= 600
    IN  IF found THEN {Setup("first_pullback", 1000 * t[top].high, 995 * low,
                             PullbackQuality(depth, end - top))}
        ELSE {}

GapAndGo(t) ==
    LET premarket == In(t, "premarket")
        base == Low(t, 1, Smaller(K.few, Len(t)))
        gap == Share(t[1].open - base, base)
        level == IF premarket # <<>> THEN High(premarket, 1, Len(premarket))
                 ELSE High(t, 1, Smaller(K.first, Len(t)))
        trend == IF Price(t) > t[Smaller(Len(t), K.first + 1)].close THEN 1000 ELSE 500
        quality == 6 * Smaller(1000, (100 * gap) \div 15) + 4 * trend
        found == Len(t) >= K.few /\ gap >= 20 /\ 100 * Price(t) >= 97 * level
        low == Low(t, 1, Smaller(K.reach, Len(t)))
    IN  IF found THEN {Setup("gap_and_go", 1000 * level, 995 * low, quality \div 10)} ELSE {}

HodBreak(t) ==
    LET hod == High(t, 1, Len(t))
        at == Min({i \in DOMAIN t : t[i].high = hod})
        touches == {i \in Larger(1, at - K.reach) .. at - 1 : 1000 * t[i].high > 995 * hod}
        found == /\ Len(t) >= K.hod
                 /\ at > Len(t) - K.recent
                 /\ 100 * Price(t) >= 99 * hod
        low == Low(t, Larger(1, Len(t) - K.recent + 1), Len(t))
        quality == (7 * Smaller(1000, Share(Cardinality(touches), 3)) + 3000) \div 10
    IN  IF found THEN {Setup("hod_break", 1000 * hod, 995 * low, quality)} ELSE {}

\* mutant of Placeable: any pullback will do
PlaceableAnyway(low, top) == low > 0

\* the stop half a percent under the pullback is below the leg's top
Placeable(low, top) == 995 * low < 1000 * top

\* the steepest window of the first ones
Gain(t, i) == Share(t[i + K.window].close - t[i].close, t[i].close)
Starts(t) == 1 .. Smaller(Len(t), Larger(K.fallback, K.search)) - K.window
Steepest(t) == Min({i \in Starts(t) : \A j \in Starts(t) : Gain(t, j) <= Gain(t, i)})
RestQuality(gain, depth, apart) ==
    (45 * Smaller(1000, 20 * gain) + 35 * Larger(0, 1000 - (100 * depth) \div 65)
     + 20 * Larger(0, 1000 - apart)) \div 100

\* the pullback of a window's run
Rested(t, best) ==
    LET top == High(t, best, best + K.window)
        run == top - Low(t, best, best + K.window)
        from == Smaller(best + K.window + 1, Len(t))
        low == Low(t, from, Smaller(from + K.rest, Len(t)))
        depth == Share(Larger(0, top - low), run)
        apart == Share(Larger(top - Price(t), Price(t) - top), top)
        found == /\ Len(t) >= Larger(K.fallback, K.window + K.few)
                 /\ Gain(t, best) >= 15
                 /\ run > 0
                 /\ from < Len(t)
                 /\ depth <= 650
                 /\ Placeable(low, top)
    IN  IF found THEN {Setup("continuation_fallback", 1000 * top, 995 * low,
                             RestQuality(Gain(t, best), depth, apart))}
        ELSE {}

Continuation(t) == Rested(t, Steepest(t))

\* what the trigger book arms at: the first regular bars, once they are all there
OpeningRange(t) ==
    LET regular == In(t, "regular")
    IN  IF Len(regular) < K.range THEN <<>>
        ELSE <<High(regular, 1, K.range), Low(regular, 1, K.range)>>

OrbBreak(t) ==
    LET regular == In(t, "regular")
        top == High(regular, 1, K.range)
        low == Low(regular, 1, K.range)
        past == Share(Price(regular) - top, top)
        busy == 10 * K.range * regular[Len(regular)].volume
                    >= 8 * Volume(SubSeq(regular, 1, K.range))
        quality == 400 + Smaller(400, 20 * past) + IF busy THEN 200 ELSE 0
        found == /\ Len(regular) > K.range
                 /\ 1000 * (top - low) >= 4 * top
                 /\ Price(regular) >= top
    IN  IF found THEN {Setup("opening_range_break", 1000 * top, 995 * low, Unit(quality))}
        ELSE {}

\* The opening-range break before any other; else the best of the rest.
Classify(t, enabled) ==
    LET fits(s) == s.quality >= 200 /\ (enabled = {} \/ s.type \in enabled)
        early == {s \in OrbBreak(t) : fits(s)}
        rest == {s \in BullFlag(t) \cup FirstPullback(t) \cup GapAndGo(t)
                        \cup HodBreak(t) \cup Continuation(t) : fits(s)}
        order == <<"bull_flag", "first_pullback", "gap_and_go", "hod_break",
                   "continuation_fallback">>
        place(s) == CHOOSE i \in DOMAIN order : order[i] = s.type
        best == {s \in rest : \A r \in rest : r.quality <= s.quality}
    IN  IF early # {} THEN early
        ELSE {s \in best : \A r \in best : place(s) <= place(r)}

-----------------------------------------------------------------------------
(* The evaluation *)

\* the session's average price, in thousandths: Price >= VWAP without a division
AboveVwap(t) ==
    LET typical(bar) == bar.high + bar.low + bar.close
    IN  IF Volume(t) = 0 THEN 3 * Price(t) >= typical(t[Len(t)])
        ELSE 3 * Price(t) * Volume(t) >= Total(t, LAMBDA bar : typical(bar) * bar.volume)

\* 0 to 1000: coverage, less what gaps, dead minutes and bad prices cost
DataQuality(t) ==
    LET gap == \E i \in 2 .. Len(t) : t[i].wait > 10
        dead == \E i \in K.dead .. Len(t) :
                    \A k \in i - K.dead + 1 .. i : t[k].volume <= 0
        bad == \E i \in DOMAIN t : t[i].high < t[i].low \/ t[i].close <= 0 \/ t[i].open <= 0
    IN  Unit(Share(Len(t), Larger(Len(t), K.full))
             - (IF gap THEN 200 ELSE 0) - (IF dead THEN 200 ELSE 0)
             - (IF bad THEN 300 ELSE 0))

OpeningStrength(t) ==
    LET regular == In(t, "regular")
        body == regular[1].close - regular[1].open
    IN  IF regular = <<>> THEN "neutral"
        ELSE CASE 100 * body >= 2 * regular[1].open  -> "strong"
               [] -100 * body >= 2 * regular[1].open -> "weak"
               [] OTHER                              -> "neutral"

RelativeVolume(t, x) ==
    IF x.average > 0 THEN Share(Volume(t), x.average)
    ELSE IF Volume(t) = 0 THEN 1000
         ELSE Larger(1000, Share(t[Len(t)].volume * Len(t), Volume(t)))

GapPct(t, x) ==
    LET base == IF x.previous > 0 THEN x.previous ELSE t[1].open
    IN  Share(t[1].open - base, base)
ChangePct(t) == Share(Price(t) - t[1].open, t[1].open)

Weights == [sufficient_data |-> 10, gap |-> 15, relative_volume |-> 15,
            impulse |-> 15, pullback |-> 10, pullback_volume |-> 10,
            vwap |-> 10, candle_quality |-> 5, breakout |-> 10]

Passed(t, x, found) ==
    LET holds == [sufficient_data |-> DataQuality(t) >= 600,
                  gap |-> GapPct(t, x) >= 50 \/ ChangePct(t) >= 50,
                  relative_volume |-> RelativeVolume(t, x) >= 2500,
                  impulse |-> found # {},
                  pullback |-> found # {},
                  pullback_volume |-> \E s \in found : s.quality >= 300,
                  vwap |-> AboveVwap(t),
                  candle_quality |-> OpeningStrength(t) # "weak",
                  breakout |-> \E s \in found : 1000000 * Price(t) >= 995 * s.breakout]
    IN  {name \in DOMAIN holds : holds[name]}

Score(passed) ==
    (100 * MapThenSumSet(LAMBDA name : Weights[name], passed))
        \div MapThenSumSet(LAMBDA name : Weights[name], DOMAIN Weights)

SetupQuality(t, x, found) ==
    LET gap == Unit(10 * Larger(GapPct(t, x), ChangePct(t)))
        volume == Unit(RelativeVolume(t, x) \div 5)
        structure == IF found = {} THEN 0 ELSE Unit((CHOOSE s \in found : TRUE).quality)
        vwap == IF AboveVwap(t) THEN 1000 ELSE 0
        opening == CASE OpeningStrength(t) = "strong" -> 1000
                     [] OpeningStrength(t) = "weak" -> 0
                     [] OTHER -> 500
        rest == 10 * vwap + 5 * opening + 10 * DataQuality(t)
    IN  (IF x.catalyst < 0 THEN 20 * gap + 25 * volume + 30 * structure + rest
         ELSE 15 * gap + 20 * volume + 25 * structure + rest + 15 * Unit(x.catalyst))
            \div 100

Grade(quality) ==
    IF quality >= 800 THEN "A" ELSE IF quality >= 650 THEN "B"
    ELSE IF quality >= 500 THEN "C" ELSE "F"

\* check_entry_cutoff: new entries until K.cutoff, and K.grace minutes more
BeforeCutoff(minute) == minute < K.cutoff \/ minute - K.cutoff <= K.grace

Evaluate(t, x, enabled) ==
    IF Len(t) < K.bars THEN [status |-> "blocked", score |-> 0, setups |-> {}, grade |-> "F"]
    ELSE LET found == Classify(t, enabled)
             score == Score(Passed(t, x, found))
         IN  [status |-> IF score >= 60 /\ found # {}
                         THEN IF BeforeCutoff(x.minute) THEN "ready" ELSE "late"
                         ELSE "blocked",
              score |-> score,
              setups |-> found,
              grade |-> Grade(SetupQuality(t, x, found))]

-----------------------------------------------------------------------------
Init == tape = <<>>

\* the session's next closed bar; the premarket comes before the regular hours
NextBar(bar) ==
    /\ Len(tape) < MaxTape
    /\ bar.session = "premarket" => In(tape, "regular") = <<>>
    /\ tape' = Append(tape, bar)

Next == \E bar \in Shapes : NextBar(bar)

Spec == Init /\ [][Next]_tape
-----------------------------------------------------------------------------
(* Properties *)

\* A signal (ready, or late) has a setup of an enabled type, scored 60 % or
\* more, whose stop is below its entry and whose quality is at most 1.  A first
\* pullback after the last bar searched for its top is the one exception: the
\* price may by then have gapped above the top (structure.py:225-233).
SetupsSound(t) ==
    \A enabled \in Settings, x \in Contexts :
        LET result == Evaluate(t, x, enabled)
        IN  /\ result.status # "blocked" => result.score >= 60 /\ result.setups # {}
            /\ \A s \in result.setups :
                  /\ enabled # {} => s.type \in enabled
                  /\ \/ s.stop < s.breakout /\ s.quality \in 200 .. 1000
                     \/ s.type = "first_pullback" /\ Len(t) > K.search

\* Once the opening range is complete no later bar moves it, and a break of it
\* is signalled at the level, and with the stop, that the trigger book arms
\* from the same range: of every step (structure.py:541 "Shares one definition").
RangeAgreed ==
    /\ OpeningRange(tape) # <<>> => OpeningRange(tape') = OpeningRange(tape)
    /\ \A s \in OrbBreak(tape') : <<s.breakout, s.stop>> =
           <<1000 * OpeningRange(tape')[1], 995 * OpeningRange(tape')[2]>>
=============================================================================

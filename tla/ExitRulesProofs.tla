-------------------------- MODULE ExitRulesProofs --------------------------
(***************************************************************************)
(* What the exit rules promise on every sequence of bars and with every    *)
(* setting.  The rules are recursive functions of the bars; induction is   *)
(* done over sets of naturals (LeastNatural), which the provers can use.   *)
(***************************************************************************)
EXTENDS ExitRules, FiniteSetTheorems, SequenceTheorems, WellFoundedInduction, TLAPS

-----------------------------------------------------------------------------
(* Induction *)

\* Every set of naturals that is not empty has a least element.
LEMMA LeastNatural ==
    ASSUME NEW T \in SUBSET Nat, T # {}
    PROVE  \E x \in T : \A y \in T : x <= y
<1> DEFINE R == OpToRel(<, Nat)
<1>1. IsWellFoundedOn(R, Nat)
  BY NatLessThanWellFounded
<1>2. \A i, j \in Nat : i < j => <<i, j>> \in R
  BY DEF OpToRel
<1> HIDE DEF R
<1>3. PICK x \in T : \A y \in T : ~ (<<y, x>> \in R)
  BY <1>1, WFMin
<1>4. ASSUME NEW y \in T PROVE x <= y
  <2>1. x \in Nat /\ y \in Nat
    OBVIOUS
  <2>2. ~ (y < x)
    BY <2>1, <1>2, <1>3, Zenon
  <2> QED BY <2>1, <2>2
<1> QED BY <1>4

\* What holds of m, and of n + 1 when it holds of n, holds from m on to k.
LEMMA Induct ==
    ASSUME NEW m \in Nat, NEW k \in Nat, NEW S,
           m \in S, \A n \in m..k : n \in S /\ n < k => n + 1 \in S
    PROVE  m..k \subseteq S
<1> SUFFICES ASSUME NEW x \in m..k, x \notin S PROVE FALSE
  OBVIOUS
<1> DEFINE T == {n \in m..k : n \notin S}
<1>1. T \in SUBSET Nat /\ T # {}
  OBVIOUS
<1>2. PICK l \in T : \A y \in T : l <= y
  BY <1>1, LeastNatural
<1>3. l \in m..k /\ l \notin S /\ l # m
  OBVIOUS
<1>4. l - 1 \in m..k /\ l - 1 < l /\ l - 1 < k /\ (l - 1) + 1 = l
  BY <1>3
<1>5. l - 1 \in S
  BY <1>2, <1>4
<1> QED BY <1>3, <1>4, <1>5

-----------------------------------------------------------------------------
(* Recursive functions *)

\* f begins with start and goes on by step.
IsWalk(f, N, V, start, step) ==
    /\ f \in [0..N -> V] /\ f[0] = start
    /\ \A n \in 1..N : f[n] = step[<<f[n - 1], n>>]

\* A function on 0..N that is given by its start and by a step exists.
LEMMA Recursion ==
    ASSUME NEW N \in Nat, NEW V, NEW start, start \in V,
           NEW step, step \in [V \X (1..N) -> V]
    PROVE  \E f : IsWalk(f, N, V, start, step)
<1> DEFINE Walks(f, k) ==
             f[0] = start /\ \A n \in 1..k : f[n] = step[<<f[n - 1], n>>]
           S == {k \in 0..N : \E f \in [0..k -> V] : Walks(f, k)}
<1>1. 0 \in S
  <2> DEFINE f == [n \in 0..0 |-> start]
  <2>1. f \in [0..0 -> V] /\ Walks(f, 0) /\ 0 \in 0..N
    OBVIOUS
  <2> HIDE DEF f, Walks
  <2> QED BY <2>1
<1>2. ASSUME NEW k \in 0..N, k \in S, k < N PROVE k + 1 \in S
  <2>1. PICK f \in [0..k -> V] : Walks(f, k)
    BY <1>2
  <2> DEFINE g == [n \in 0..(k + 1) |-> IF n <= k THEN f[n] ELSE step[<<f[k], k + 1>>]]
  <2>2. g \in [0..(k + 1) -> V] /\ k + 1 \in 0..N
    BY <1>2
  <2>3. ASSUME NEW n \in 1..(k + 1) PROVE g[n] = step[<<g[n - 1], n>>]
    <3>1. g[n - 1] = f[n - 1]
      OBVIOUS
    <3>2. CASE n \in 1..k
      BY <2>1, <3>1, <3>2
    <3>3. CASE n = k + 1
      <4>1. g[k + 1] = step[<<f[k], k + 1>>] /\ n - 1 = k
        BY <3>3
      <4> HIDE DEF g
      <4> QED BY <3>1, <3>3, <4>1
    <3> QED BY <3>2, <3>3
  <2>4. Walks(g, k + 1)
    <3>1. g[0] = start
      BY <2>1
    <3> HIDE DEF g
    <3> QED BY <2>3, <3>1
  <2> HIDE DEF g, Walks
  <2> QED BY <2>2, <2>4
<1> HIDE DEF S
<1>3. 0..N \subseteq S
  BY <1>1, <1>2, Induct
<1>4. N \in S
  BY <1>3
<1> QED BY <1>4 DEF S, IsWalk

\* ... and there is only one.
LEMMA Alike ==
    ASSUME NEW N \in Nat, NEW f, NEW g, f[0] = g[0],
           \A n \in 1..N : f[n - 1] = g[n - 1] => f[n] = g[n]
    PROVE  \A n \in 0..N : f[n] = g[n]
<1> DEFINE S == {n \in 0..N : f[n] = g[n]}
<1>1. 0 \in S
  OBVIOUS
<1>2. ASSUME NEW n \in 0..N, n \in S, n < N PROVE n + 1 \in S
  <2>1. n + 1 \in 1..N /\ (n + 1) - 1 = n
    BY <1>2
  <2> QED BY <1>2, <2>1
<1> HIDE DEF S
<1>3. 0..N \subseteq S
  BY <1>1, <1>2, Induct
<1> QED BY <1>3 DEF S

-----------------------------------------------------------------------------
(* The stop of a bar *)

\* Division by a positive number gives a number.
LEMMA DivInt == \A a, b \in Int : b > 0 => a \div b \in Int
  OBVIOUS

\* A set of integers that is finite and not empty has a greatest element.
LEMMA Greatest ==
    ASSUME NEW T \in SUBSET Int, IsFiniteSet(T), T # {}
    PROVE  \E x \in T : \A y \in T : y <= x
<1> DEFINE c == Cardinality(T)
<1>1. c \in Nat /\ c # 0 /\ ExistsBijection(1..c, T)
  BY FS_CardinalityType, FS_EmptySet
<1>2. PICK b \in Bijection(1..c, T) : TRUE
  BY <1>1 DEF ExistsBijection
<1>3. b \in [1..c -> T] /\ \A t \in T : \E n \in 1..c : b[n] = t
  BY <1>2 DEF Bijection, Surjection
<1> HIDE DEF c
<1>8. \A n \in 1..c : b[n] \in Int
  BY <1>3
<1> DEFINE S == {k \in 1..c : \E x \in 1..k : \A y \in 1..k : b[y] <= b[x]}
<1>4. 1 \in S
  <2>1. 1 \in 1..c /\ 1 \in 1..1 /\ \A y \in 1..1 : y = 1
    BY <1>1
  <2>2. b[1] <= b[1]
    BY <1>8, <2>1
  <2> QED BY <2>1, <2>2
<1>5. ASSUME NEW k \in 1..c, k \in S, k < c PROVE k + 1 \in S
  <2>1. PICK x \in 1..k : \A y \in 1..k : b[y] <= b[x]
    BY <1>5
  <2>2. k + 1 \in 1..c /\ b[k + 1] \in Int /\ \A y \in 1..k : b[y] \in Int
    BY <1>1, <1>5, <1>8
  <2>5. b[x] \in Int
    BY <2>1, <2>2
  <2>3. CASE b[k + 1] <= b[x]
    <3>1. x \in 1..(k + 1) /\ \A y \in 1..(k + 1) : b[y] <= b[x]
      BY <2>1, <2>3
    <3> QED BY <2>2, <3>1
  <2>4. CASE b[x] <= b[k + 1]
    <3>1. k + 1 \in 1..(k + 1) /\ \A y \in 1..(k + 1) : b[y] <= b[k + 1]
      BY <2>1, <2>2, <2>4
    <3> QED BY <2>2, <3>1
  <2>6. b[k + 1] <= b[x] \/ b[x] <= b[k + 1]
    BY <2>2, <2>5
  <2> QED BY <2>3, <2>4, <2>6
<1>6. c \in S
  <2> HIDE DEF S
  <2>1. 1..c \subseteq S
    BY <1>1, <1>4, <1>5, Induct
  <2> QED BY <1>1, <2>1
<1>7. PICK x \in 1..c : \A y \in 1..c : b[y] <= b[x]
  BY <1>6
<1> QED BY <1>3, <1>7

\* The lock of the tiers that were reached is the highest of theirs, or 0.
LEMMA LockType ==
    ASSUME NEW high \in Int, ConfigType(cfg)
    PROVE  ProfitLock(high) \in Int
<1> DEFINE met == {t \in cfg.tiers : 100 * (high - Entry) >= Entry * t.gain}
           locks == {(Entry * (100 + t.lock)) \div 100 : t \in met}
<1>1. locks \in SUBSET Int
  BY RulesAssumption, DivInt DEF ConfigType
<1>2. IsFiniteSet(met)
  BY FS_Subset DEF ConfigType
<1> HIDE DEF met
<1>3. IsFiniteSet(locks)
  <2> DEFINE f == [t \in met |-> (Entry * (100 + t.lock)) \div 100]
  <2>1. f \in Surjection(met, locks)
    BY DEF Surjection
  <2> QED BY <1>2, <2>1, FS_Surjection
<1> HIDE DEF locks
<1>4. locks # {} => (CHOOSE l \in locks : \A k \in locks : k <= l) \in locks
  BY <1>1, <1>3, Greatest
<1>5. ProfitLock(high) =
        IF locks = {} THEN 0 ELSE CHOOSE l \in locks : \A k \in locks : k <= l
  BY Zenon DEF ProfitLock, locks, met
<1>6. CASE locks = {}
  BY <1>5, <1>6
<1>7. CASE locks # {}
  <2>1. ProfitLock(high) \in locks
    BY <1>4, <1>5, <1>7
  <2> QED BY <1>1, <2>1
<1> QED BY <1>6, <1>7

\* The stop after a bar is a price, and it only ever rises.
LEMMA StopRises ==
    ASSUME NEW stop \in Int, NEW high \in Int, NEW low \in Int, ConfigType(cfg)
    PROVE  TrailStop(stop, high, low) \in Int /\ TrailStop(stop, high, low) >= stop
<1>0. Entry \in Int /\ Risk \in Int /\ Risk > 0
  BY RulesAssumption DEF Risk
<1>1. Breakeven(high) \in Int
  BY <1>0 DEF Breakeven
<1>2. Trail(high, low) \in Int
  BY <1>0 DEF Trail, ConfigType
<1>3. StepTrail(high) \in Int
  <2>1. CASE cfg.step > 0
    <3> DEFINE d == cfg.step * Risk
               steps == (4 * (high - Entry)) \div d
    <3>1. cfg.step \in Int
      BY DEF ConfigType
    <3>2. d \in Int /\ d > 0
      BY <1>0, <2>1, <3>1
    <3>3. steps \in Int
      <4> HIDE DEF d
      <4> QED BY <1>0, <3>2, DivInt
    <3>4. (steps - 1) * cfg.step * Risk \in Int
      <4> HIDE DEF steps
      <4> QED BY <1>0, <3>1, <3>3
    <3>5. Entry + ((steps - 1) * cfg.step * Risk) \div 4 \in Int
      BY <1>0, <3>4, DivInt
    <3> QED BY <3>5 DEF StepTrail
  <2>2. CASE ~(cfg.step > 0)
    BY <2>2 DEF StepTrail
  <2> QED BY <2>1, <2>2
<1>4. ProfitLock(high) \in Int
  BY LockType
<1> QED BY <1>1, <1>2, <1>3, <1>4 DEF TrailStop, Max2

-----------------------------------------------------------------------------
(* One bar of the backtest *)

TradeType ==
    [stop : Int, high : Int, low : Int, left : 0..100, profit : Int, scaled : BOOLEAN,
     out : {"open", "stop", "scale_out", "target", "first_red", "session_end"}]

\* A trade that is open has shares left, a stop no lower than it was at first, and what
\* it sold so far it sold at a profit; one that is over lost at most its risk.
Bounded(t) ==
    /\ t \in TradeType
    /\ t.stop >= InitStop
    /\ t.left = 0 <=> t.out # "open"
    /\ t.out = "open" => t.profit >= 0
    /\ t.profit >= -100 * Risk

\* What is sold at a price of at least the entry is sold at a profit, and at the first
\* stop or above at a loss of at most the risk.
LEMMA SoldAt ==
    ASSUME NEW left \in 0..100, NEW price \in Int
    PROVE  /\ left * (price - Entry) \in Int
           /\ price >= Entry => left * (price - Entry) >= 0
           /\ price >= InitStop => left * (price - Entry) >= -100 * Risk
<1>1. Entry \in Int /\ InitStop \in Int /\ Risk \in Int /\ Risk > 0
  BY RulesAssumption DEF Risk
<1>2. price >= InitStop => price - Entry >= -Risk
  BY <1>1 DEF Risk
<1>3. \A d \in Int : d >= 0 => left * d >= 0
  OBVIOUS
<1>4. \A d, r \in Int : r > 0 /\ d >= -r => left * d >= -100 * r
  <2> SUFFICES ASSUME NEW d \in Int, NEW r \in Int, r > 0, d >= -r PROVE left * d >= -100 * r
    OBVIOUS
  <2>1. left * (d + r) >= 0 /\ (100 - left) * r >= 0
    BY <1>3
  <2>2. left * (d + r) = left * d + left * r /\ (100 - left) * r = 100 * r - left * r
    OBVIOUS
  <2> QED BY <2>1, <2>2
<1> QED BY <1>1, <1>2, <1>3, <1>4

\* The scale-out level and the target are above the entry.
LEMMA Levels ==
    ASSUME ConfigType(cfg)
    PROVE  /\ ScaleLevel \in Int /\ (cfg.scaleR > 0 => ScaleLevel >= Entry)
           /\ Target \in Int /\ (cfg.target > 0 => Target >= Entry)
<1>1. Entry \in Int /\ Risk \in Int /\ Risk > 0
  BY RulesAssumption DEF Risk
<1>2. \A r \in Int : /\ Entry + (r * Risk) \div 4 \in Int
                     /\ r > 0 => Entry + (r * Risk) \div 4 >= Entry
  <2> SUFFICES ASSUME NEW r \in Int
               PROVE  /\ Entry + (r * Risk) \div 4 \in Int
                      /\ r > 0 => Entry + (r * Risk) \div 4 >= Entry
    OBVIOUS
  <2>1. r * Risk \in Int /\ (r > 0 => r * Risk >= 0)
    BY <1>1
  <2>2. \A x \in Int : x \div 4 \in Int /\ (x >= 0 => x \div 4 >= 0)
    OBVIOUS
  <2>3. (r * Risk) \div 4 \in Int /\ (r > 0 => (r * Risk) \div 4 >= 0)
    BY <2>1, <2>2
  <2> QED BY <1>1, <2>3
<1> QED BY <1>2 DEF ScaleLevel, Target, ConfigType

\* Scaling out sells a part at a profit.
LEMMA ScaledBounded ==
    ASSUME ConfigType(cfg), NEW t, Bounded(t), t.out = "open", NEW b \in Bars
    PROVE  /\ Bounded(Scaled(t, b))
           /\ Scaled(t, b).profit >= t.profit
           /\ Scaled(t, b).out \in {"open", "scale_out"}
           /\ Scaled(t, b).stop = t.stop /\ Scaled(t, b).high = t.high
           /\ Scaled(t, b).low = t.low
<1> DEFINE part == IF cfg.scalePct <= t.left THEN cfg.scalePct ELSE t.left
<1>1. part \in 0..100 /\ part <= t.left
  BY DEF ConfigType, Bounded, TradeType
<1> HIDE DEF part
<1>2. CASE cfg.scaleR > 0 /\ ~t.scaled /\ b.high >= ScaleLevel
  <2>1. part * (ScaleLevel - Entry) \in Int /\ part * (ScaleLevel - Entry) >= 0
    BY <1>1, <1>2, Levels, SoldAt
  <2> DEFINE gain == part * (ScaleLevel - Entry)
             r == [t EXCEPT !.profit = @ + gain, !.left = @ - part, !.scaled = TRUE,
                            !.out = IF t.left = part THEN "scale_out" ELSE "open"]
  <2>2. Scaled(t, b) = r
    BY <1>2 DEF Scaled, part
  <2>3. gain \in Int /\ gain >= 0
    BY <2>1
  <2> HIDE DEF gain
  <2>4. /\ r.stop = t.stop /\ r.high = t.high /\ r.low = t.low /\ r.profit = t.profit + gain
        /\ r.left = t.left - part /\ r.out = (IF t.left = part THEN "scale_out" ELSE "open")
    BY DEF Bounded, TradeType
  <2>5. r \in TradeType
    <3>1. t \in TradeType /\ t.left - part \in 0..100 /\ t.profit + gain \in Int
      BY <1>1, <2>3 DEF Bounded, TradeType
    <3>2. r = [t EXCEPT !.profit = t.profit + gain, !.left = t.left - part, !.scaled = TRUE,
                        !.out = IF t.left = part THEN "scale_out" ELSE "open"]
      OBVIOUS
    <3> HIDE DEF r
    <3> QED BY <3>1, <3>2 DEF TradeType
  <2> HIDE DEF r
  <2>6. t.left \in Int /\ t.profit \in Int /\ part \in Int /\ Risk \in Int
    BY <1>1, RulesAssumption DEF Bounded, TradeType, Risk
  <2> QED BY <1>1, <2>2, <2>3, <2>4, <2>5, <2>6 DEF Bounded
<1>3. CASE ~(cfg.scaleR > 0 /\ ~t.scaled /\ b.high >= ScaleLevel)
  <2>1. Scaled(t, b) = t
    BY <1>3 DEF Scaled
  <2> QED BY <2>1 DEF Bounded, TradeType
<1> QED BY <1>2, <1>3

\* Closing a bounded trade that is open at a price of at least the first stop.
LEMMA CloseBounded ==
    ASSUME NEW t, Bounded(t), t.out = "open", NEW price \in Int, price >= InitStop,
           NEW out \in {"stop", "target", "first_red", "session_end"}
    PROVE  /\ Bounded(Close(t, price, out))
           /\ price >= Entry => Close(t, price, out).profit >= 0
           /\ Close(t, price, out).out = out
<1> DEFINE gain == t.left * (price - Entry)
           r == [t EXCEPT !.profit = t.profit + gain, !.left = 0, !.out = out]
<1>1. t \in TradeType /\ t.left \in 0..100 /\ t.profit \in Int /\ t.profit >= 0
  BY DEF Bounded, TradeType
<1>2. /\ gain \in Int /\ (price >= Entry => gain >= 0) /\ gain >= -100 * Risk
  BY <1>1, SoldAt
<1>3. Close(t, price, out) = r
  BY DEF Close
<1> HIDE DEF gain
<1>4. t.profit + gain \in Int
  BY <1>1, <1>2
<1>5. /\ r \in TradeType /\ r.profit = t.profit + gain /\ r.left = 0 /\ r.out = out
      /\ r.stop = t.stop
  <2>1. r \in TradeType
    <3>1. \A p \in Int, l \in 0..100 : [t EXCEPT !.profit = p, !.left = l, !.out = out] \in TradeType
      BY <1>1 DEF TradeType
    <3>2. 0 \in 0..100
      OBVIOUS
    <3> QED BY <1>4, <3>1, <3>2
  <2>2. r.profit = t.profit + gain /\ r.left = 0 /\ r.out = out /\ r.stop = t.stop
    BY <1>1 DEF TradeType
  <2> QED BY <2>1, <2>2
<1> HIDE DEF r
<1>6. Risk \in Int
  BY RulesAssumption DEF Risk
<1> QED BY <1>1, <1>2, <1>3, <1>5, <1>6 DEF Bounded

\* What a bar does to a trade that is open: it ends it, or leaves it open with its low
\* above the stop, and the stop where the rules put it.
BarDone(t, b, r) ==
    \/ r.out # "open"
    \/ /\ b.low > t.stop
       /\ r.high = Max2(t.high, b.high) /\ r.low = b.low
       /\ r.stop = TrailStop(t.stop, r.high, b.low) /\ r.stop >= t.stop

\* It keeps the trade within its bounds, and a trade with its stop at the entry loses nothing.
LEMMA BarBounded ==
    ASSUME ConfigType(cfg), NEW t, Bounded(t), t.out = "open", NEW b \in Bars
    PROVE  /\ Bounded(Walk1(t, b))
           /\ BarDone(t, b, Walk1(t, b))
           /\ t.stop >= Entry => Walk1(t, b).profit >= 0
<1> DEFINE high == Max2(t.high, b.high)
           u == [t EXCEPT !.high = high]
           v == Scaled(u, b)
           w == Walk1(t, b)
<1>0. /\ b.low \in Int /\ b.close \in Int /\ b.high \in Int
      /\ b.low <= b.close /\ b.close <= b.high
      /\ Entry \in Int /\ InitStop \in Int /\ Risk \in Int /\ InitStop < Entry
  BY RulesAssumption DEF Risk
<1>1. /\ t \in TradeType /\ t.stop \in Int /\ t.high \in Int /\ t.low \in Int
      /\ t.stop >= InitStop
  BY DEF Bounded, TradeType
<1>2. high \in Int
  BY <1>0, <1>1 DEF Max2
<1>3. /\ u \in TradeType /\ u.stop = t.stop /\ u.left = t.left /\ u.profit = t.profit
      /\ u.out = t.out /\ u.high = high /\ u.low = t.low
  <2> HIDE DEF high
  <2> QED BY <1>1, <1>2 DEF TradeType
<1>4. Bounded(u) /\ u.out = "open"
  <2> HIDE DEF u
  <2> QED BY <1>3 DEF Bounded
<1>5. /\ Bounded(v) /\ v.out \in {"open", "scale_out"} /\ v.profit >= u.profit
      /\ v.stop = t.stop /\ v.high = high /\ v.low = t.low
  <2> HIDE DEF u
  <2> QED BY <1>3, <1>4, ScaledBounded
<1>6. CASE b.low <= t.stop
  <2>1. w = Close(u, t.stop, "stop")
    BY <1>3, <1>6 DEF Walk1, StopFill
  <2> HIDE DEF u, w
  <2>2. Bounded(w) /\ w.out = "stop" /\ (t.stop >= Entry => w.profit >= 0)
    BY <1>1, <1>4, <2>1, CloseBounded
  <2> QED BY <2>2 DEF w, BarDone
<1>7. CASE ~(b.low <= t.stop)
  <2>0. b.low > t.stop /\ b.close > t.stop
    BY <1>0, <1>1, <1>7
  <2>p. v.profit >= 0
    <3> HIDE DEF u, v
    <3> QED BY <1>3, <1>4, <1>5 DEF Bounded, TradeType
  <2>1. w = CASE v.out # "open" -> v
              [] v.out = "open" /\ cfg.target > 0 /\ b.high >= Target ->
                    Close(v, Target, "target")
              [] v.out = "open" /\ ~(cfg.target > 0 /\ b.high >= Target)
                    /\ cfg.firstRed /\ v.low > 0 /\ b.close < v.low ->
                    Close(v, b.close, "first_red")
              [] OTHER -> [v EXCEPT !.stop = TrailStop(@, high, b.low), !.low = b.low]
    BY <1>7 DEF Walk1
  <2> HIDE DEF u, v, w, high
  <2>2. CASE v.out # "open"
    <3>1. w = v
      BY <2>1, <2>2
    <3> QED BY <1>5, <2>2, <2>p, <3>1 DEF BarDone, w
  <2>3. CASE v.out = "open" /\ cfg.target > 0 /\ b.high >= Target
    <3>1. w = Close(v, Target, "target")
      BY <2>1, <2>3
    <3>2. Target \in Int /\ Target >= Entry
      BY <2>3, Levels
    <3>3. Bounded(w) /\ w.out = "target" /\ w.profit >= 0
      BY <1>0, <1>5, <2>3, <3>1, <3>2, CloseBounded
    <3> QED BY <3>3 DEF BarDone, w
  <2>4. CASE v.out = "open" /\ ~(cfg.target > 0 /\ b.high >= Target)
                /\ cfg.firstRed /\ v.low > 0 /\ b.close < v.low
    <3>1. w = Close(v, b.close, "first_red")
      BY <2>1, <2>4
    <3>2. b.close >= InitStop /\ (t.stop >= Entry => b.close >= Entry)
      BY <1>0, <1>1, <2>0
    <3>3. Bounded(w) /\ w.out = "first_red" /\ (t.stop >= Entry => w.profit >= 0)
      BY <1>0, <1>5, <2>4, <3>1, <3>2, CloseBounded
    <3> QED BY <3>3 DEF BarDone, w
  <2>5. CASE /\ v.out = "open" /\ ~(cfg.target > 0 /\ b.high >= Target)
             /\ ~(cfg.firstRed /\ v.low > 0 /\ b.close < v.low)
    <3> DEFINE stop == TrailStop(t.stop, high, b.low)
    <3>1. stop \in Int /\ stop >= t.stop
      BY <1>0, <1>1, <1>2, StopRises
    <3>2. w = [v EXCEPT !.stop = stop, !.low = b.low]
      BY <1>5, <2>1, <2>5
    <3>3. v \in TradeType
      BY <1>5 DEF Bounded
    <3> HIDE DEF stop
    <3>4. /\ w \in TradeType /\ w.stop = stop /\ w.low = b.low /\ w.high = v.high
          /\ w.left = v.left /\ w.profit = v.profit /\ w.out = v.out
      BY <1>0, <3>1, <3>2, <3>3 DEF TradeType
    <3>5. w.stop >= InitStop
      BY <1>0, <1>1, <3>1, <3>4
    <3>6. Bounded(w)
      BY <1>5, <3>4, <3>5 DEF Bounded
    <3>7. BarDone(t, b, w)
      BY <1>5, <2>0, <3>1, <3>4 DEF BarDone, stop, high
    <3> QED BY <2>p, <3>4, <3>6, <3>7 DEF w
  <2> QED BY <1>5, <2>2, <2>3, <2>4, <2>5
<1> QED BY <1>6, <1>7

-----------------------------------------------------------------------------
(* The whole backtest *)

LiveType == [stop : Int, scaled : BOOLEAN,
             out : {"open", "stop", "target", "first_red", "trail"}]

TypeInv == cfg \in Configs /\ bars \in Seq(Bars) /\ live \in LiveType

Trades == {t \in TradeType : Bounded(t)}

\* A bar leaves a trade that is over as it is.
LEMMA OverStays ==
    ASSUME NEW t, NEW b, t.out # "open" PROVE Walk1(t, b) = t
  BY DEF Walk1

\* The trade starts bounded.
LEMMA StartBounded == Start \in Trades /\ Start.out = "open" /\ Start.profit = 0
<1>1. Entry \in Int /\ InitStop \in Int /\ Risk \in Int /\ Risk > 0 /\ 100 \in 0..100
  BY RulesAssumption DEF Risk
<1>2. Start \in TradeType
  BY <1>1 DEF Start, TradeType
<1>3. /\ Start.stop = InitStop /\ Start.left = 100 /\ Start.out = "open" /\ Start.profit = 0
  BY DEF Start
<1> QED BY <1>1, <1>2, <1>3 DEF Trades, Bounded

\* The backtest walks the bars one at a time, and its trade is bounded after each.
LEMMA SimulatedSteps ==
    ASSUME TypeInv
    PROVE  /\ Len(bars) \in Nat /\ ConfigType(cfg)
           /\ \A n \in 1..Len(bars) : bars[n] \in Bars
           /\ \A n \in 0..Len(bars) : Simulated[n] \in Trades
           /\ Simulated[0] = Start
           /\ \A n \in 1..Len(bars) : Simulated[n] = Walk1(Simulated[n - 1], bars[n])
<1> DEFINE N == Len(bars)
           step == [p \in Trades \X (1..N) |-> Walk1(p[1], bars[p[2]])]
<1>1. N \in Nat /\ ConfigType(cfg) /\ \A n \in 1..N : bars[n] \in Bars
  BY RulesAssumption DEF TypeInv
<1>2. ASSUME NEW t \in Trades, NEW n \in 1..N PROVE Walk1(t, bars[n]) \in Trades
  <2>1. CASE t.out = "open"
    BY <1>1, <2>1, BarBounded DEF Trades, Bounded
  <2>2. CASE t.out # "open"
    BY <2>2, OverStays
  <2> QED BY <2>1, <2>2
<1>3. step \in [Trades \X (1..N) -> Trades]
  BY <1>2
<1>4. \A t \in Trades, n \in 1..N : step[<<t, n>>] = Walk1(t, bars[n])
  OBVIOUS
<1> HIDE DEF step
<1>5. PICK f : IsWalk(f, N, Trades, Start, step)
  <2>1. N \in Nat /\ Start \in Trades
    BY <1>1, StartBounded
  <2> HIDE DEF N
  <2> QED BY <1>3, <2>1, Recursion
<1>w. /\ f \in [0..N -> Trades] /\ f[0] = Start
      /\ \A n \in 1..N : f[n] = step[<<f[n - 1], n>>]
  BY <1>5 DEF IsWalk
<1>6. f = [n \in 0..N |-> IF n = 0 THEN Start ELSE Walk1(f[n - 1], bars[n])]
  <2>1. ASSUME NEW n \in 1..N PROVE f[n] = Walk1(f[n - 1], bars[n])
    <3>1. n - 1 \in 0..N
      BY <1>1
    <3> QED BY <1>4, <1>w, <3>1
  <2>2. \A n \in 0..N : f[n] = IF n = 0 THEN Start ELSE Walk1(f[n - 1], bars[n])
    BY <1>1, <1>w, <2>1
  <2> QED BY <1>w, <2>2
<1>7. Simulated = [n \in 0..N |-> IF n = 0 THEN Start ELSE Walk1(Simulated[n - 1], bars[n])]
  BY <1>6, Zenon DEF Simulated
<1>8. \A n \in 1..N : Simulated[n] = Walk1(Simulated[n - 1], bars[n])
  BY <1>1, <1>7
<1>9. Simulated[0] = Start
  BY <1>1, <1>7
<1>10. \A n \in 0..N : Simulated[n] \in Trades
  <2> DEFINE S == {n \in 0..N : Simulated[n] \in Trades}
  <2>1. 0 \in S
    BY <1>1, <1>9, StartBounded
  <2>2. ASSUME NEW n \in 0..N, n \in S, n < N PROVE n + 1 \in S
    <3>1. n + 1 \in 1..N /\ (n + 1) - 1 = n
      BY <1>1, <2>2
    <3> QED BY <1>2, <1>8, <2>2, <3>1
  <2> HIDE DEF S
  <2>3. 0..N \subseteq S
    BY <1>1, <2>1, <2>2, Induct
  <2> QED BY <2>3 DEF S
<1> QED BY <1>1, <1>8, <1>9, <1>10

\* The session ends with the trade as it stands, closed at the last bar when it is open.
LEMMA SessionEnds ==
    ASSUME TypeInv
    PROVE  /\ Bounded(Backtest) /\ Bounded(SessionEnd)
           /\ Backtest.out # "open" => SessionEnd = Backtest
           /\ Backtest.out = "open" /\ Len(bars) # 0
                 /\ Simulated[Len(bars) - 1].stop >= Entry => SessionEnd.profit >= 0
<1> DEFINE N == Len(bars)
<1>1. /\ N \in Nat /\ \A n \in 0..N : Bounded(Simulated[n])
      /\ Backtest = Simulated[N]
  BY SimulatedSteps DEF Trades, Backtest
<1>2. Bounded(Backtest)
  BY <1>1
<1>3. CASE Backtest.out # "open" \/ bars = <<>>
  <2>1. SessionEnd = Backtest
    BY <1>3 DEF SessionEnd
  <2>2. bars = <<>> => N = 0
    OBVIOUS
  <2> QED BY <1>2, <1>3, <2>1, <2>2
<1>4. CASE Backtest.out = "open" /\ bars # <<>>
  <2>1. SessionEnd = Close(Backtest, bars[N].close, "session_end")
    BY <1>4 DEF SessionEnd
  <2>2. N # 0 /\ N \in 1..N /\ N - 1 \in 0..N
    BY <1>1, <1>4, EmptySeq DEF TypeInv
  <2>3. /\ Backtest = Walk1(Simulated[N - 1], bars[N]) /\ bars[N] \in Bars
        /\ ConfigType(cfg) /\ Bounded(Simulated[N - 1])
    BY <1>1, <2>2, SimulatedSteps
  <2>4. Simulated[N - 1].out = "open"
    BY <1>4, <2>3, OverStays
  <2>5. bars[N].low > Simulated[N - 1].stop
    BY <1>4, <2>3, <2>4, BarBounded DEF BarDone
  <2>6. /\ bars[N].close \in Int /\ bars[N].close >= InitStop
        /\ Simulated[N - 1].stop >= Entry => bars[N].close >= Entry
    <3>1. /\ bars[N].low \in Int /\ bars[N].close \in Int /\ bars[N].low <= bars[N].close
          /\ Entry \in Int /\ InitStop \in Int
      BY <2>3, RulesAssumption
    <3>2. Simulated[N - 1].stop \in Int /\ Simulated[N - 1].stop >= InitStop
      BY <2>3 DEF Bounded, TradeType
    <3> QED BY <2>5, <3>1, <3>2
  <2> QED BY <1>2, <1>4, <2>1, <2>6, CloseBounded
<1> QED BY <1>3, <1>4

\* A trade that was protected after bar n ends without a loss.
LEMMA ProtectedEnds ==
    ASSUME TypeInv, NEW n \in 0..(Len(bars) - 1),
           Simulated[n].out = "open", Simulated[n].stop >= Entry
    PROVE  SessionEnd.profit >= 0
<1> DEFINE N == Len(bars)
           S == {m \in n..N : /\ Simulated[m].profit >= 0
                              /\ Simulated[m].out = "open" => Simulated[m].stop >= Entry}
<1>0. /\ N \in Nat /\ ConfigType(cfg) /\ n \in Nat /\ n \in 0..N /\ N # 0 /\ n \in n..N
      /\ \A m \in 0..N : Bounded(Simulated[m]) /\ Simulated[m] \in TradeType
      /\ \A m \in 1..N : bars[m] \in Bars
  BY SimulatedSteps DEF Trades
<1>1. n \in S
  BY <1>0 DEF Bounded
<1>2. ASSUME NEW m \in n..N, m \in S, m < N PROVE m + 1 \in S
  <2>1. m + 1 \in 1..N /\ m + 1 \in n..N /\ (m + 1) - 1 = m /\ m \in 0..N
    BY <1>0, <1>2
  <2>2. Simulated[m + 1] = Walk1(Simulated[m], bars[m + 1])
    BY <2>1, SimulatedSteps
  <2>3. CASE Simulated[m].out # "open"
    BY <1>2, <2>1, <2>2, <2>3, OverStays
  <2>4. CASE Simulated[m].out = "open"
    <3>1. Simulated[m].stop >= Entry
      BY <1>2, <2>4
    <3>2. /\ Simulated[m + 1].profit >= 0
          /\ BarDone(Simulated[m], bars[m + 1], Simulated[m + 1])
      BY <1>0, <2>1, <2>2, <2>4, <3>1, BarBounded
    <3>3. Simulated[m + 1].out = "open" => Simulated[m + 1].stop >= Simulated[m].stop
      BY <3>2 DEF BarDone
    <3>4. Simulated[m].stop \in Int /\ Simulated[m + 1].stop \in Int /\ Entry \in Int
      <4>1. m + 1 \in 0..N /\ Entry \in Int
        BY <1>0, <2>1, RulesAssumption
      <4> QED BY <1>0, <2>1, <4>1 DEF TradeType
    <3> QED BY <2>1, <3>1, <3>2, <3>3, <3>4
  <2> QED BY <2>3, <2>4
<1> HIDE DEF S
<1>3. n..N \subseteq S
  BY <1>0, <1>1, <1>2, Induct
<1>4. N \in S /\ N - 1 \in S
  BY <1>0, <1>3
<1>5. CASE Backtest.out # "open"
  BY <1>4, <1>5, SessionEnds DEF S, Backtest
<1>6. CASE Backtest.out = "open"
  <2>1. Simulated[N - 1].out = "open"
    <3>1. N \in 1..N
      BY <1>0
    <3>2. Simulated[N] = Walk1(Simulated[N - 1], bars[N])
      BY <3>1, SimulatedSteps
    <3> QED BY <1>6, <3>2, OverStays DEF Backtest
  <2>2. Simulated[N - 1].stop >= Entry
    BY <1>4, <2>1 DEF S
  <2> QED BY <1>0, <1>6, <2>2, SessionEnds
<1> QED BY <1>5, <1>6

\* A trade that was protected after bar n ends without a loss, and no trade loses more
\* than its risk.
LEMMA BacktestBounded == TypeInv => ExitsBounded
<1> SUFFICES ASSUME TypeInv PROVE ExitsBounded
  OBVIOUS
<1>1. WinnersKept
  BY ProtectedEnds DEF WinnersKept
<1>2. RiskBounded
  BY SessionEnds DEF RiskBounded, Bounded, TradeType
<1> QED BY <1>1, <1>2 DEF ExitsBounded

-----------------------------------------------------------------------------
(* The live stop *)

\* The high-water mark is taken one bar at a time.
LEMMA HighSteps ==
    ASSUME NEW bs \in Seq(Bars)
    PROVE  /\ HighWater(bs)[0] = Entry
           /\ \A n \in 1..Len(bs) :
                 HighWater(bs)[n] = Max2(HighWater(bs)[n - 1], bs[n].high)
           /\ \A n \in 0..Len(bs) : HighWater(bs)[n] \in Int
<1> DEFINE N == Len(bs)
           step == [p \in Int \X (1..N) |-> Max2(p[1], bs[p[2]].high)]
<1>1. N \in Nat /\ Entry \in Int /\ \A n \in 1..N : bs[n].high \in Int
  BY RulesAssumption
<1>2. step \in [Int \X (1..N) -> Int]
  BY <1>1 DEF Max2
<1>3. \A t \in Int, n \in 1..N : step[<<t, n>>] = Max2(t, bs[n].high)
  OBVIOUS
<1> HIDE DEF step
<1>4. PICK f : IsWalk(f, N, Int, Entry, step)
  <2> HIDE DEF N
  <2> QED BY <1>1, <1>2, Recursion
<1>w. /\ f \in [0..N -> Int] /\ f[0] = Entry
      /\ \A n \in 1..N : f[n] = step[<<f[n - 1], n>>]
  BY <1>4 DEF IsWalk
<1>5. f = [n \in 0..N |-> IF n = 0 THEN Entry ELSE Max2(f[n - 1], bs[n].high)]
  <2>1. ASSUME NEW n \in 1..N PROVE f[n] = Max2(f[n - 1], bs[n].high)
    <3>1. n - 1 \in 0..N
      BY <1>1
    <3> QED BY <1>3, <1>w, <3>1
  <2>2. \A n \in 0..N : f[n] = IF n = 0 THEN Entry ELSE Max2(f[n - 1], bs[n].high)
    BY <1>1, <1>w, <2>1
  <2> QED BY <1>w, <2>2
<1>6. HighWater(bs) =
        [n \in 0..N |-> IF n = 0 THEN Entry ELSE Max2(HighWater(bs)[n - 1], bs[n].high)]
  BY <1>5, Zenon DEF HighWater
<1>7. HighWater(bs)[0] = Entry
  BY <1>1, <1>6
<1>8. \A n \in 1..N : HighWater(bs)[n] = Max2(HighWater(bs)[n - 1], bs[n].high)
  BY <1>1, <1>6
<1>9. \A n \in 0..N : HighWater(bs)[n] = f[n]
  <2>1. \A n \in 1..N : f[n] = Max2(f[n - 1], bs[n].high)
    <3>1. \A n \in 1..N : n - 1 \in 0..N
      BY <1>1
    <3> QED BY <1>3, <1>w, <3>1
  <2>2. \A n \in 1..N : HighWater(bs)[n - 1] = f[n - 1] => HighWater(bs)[n] = f[n]
    BY <1>8, <2>1
  <2>5. PICK p, q : p = HighWater(bs) /\ q = f
    OBVIOUS
  <2>6. p[0] = q[0] /\ \A n \in 1..N : p[n - 1] = q[n - 1] => p[n] = q[n]
    BY <1>7, <1>w, <2>2, <2>5
  <2>7. \A n \in 0..N : p[n] = q[n]
    <3> HIDE DEF N
    <3> QED BY <1>1, <2>6, Alike
  <2> QED BY <2>5, <2>7
<1> QED BY <1>w, <1>7, <1>8, <1>9

\* So is the desired stop.
LEMMA DesiredSteps ==
    ASSUME ConfigType(cfg), NEW bs \in Seq(Bars)
    PROVE  /\ StopAfter(bs)[0] = InitStop
           /\ \A n \in 1..Len(bs) :
                 StopAfter(bs)[n] = TrailStop(StopAfter(bs)[n - 1], HighWater(bs)[n], bs[n].low)
           /\ \A n \in 0..Len(bs) : StopAfter(bs)[n] \in Int
<1> DEFINE N == Len(bs)
           H(n) == HighWater(bs)[n]
           step == [p \in Int \X (1..N) |-> TrailStop(p[1], H(p[2]), bs[p[2]].low)]
<1>1. /\ N \in Nat /\ InitStop \in Int /\ \A n \in 1..N : bs[n].low \in Int
      /\ \A n \in 1..N : H(n) \in Int
  BY RulesAssumption, HighSteps
<1> HIDE DEF H
<1>2. step \in [Int \X (1..N) -> Int]
  BY <1>1, StopRises
<1>3. \A t \in Int, n \in 1..N : step[<<t, n>>] = TrailStop(t, H(n), bs[n].low)
  OBVIOUS
<1> HIDE DEF step
<1>4. PICK f : IsWalk(f, N, Int, InitStop, step)
  <2> HIDE DEF N
  <2> QED BY <1>1, <1>2, Recursion
<1>w. /\ f \in [0..N -> Int] /\ f[0] = InitStop
      /\ \A n \in 1..N : f[n] = step[<<f[n - 1], n>>]
  BY <1>4 DEF IsWalk
<1>5. f = [n \in 0..N |-> IF n = 0 THEN InitStop ELSE TrailStop(f[n - 1], H(n), bs[n].low)]
  <2>1. ASSUME NEW n \in 1..N PROVE f[n] = TrailStop(f[n - 1], H(n), bs[n].low)
    <3>1. n - 1 \in 0..N
      BY <1>1
    <3> QED BY <1>3, <1>w, <3>1
  <2>2. \A n \in 0..N :
          f[n] = IF n = 0 THEN InitStop ELSE TrailStop(f[n - 1], H(n), bs[n].low)
    BY <1>1, <1>w, <2>1
  <2> QED BY <1>w, <2>2
<1>6. StopAfter(bs) =
        [n \in 0..N |-> IF n = 0 THEN InitStop
                        ELSE TrailStop(StopAfter(bs)[n - 1], H(n), bs[n].low)]
  BY <1>5, Zenon DEF StopAfter, H
<1>7. StopAfter(bs)[0] = InitStop
  BY <1>1, <1>6
<1>8. \A n \in 1..N : StopAfter(bs)[n] = TrailStop(StopAfter(bs)[n - 1], H(n), bs[n].low)
  BY <1>1, <1>6
<1>9. \A n \in 0..N : StopAfter(bs)[n] = f[n]
  <2>1. \A n \in 1..N : f[n] = TrailStop(f[n - 1], H(n), bs[n].low)
    <3>1. \A n \in 1..N : n - 1 \in 0..N
      BY <1>1
    <3> QED BY <1>3, <1>w, <3>1
  <2>2. \A n \in 1..N : StopAfter(bs)[n - 1] = f[n - 1] => StopAfter(bs)[n] = f[n]
    BY <1>8, <2>1
  <2>5. PICK p, q : p = StopAfter(bs) /\ q = f
    OBVIOUS
  <2>6. p[0] = q[0] /\ \A n \in 1..N : p[n - 1] = q[n - 1] => p[n] = q[n]
    BY <1>7, <1>w, <2>2, <2>5
  <2>7. \A n \in 0..N : p[n] = q[n]
    <3> HIDE DEF N
    <3> QED BY <1>1, <2>6, Alike
  <2> QED BY <2>5, <2>7
<1> QED BY <1>w, <1>7, <1>8, <1>9 DEF H

\* The next bar's high-water mark and stop are those of the bars before it and of the bar.
LEMMA DesiredGrows ==
    ASSUME ConfigType(cfg), NEW bs \in Seq(Bars), NEW b \in Bars, NEW cs, cs = Append(bs, b)
    PROVE  /\ HighWater(cs)[Len(cs)] = Max2(HighWater(bs)[Len(bs)], b.high)
           /\ DesiredStop(cs) = TrailStop(DesiredStop(bs), HighWater(cs)[Len(cs)], b.low)
           /\ DesiredStop(bs) \in Int /\ DesiredStop(cs) \in Int
           /\ DesiredStop(bs) <= DesiredStop(cs)
<1> DEFINE N == Len(bs)
<1>1. /\ cs \in Seq(Bars) /\ N \in Nat /\ Len(cs) = N + 1 /\ cs[N + 1] = b
      /\ \A n \in 1..N : cs[n] = bs[n]
  OBVIOUS
<1>2. /\ 1..N \subseteq 1..(N + 1) /\ N + 1 \in 1..(N + 1) /\ (N + 1) - 1 = N
      /\ N \in 0..N /\ N + 1 \in 0..(N + 1)
  BY <1>1
<1>3. \A n \in 0..N : HighWater(cs)[n] = HighWater(bs)[n]
  <2>1. \A n \in 1..N : HighWater(cs)[n - 1] = HighWater(bs)[n - 1]
                         => HighWater(cs)[n] = HighWater(bs)[n]
    BY <1>1, <1>2, HighSteps
  <2>2. HighWater(cs)[0] = HighWater(bs)[0]
    BY <1>1, HighSteps
  <2>5. PICK p, q : p = HighWater(cs) /\ q = HighWater(bs)
    OBVIOUS
  <2>6. p[0] = q[0] /\ \A n \in 1..N : p[n - 1] = q[n - 1] => p[n] = q[n]
    BY <2>2, <2>1, <2>5
  <2>7. \A n \in 0..N : p[n] = q[n]
    <3>1. N \in Nat
      BY <1>1
    <3> HIDE DEF N
    <3> QED BY <2>6, <3>1, Alike
  <2> QED BY <2>5, <2>7
<1>4. \A n \in 0..N : StopAfter(cs)[n] = StopAfter(bs)[n]
  <2>1. \A n \in 1..N : StopAfter(cs)[n - 1] = StopAfter(bs)[n - 1]
                         => StopAfter(cs)[n] = StopAfter(bs)[n]
    <3> SUFFICES ASSUME NEW n \in 1..N, StopAfter(cs)[n - 1] = StopAfter(bs)[n - 1]
                 PROVE  StopAfter(cs)[n] = StopAfter(bs)[n]
      OBVIOUS
    <3>1. n \in 1..Len(cs) /\ n \in 0..N /\ HighWater(cs)[n] = HighWater(bs)[n]
      BY <1>1, <1>2, <1>3
    <3> QED BY <1>1, <3>1, DesiredSteps
  <2>2. StopAfter(cs)[0] = StopAfter(bs)[0]
    BY <1>1, DesiredSteps
  <2>5. PICK p, q : p = StopAfter(cs) /\ q = StopAfter(bs)
    OBVIOUS
  <2>6. p[0] = q[0] /\ \A n \in 1..N : p[n - 1] = q[n - 1] => p[n] = q[n]
    BY <2>2, <2>1, <2>5
  <2>7. \A n \in 0..N : p[n] = q[n]
    <3>1. N \in Nat
      BY <1>1
    <3> HIDE DEF N
    <3> QED BY <2>6, <3>1, Alike
  <2> QED BY <2>5, <2>7
<1>5. HighWater(cs)[N + 1] = Max2(HighWater(bs)[N], b.high) /\ HighWater(cs)[N + 1] \in Int
  <2>1. /\ HighWater(cs)[N + 1] = Max2(HighWater(cs)[(N + 1) - 1], cs[N + 1].high)
        /\ HighWater(cs)[N + 1] \in Int
    BY <1>1, <1>2, HighSteps
  <2>2. HighWater(cs)[N] = HighWater(bs)[N]
    BY <1>2, <1>3
  <2> QED BY <1>1, <1>2, <2>1, <2>2
<1>6. /\ StopAfter(cs)[N + 1] = TrailStop(StopAfter(bs)[N], HighWater(cs)[N + 1], b.low)
      /\ StopAfter(cs)[N + 1] \in Int /\ StopAfter(bs)[N] \in Int
  <2>1. /\ StopAfter(cs)[N + 1] =
              TrailStop(StopAfter(cs)[(N + 1) - 1], HighWater(cs)[N + 1], cs[N + 1].low)
        /\ StopAfter(cs)[N + 1] \in Int
    BY <1>1, <1>2, DesiredSteps
  <2>2. StopAfter(cs)[N] = StopAfter(bs)[N] /\ StopAfter(bs)[N] \in Int
    BY <1>2, <1>4, DesiredSteps
  <2> QED BY <1>1, <1>2, <2>1, <2>2
<1>7. b.low \in Int
  BY RulesAssumption
<1>8. StopAfter(bs)[N] <= StopAfter(cs)[N + 1]
  <2>1. PICK x, h \in Int : x = StopAfter(bs)[N] /\ h = HighWater(cs)[N + 1]
    BY <1>5, <1>6
  <2>2. TrailStop(x, h, b.low) >= x /\ TrailStop(x, h, b.low) \in Int
    BY <1>7, StopRises
  <2> QED BY <1>6, <2>1, <2>2
<1> QED BY <1>1, <1>5, <1>6, <1>8 DEF DesiredStop

\* A step leaves the settings, and so the rules, as they are.
LEMMA RulesStay ==
    ASSUME UNCHANGED cfg
    PROVE  /\ \A t, b : Walk1(t, b)' = Walk1(t, b)
           /\ \A bs : DesiredStop(bs)' = DesiredStop(bs)
<1>1. \A t, b : Walk1(t, b)' = Walk1(t, b)
  BY SMT DEF Walk1, Close, StopFill, Scaled, ScaleLevel, Target, TrailStop, Breakeven, Trail,
     StepTrail, ProfitLock, Reached
<1>2. \A bs : DesiredStop(bs)' = DesiredStop(bs)
  BY SMT DEF DesiredStop, StopAfter, HighWater, TrailStop, Breakeven, Trail, StepTrail,
     ProfitLock, Reached
<1> QED BY <1>1, <1>2

\* What a pass makes of the live trade.
LEMMA ManagedStep ==
    ASSUME ConfigType(cfg), live \in LiveType, NEW cs, DesiredStop(cs) \in Int
    PROVE  /\ Managed(cs) \in LiveType
           /\ Managed(cs).out = "open" => Managed(cs).stop = Max2(live.stop, DesiredStop(cs))
<1> DEFINE want == DesiredStop(cs)
           price == cs[Len(cs)].close
           scaled == live.scaled \/ ScaleNow(cs)
<1>0. want \in Int /\ Max2(live.stop, want) \in Int /\ scaled \in BOOLEAN
  <2>1. ScaleNow(cs) \in BOOLEAN
    BY DEF ScaleNow
  <2>2. live.stop \in Int /\ live.scaled \in BOOLEAN
    BY DEF LiveType
  <2> QED BY <2>1, <2>2 DEF Max2
<1>1. Managed(cs) =
        IF ExitNow(cs) THEN [live EXCEPT !.out = "first_red"]
        ELSE IF want > live.stop /\ want >= price
        THEN [live EXCEPT !.scaled = scaled, !.out = "trail"]
        ELSE [live EXCEPT !.scaled = scaled, !.stop = Max2(live.stop, want)]
  BY DEF Managed
<1> HIDE DEF want, scaled, price
<1>2. \A m \in Int, b \in BOOLEAN :
        /\ [live EXCEPT !.out = "first_red"] \in LiveType
        /\ [live EXCEPT !.out = "first_red"].out = "first_red"
        /\ [live EXCEPT !.scaled = b, !.out = "trail"] \in LiveType
        /\ [live EXCEPT !.scaled = b, !.out = "trail"].out = "trail"
        /\ [live EXCEPT !.scaled = b, !.stop = m] \in LiveType
        /\ [live EXCEPT !.scaled = b, !.stop = m].stop = m
  BY DEF LiveType
<1>3. CASE ExitNow(cs)
  BY <1>0, <1>1, <1>2, <1>3
<1>4. CASE ~ExitNow(cs) /\ want > live.stop /\ want >= price
  BY <1>0, <1>1, <1>2, <1>4
<1>5. CASE ~ExitNow(cs) /\ ~(want > live.stop /\ want >= price)
  <2>1. Managed(cs) = [live EXCEPT !.scaled = scaled, !.stop = Max2(live.stop, want)]
    BY <1>1, <1>5
  <2>2. PICK m \in Int, b \in BOOLEAN : m = Max2(live.stop, want) /\ b = scaled
    BY <1>0
  <2>3. Managed(cs) = [live EXCEPT !.scaled = b, !.stop = m]
    BY <2>1, <2>2
  <2>4. Managed(cs) \in LiveType /\ Managed(cs).stop = m
    BY <2>3 DEF LiveType
  <2> QED BY <2>2, <2>4 DEF want
<1> QED BY <1>3, <1>4, <1>5

\* Every step keeps the types.
LEMMA TypeNext == TypeInv /\ [Next]_vars => TypeInv'
<1> SUFFICES ASSUME TypeInv, [Next]_vars PROVE TypeInv'
  OBVIOUS
<1>1. ASSUME NEW b \in Bars, NewBar(b) PROVE TypeInv'
  <2>1. /\ cfg' = cfg /\ bars' = Append(bars, b) /\ bars \in Seq(Bars)
        /\ ConfigType(cfg) /\ live \in LiveType
    BY <1>1, RulesAssumption DEF NewBar, TypeInv
  <2>2. Managed(Append(bars, b)) \in LiveType
    BY <2>1, DesiredGrows, ManagedStep
  <2>3. live' \in LiveType
    BY <1>1, <2>1, <2>2 DEF NewBar, LegsWork, LiveType
  <2>4. Append(bars, b) \in Seq(Bars)
    BY <2>1
  <2> QED BY <2>1, <2>3, <2>4 DEF TypeInv
<1> QED BY <1>1 DEF Next, TypeInv, vars

\* At the start there is no bar, and the stop is the first.
LEMMA TypeInit == Init => TypeInv
  BY RulesAssumption DEF Init, TypeInv, LiveType

\* On every sequence of bars, with every setting of the rules, a trade of the backtest
\* loses at most its risk, is accounted for to the last share, and does not end at a loss
\* once a rule has raised its stop to its entry.
THEOREM TradesBounded == Spec => []ExitsBounded
<1> QED BY TypeInit, TypeNext, BacktestBounded, PTL DEF Spec

-----------------------------------------------------------------------------
(* The live stop and the backtest's *)

\* Both stops are the one the rules desire after the bars so far.
AgreeInv ==
    /\ TypeInv
    /\ live.out = "open" => live.stop = DesiredStop(bars)
    /\ Backtest.out = "open" =>
          /\ Backtest.stop = DesiredStop(bars)
          /\ Backtest.high = HighWater(bars)[Len(bars)]

\* SimulatedSteps, as a fact of every state
SimFacts ==
    /\ Len(bars) \in Nat
    /\ Simulated[0] = Start
    /\ \A n \in 1..Len(bars) : Simulated[n] = Walk1(Simulated[n - 1], bars[n])

\* It holds in every state.
LEMMA SimAlways == TypeInv => SimFacts
  BY SimulatedSteps DEF SimFacts

\* What the backtest made of the bars so far does not change when more follow.
LEMMA BacktestStays ==
    ASSUME TypeInv, TypeInv', UNCHANGED cfg, Len(bars) <= Len(bars'),
           \A n \in 1..Len(bars) : bars'[n] = bars[n]
    PROVE  \A n \in 0..Len(bars) : Simulated'[n] = Simulated[n]
<1> DEFINE N == Len(bars)
<1>1. SimFacts /\ SimFacts'
  BY SimAlways, PTL
<1>2. N \in Nat /\ \A n \in 1..N : n \in 1..Len(bars')
  BY <1>1 DEF SimFacts
<1>3. \A n \in 1..N : Simulated[n] = Walk1(Simulated[n - 1], bars[n])
  BY <1>1 DEF SimFacts
<1>4. \A n \in 1..N : Simulated'[n] = Walk1(Simulated'[n - 1], bars[n])
  BY <1>1, <1>2, RulesStay DEF SimFacts
<1>5. Simulated[0] = Simulated'[0]
  BY <1>1 DEF SimFacts, Start
<1>6. PICK p, q : p = Simulated /\ q = Simulated'
  OBVIOUS
<1>7. p[0] = q[0] /\ \A n \in 1..N : p[n - 1] = q[n - 1] => p[n] = q[n]
  BY <1>3, <1>4, <1>5, <1>6
<1>8. \A n \in 0..N : p[n] = q[n]
  <2> HIDE DEF N
  <2> QED BY <1>2, <1>7, Alike
<1> QED BY <1>6, <1>8

\* A new bar takes the backtest one bar on.
LEMMA BacktestGrows ==
    ASSUME TypeInv, TypeInv', NEW b \in Bars, bars' = Append(bars, b), UNCHANGED cfg
    PROVE  Backtest' = Walk1(Backtest, b)
<1> DEFINE N == Len(bars)
<1>1. SimFacts'
  BY SimAlways, PTL
<1>2. /\ N \in Nat /\ Len(bars') = N + 1 /\ bars'[N + 1] = b
      /\ \A n \in 1..N : bars'[n] = bars[n]
  BY DEF TypeInv
<1>3. N + 1 \in 1..(N + 1) /\ (N + 1) - 1 = N /\ N \in 0..N /\ N <= N + 1
  BY <1>2
<1>4. Simulated'[N + 1] = Walk1(Simulated'[(N + 1) - 1], bars'[N + 1])
  BY <1>1, <1>2, <1>3, RulesStay DEF SimFacts
<1>5. Simulated'[N] = Simulated[N]
  BY <1>2, <1>3, BacktestStays
<1> QED BY <1>2, <1>3, <1>4, <1>5 DEF Backtest

\* Every step keeps both stops at the desired one.
LEMMA AgreeNext == AgreeInv /\ [Next]_vars => AgreeInv'
<1> SUFFICES ASSUME AgreeInv, [Next]_vars PROVE AgreeInv'
  OBVIOUS
<1>0. TypeInv /\ TypeInv'
  BY TypeNext DEF AgreeInv
<1>1. ASSUME NEW b \in Bars, NewBar(b) PROVE AgreeInv'
  <2>1. /\ cfg' = cfg /\ bars' = Append(bars, b) /\ bars \in Seq(Bars)
        /\ ConfigType(cfg) /\ live \in LiveType
    BY <1>0, <1>1, RulesAssumption DEF NewBar, TypeInv
  <2>2. PICK cs : cs = Append(bars, b)
    OBVIOUS
  <2>3. PICK bs \in Seq(Bars) : bs = bars
    BY <2>1
  <2>4. /\ HighWater(cs)[Len(cs)] = Max2(HighWater(bs)[Len(bs)], b.high)
        /\ DesiredStop(cs) = TrailStop(DesiredStop(bs), HighWater(cs)[Len(cs)], b.low)
        /\ DesiredStop(bs) \in Int /\ DesiredStop(cs) \in Int
        /\ DesiredStop(bs) <= DesiredStop(cs)
    BY <2>1, <2>2, <2>3, DesiredGrows
  <2>5. DesiredStop(bars)' = DesiredStop(cs) /\ HighWater(bars)' = HighWater(cs)
    <3>1. DesiredStop(cs)' = DesiredStop(cs)
      BY <2>1, RulesStay
    <3>2. bars' = cs
      BY <2>1, <2>2
    <3>3. DesiredStop(bars)' = DesiredStop(cs)'
      BY <3>2 DEF DesiredStop, StopAfter
    <3> QED BY <3>1, <3>2, <3>3 DEF HighWater
  <2>6. ASSUME live'.out = "open" PROVE live'.stop = DesiredStop(cs)
    <3>1. live.out = "open" /\ live' = Managed(cs)
      BY <1>1, <2>1, <2>2, <2>6 DEF NewBar, LegsWork, LiveType
    <3>2. live'.stop = Max2(live.stop, DesiredStop(cs))
      BY <2>1, <2>4, <2>6, <3>1, ManagedStep
    <3>3. live.stop = DesiredStop(bs)
      BY <2>3, <3>1 DEF AgreeInv
    <3> QED BY <2>4, <3>2, <3>3 DEF Max2
  <2>7. ASSUME Backtest'.out = "open"
        PROVE  Backtest'.stop = DesiredStop(cs) /\ Backtest'.high = HighWater(cs)[Len(cs)]
    <3>1. Backtest' = Walk1(Backtest, b)
      BY <1>0, <2>1, BacktestGrows
    <3>2. Bounded(Backtest)
      BY <1>0, SessionEnds
    <3>3. Backtest.out = "open"
      BY <2>7, <3>1, OverStays
    <3>4. BarDone(Backtest, b, Backtest')
      BY <2>1, <3>1, <3>2, <3>3, BarBounded
    <3>5. Backtest.stop = DesiredStop(bs) /\ Backtest.high = HighWater(bs)[Len(bs)]
      BY <2>3, <3>3 DEF AgreeInv
    <3> QED BY <2>4, <2>7, <3>4, <3>5 DEF BarDone
  <2>8. bars' = cs
    BY <2>1, <2>2
  <2>9. HighWater(bars)'[Len(bars')] = HighWater(cs)[Len(cs)]
    BY <2>5, <2>8
  <2> QED BY <1>0, <2>5, <2>6, <2>7, <2>9 DEF AgreeInv
<1>2. CASE UNCHANGED vars
  <2>1. cfg' = cfg /\ bars' = bars /\ live' = live
    BY <1>2 DEF vars
  <2>2. DesiredStop(bars)' = DesiredStop(bars)
    BY <2>1, SMT DEF DesiredStop, StopAfter, HighWater, TrailStop, Breakeven, Trail, StepTrail,
       ProfitLock, Reached
  <2>3. Backtest' = Backtest
    <3>1. Len(bars) \in Nat
      BY <1>0, SimulatedSteps
    <3>2. Len(bars) \in 0..Len(bars) /\ Len(bars) <= Len(bars')
      BY <2>1, <3>1
    <3>3. Simulated'[Len(bars)] = Simulated[Len(bars)]
      BY <1>0, <2>1, <3>2, BacktestStays
    <3> QED BY <2>1, <3>3 DEF Backtest
  <2> QED BY <1>0, <2>1, <2>2, <2>3 DEF AgreeInv
<1> QED BY <1>1, <1>2 DEF Next

\* Before the first bar both stops are the initial one.
LEMMA AgreeInit == Init => AgreeInv
<1> SUFFICES ASSUME Init PROVE AgreeInv
  OBVIOUS
<1>1. TypeInv /\ ConfigType(cfg) /\ bars = <<>> /\ live.stop = InitStop
  BY TypeInit, RulesAssumption DEF Init
<1>2. PICK bs \in Seq(Bars) : bs = bars /\ Len(bs) = 0
  <2>1. bars \in Seq(Bars) /\ Len(bars) = 0
    BY <1>1 DEF TypeInv
  <2> QED BY <2>1
<1>3. DesiredStop(bars) = InitStop /\ HighWater(bars)[Len(bars)] = Entry
  BY <1>1, <1>2, DesiredSteps, HighSteps DEF DesiredStop
<1>4. Backtest = Start
  BY <1>1, <1>2, SimulatedSteps DEF Backtest
<1> QED BY <1>1, <1>3, <1>4 DEF AgreeInv, Start

\* On every sequence of bars, with every setting of the rules, the stop that the live
\* manager recomputes from all bars at every pass is the one the backtest ratcheted.
THEOREM LiveAgrees == Spec => []StopsAgree
<1>1. AgreeInv => StopsAgree
  BY DEF AgreeInv, StopsAgree
<1> QED BY <1>1, AgreeInit, AgreeNext, PTL DEF Spec
=============================================================================

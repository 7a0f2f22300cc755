------------------------------ MODULE Journal ------------------------------
(***************************************************************************)
(* The trade journal of one symbol and the script that fills in its past.  *)
(* backfill_journal.py reads the closed orders, pairs their fills into     *)
(* round trips, deletes what an earlier run of it wrote, and writes one    *)
(* close per trip that the live sync has not journaled in the same minute. *)
(* The sync stamps a close with the minute it notices it.  The script may  *)
(* end between any two writes, and the account trades on meanwhile.        *)
(***************************************************************************)
EXTENDS Recursions, FiniteSets, FiniteSetsExt

CONSTANTS
    Shares,          \* of a fill
    Tape,            \* the price of each minute
    MaxFills,        \* bound on the orders
    MaxMinute,       \* bound on the clock
    MaxBackfills     \* bound on the runs of the script

JournalAssumption ==
    /\ Shares \subseteq Nat \ {0} /\ Tape \in [1..MaxMinute -> Nat \ {0}]
    /\ MaxFills \in Nat /\ MaxMinute \in Nat \ {0} /\ MaxBackfills \in Nat

VARIABLES
    orders,   \* closed orders, oldest first: side, shares, price, minute, filled
    synced,   \* the shares the live sync saw last
    closes,   \* position_closed events: who wrote it, its minute, its result
    now,
    script,   \* what the script has read and has still to write
    backfills,
    good      \* history: the orders a finished run had read, none since another began

journalVars == <<orders, synced, closes, now, script, backfills, good>>

Moments == 1..MaxMinute
Order == [side : {"buy", "sell"}, shares : Shares, price : Nat \ {0}, minute : Moments,
          filled : BOOLEAN]
Trip == [minute : Moments, pnl : Int]
Close == [by : {"live", "script"}, minute : Moments]

-----------------------------------------------------------------------------
(* Round trips *)

Signed(f) == IF f.side = "buy" THEN f.shares ELSE -f.shares

\* where the walk along the fills is: the open episode, and the trips so far
Start == [pos |-> 0, dir |-> 0, entered |-> 0, left |-> 0, last |-> 0, trips |-> <<>>]

\* a fill on a flat position opens a fresh episode
Episode(w, f) ==
    IF w.pos # 0 THEN w
    ELSE [Start EXCEPT !.dir = IF Signed(f) > 0 THEN 1 ELSE -1, !.trips = w.trips]

\* mutant of Over: a fill that turns the position ends the trip
OverTurned(w) == w.pos * w.dir <= 0

\* the trip ends where the position is flat again
Over(w) == w.pos = 0

\* reconstruct_round_trips, one fill
Walk(before, f) ==
    LET w     == Episode(before, f)
        entry == (Signed(f) > 0) = (w.dir > 0)
        paid  == f.shares * f.price
        after == [w EXCEPT !.pos = @ + Signed(f),
                           !.entered = IF entry THEN @ + paid ELSE @,
                           !.left = IF entry THEN @ ELSE @ + paid,
                           !.last = IF entry THEN @ ELSE f.minute]
    IN  IF ~Over(after) THEN after
        ELSE [after EXCEPT !.trips = Append(@,
                [minute |-> after.last, pnl |-> w.dir * (after.left - after.entered)])]

\* flatten_fills passes over what is not filled as a whole
Walked(os) ==
    LET walked[n \in 0 .. Len(os)] ==
            IF n = 0 THEN Start
            ELSE IF os[n].filled THEN Walk(walked[n - 1], os[n])
            ELSE walked[n - 1]
    IN  walked[Len(os)]

Trips(os) == Walked(os).trips

-----------------------------------------------------------------------------
(* The account and the live sync *)

Idle == [at |-> "idle", trips |-> <<>>, read |-> 0]

Init ==
    /\ orders = <<>> /\ synced = 0 /\ closes = <<>> /\ now = 1
    /\ script = Idle /\ backfills = 0 /\ good = 0

Held == SumTo([i \in DOMAIN orders |-> Signed(orders[i])], Len(orders))

\* an order closes: filled, or cancelled with part of it filled
OrderCloses(f) ==
    /\ Len(orders) < MaxFills /\ f.minute = now
    /\ orders' = Append(orders, f)
    /\ UNCHANGED <<synced, closes, now, script, backfills, good>>

Passes ==
    /\ now < MaxMinute /\ now' = now + 1
    /\ UNCHANGED <<orders, synced, closes, script, backfills, good>>

\* reconcile_closed: what was open at the last sync and is flat now
Sync ==
    /\ synced # Held /\ synced' = Held
    /\ closes' = IF Held = 0 THEN Append(closes, [by |-> "live", minute |-> now]) ELSE closes
    /\ UNCHANGED <<orders, now, script, backfills, good>>

-----------------------------------------------------------------------------
(* backfill_journal.py *)

\* the orders, then the journal
Read ==
    /\ script.at = "idle" /\ backfills < MaxBackfills
    /\ backfills' = backfills + 1
    /\ script' = [at |-> "read", trips |-> Trips(orders), read |-> Len(orders)]
    /\ good' = 0
    /\ UNCHANGED <<orders, synced, closes, now>>

\* what the live sync wrote in the same minute is not written again
Compare ==
    /\ script.at = "read"
    /\ LET live == {closes[i].minute : i \in {i \in DOMAIN closes : closes[i].by = "live"}}
       IN  script' = [script EXCEPT !.at = "compared",
                         !.trips = Kept(@, {t \in Trip : t.minute \notin live})]
    /\ UNCHANGED <<orders, synced, closes, now, backfills, good>>

\* the DELETE, in one statement
Clear ==
    /\ script.at = "compared"
    /\ closes' = Kept(closes, {e \in Close : e.by = "live"})
    /\ script' = [script EXCEPT !.at = "emit"]
    /\ UNCHANGED <<orders, synced, now, backfills, good>>

Write ==
    /\ script.at = "emit" /\ script.trips # <<>>
    /\ closes' = Append(closes, [by |-> "script", minute |-> Head(script.trips).minute])
    /\ script' = [script EXCEPT !.trips = Tail(@)]
    /\ UNCHANGED <<orders, synced, now, backfills, good>>

Finish ==
    /\ script.at = "emit" /\ script.trips = <<>>
    /\ script' = Idle /\ good' = script.read
    /\ UNCHANGED <<orders, synced, closes, now, backfills>>

\* what it wrote until then stays
ScriptDies ==
    /\ script.at # "idle" /\ script' = Idle
    /\ UNCHANGED <<orders, synced, closes, now, backfills, good>>

Next ==
    \/ \E side \in {"buy", "sell"}, n \in Shares, whole \in BOOLEAN :
        OrderCloses([side |-> side, shares |-> n, price |-> Tape[now], minute |-> now,
                     filled |-> whole])
    \/ Passes \/ Sync
    \/ Read \/ Compare \/ Clear \/ Write \/ Finish \/ ScriptDies

-----------------------------------------------------------------------------
(* Properties *)

\* Every variable has its type.
TypeOK ==
    /\ orders \in Seq(Order) /\ Len(orders) <= MaxFills
    /\ synced \in Int /\ now \in Moments /\ closes \in Seq(Close)
    /\ script \in [at : {"idle", "read", "compared", "emit"}, trips : Seq(Trip),
                   read : 0..MaxFills]
    /\ backfills \in 0..MaxBackfills /\ good \in 0..MaxFills

\* what the first n orders did to the position, and to the cash
Moved(f) == IF f.filled THEN Signed(f) ELSE 0
Net(n) == SumTo([i \in 1..n |-> Moved(orders[i])], n)
Cash(n) == SumTo([i \in 1..n |-> -(Moved(orders[i]) * orders[i].price)], n)
\* the orders that left the symbol flat
Flats == {n \in DOMAIN orders : orders[n].filled /\ Net(n) = 0}
Made(trips) == SumTo([i \in DOMAIN trips |-> trips[i].pnl], Len(trips))

\* There is one trip per return to flat, and what the trips made is the cash that the fills up
\* to there brought in, also when one fill turns a long position short
\* (journal_backfill.py:54-108).
TripsConserve ==
    /\ Len(Trips(orders)) = Cardinality(Flats)
    /\ Made(Trips(orders)) = (IF Flats = {} THEN 0 ELSE Cash(Max(Flats)))

Written(who, m) == Cardinality({i \in DOMAIN closes : closes[i].by = who /\ closes[i].minute = m})
TripsAt(m, n) == Cardinality({i \in DOMAIN Trips(SubSeq(orders, 1, n)) :
                                Trips(SubSeq(orders, 1, n))[i].minute = m})

\* After a run that ended, and however earlier ones did, a minute has a close for each trip that
\* left the account in it, or the ones of the live sync, and the script wrote none of them
\* twice (backfill_journal.py:11, "Idempotent", :66-113).
BackfillWhole ==
    good > 0 /\ script.at = "idle" =>
        \A m \in Moments :
            \/ Written("script", m) = TripsAt(m, good)
            \/ Written("script", m) = 0 /\ Written("live", m) > 0
=============================================================================

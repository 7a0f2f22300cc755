------------------------------- MODULE Rules -------------------------------
(***************************************************************************)
(* The rules that are applied to bars and fills, live and after the fact:  *)
(* the exit rules (ExitRules), the entry rules with what research makes of *)
(* them (Labeler), and the round trips of the journal's backfill           *)
(* (Journal).  They share no state: a behaviour is one part's.             *)
(***************************************************************************)
EXTENDS ExitRules

CONSTANTS
    Shapes, MaxTape, K, Settings, Contexts, Floors,
    Shares, Tape, MaxFills, MaxMinute, MaxBackfills

VARIABLES part, tape, orders, synced, closes, now, script, backfills, good

-----------------------------------------------------------------------------
Entries == INSTANCE Labeler
Trips == INSTANCE Journal

ASSUME PartsAssumption == Entries!LabelerAssumption /\ Trips!JournalAssumption

exitVars == <<cfg, bars, live>>
journalVars == <<orders, synced, closes, now, script, backfills, good>>

\* the exit rules choose their settings only where they run
RulesInit ==
    /\ part \in {"exits", "entries", "trips"}
    /\ Init /\ Entries!Init /\ Trips!Init
    /\ part = "exits" \/ cfg = CHOOSE c \in Configs : TRUE

RulesNext ==
    \/ part = "exits" /\ Next /\ UNCHANGED <<part, tape, journalVars>>
    \/ part = "entries" /\ Entries!Next /\ UNCHANGED <<part, exitVars, journalVars>>
    \/ part = "trips" /\ Trips!Next /\ UNCHANGED <<part, exitVars, tape>>

RulesSpec == RulesInit /\ [][RulesNext]_<<part, exitVars, tape, journalVars>>

-----------------------------------------------------------------------------
(* Properties: those of the parts, as their modules state them *)

\* Each bar that closes leaves signals whose stop is below their entry, of the live
\* setups and of the shadow ones (SetupRules, ShadowSetups).
SetupsSound ==
    [][part = "entries" => Entries!SetupsSound(tape') /\ Entries!ShadowsSound(tape')]_tape

\* What is said of the past is not changed by later bars: the opening range, the
\* labels, the backtest's trades (SetupRules, Labeler).
NoLookAhead == [][part = "entries" => Entries!RangeAgreed /\ Entries!TimeSplit]_tape

\* On every tape the backtest holds one trade at a time (Labeler).
OneTradeAtATime == [][part = "entries" => Entries!OneTradeAtATime(tape')]_tape

\* The backfill's trades account for every share and dollar, and it ends with the
\* journal of what it read, whose rows have their types (Journal).
TripsWhole == part = "trips" => Trips!TypeOK /\ Trips!TripsConserve /\ Trips!BackfillWhole
=============================================================================

---------------------------- MODULE TradingDays ----------------------------
(***************************************************************************)
(* Days of the live loop: the market calendar, the end-of-day flatten and  *)
(* the open catch-up flatten, in a process that is started, dies, and may  *)
(* live for many days.                                                     *)
(*                                                                         *)
(* A day is a number, and its time a slot.  A day's close is a slot, early *)
(* or full, or 0 when the exchange is shut.  One slot is longer than the   *)
(* interval of the two steps (30 s): while the process is up each runs in  *)
(* every slot.  A position is a symbol and the day of its last buy.  A     *)
(* market sell is an exit order of the symbol; it fills while the market   *)
(* is open, and stays queued when it is not.  What the flatten does with   *)
(* orders one by one is module TradingExecution.                           *)
(***************************************************************************)
EXTENDS Integers, FiniteSets

CONSTANTS
    Symbols,
    Days,          \* the last day
    Open,          \* the slot of the open
    Early, Full,   \* the slots of an early and of a normal close
    NormalLead,    \* _normal_lead, in slots
    PreLead,       \* _pre_lead, in slots
    MaxEntries,    \* bound on the entries of a run
    MaxBoots,      \* bound on the starts of the process
    MaxErrors      \* bound on the attempts of a day that do not close everything

ASSUME DaysAssumption ==
    /\ {Days, Open, Early, Full, NormalLead, PreLead} \subseteq Nat \ {0}
    /\ {MaxEntries, MaxBoots, MaxErrors} \subseteq Nat
    /\ Early <= Full
    /\ NormalLead <= Early - Open /\ PreLead <= Early - Open

VARIABLES
    close,        \* the calendar
    day, slot,    \* now, ET
    held,         \* the broker: symbols with a position
    bought,       \* the broker: the day of the last buy of a symbol, 0 for none
    exits,        \* the broker: symbols with a market sell
    up,           \* the process runs
    eodDone,      \* _eod_done
    catchupDone,  \* _catchup_done
    sessionClosed,
    ran,          \* the steps that ran in this slot
    entries, boots,
    errs,         \* the attempts of this day that did not close everything
    closedOn,     \* history: the day eodDone was set, 0 for none
    upSince       \* history: the day and slot of the start

calendar == <<close, day, slot>>
holdings == <<held, bought, exits>>
flags == <<eodDone, catchupDone, sessionClosed, closedOn>>
vars == <<calendar, holdings, flags, up, ran, entries, boots, errs, upSince>>

Steps == {"eod", "catchup"}

-----------------------------------------------------------------------------
(* runtime/market_calendar.py *)

IsTradingDay(d) == close[d] > 0

IsRegularHours == IsTradingDay(day) /\ Open <= slot /\ slot < close[day]

NextTradingDay(d) ==
    CHOOSE e \in (d + 1)..(Days + 1) :
        IsTradingDay(e) /\ \A f \in (d + 1)..(e - 1) : ~IsTradingDay(f)

DaysToNextSession(d) == NextTradingDay(d) - d

PreClosure(d) == DaysToNextSession(d) > 1

\* mutants of Lead and WindowEnd: the lead does not widen; the window is that of a
\* normal day
LeadNormal(d) == NormalLead
WindowEndFull(d) == Full

Lead(d) ==
    IF PreClosure(d) /\ PreLead > NormalLead THEN PreLead ELSE NormalLead

WindowEnd(d) == close[d]

\* eod_flatten_status
FlattenDue ==
    /\ IsTradingDay(day)
    /\ WindowEnd(day) - Lead(day) <= slot
    /\ slot < WindowEnd(day)

-----------------------------------------------------------------------------

\* the day after the last is a trading day, so that every day has a next session
Calendars ==
    {c \in [1..(Days + 1) -> {0, Early, Full}] : c[Days + 1] = Full}

Init ==
    /\ close \in Calendars
    /\ day = 1 /\ slot = 0
    /\ held = {} /\ exits = {}
    /\ bought = [s \in Symbols |-> 0]
    /\ up = FALSE
    /\ eodDone = FALSE /\ catchupDone = FALSE /\ sessionClosed = FALSE
    /\ ran = {}
    /\ entries = 0 /\ boots = 0 /\ errs = 0
    /\ closedOn = 0 /\ upSince = <<0, 0>>

\* time passes when each step of a running process ran in the slot
Tick ==
    /\ up => ran = Steps
    /\ ran' = {}
    /\ IF slot < Full
       THEN slot' = slot + 1 /\ UNCHANGED <<day, errs>>
       ELSE day < Days /\ day' = day + 1 /\ slot' = 0 /\ errs' = 0
    /\ UNCHANGED <<close, holdings, flags, up, entries, boots, upSince>>

\* an entry the execution service sent fills: it sends none once the session is
\* closed, and none for a symbol that is held
Enters(s) ==
    /\ up /\ ~sessionClosed
    /\ IsRegularHours
    /\ s \notin held
    /\ entries < MaxEntries
    /\ entries' = entries + 1
    /\ held' = held \cup {s}
    /\ bought' = [bought EXCEPT ![s] = day]
    /\ UNCHANGED <<calendar, exits, flags, up, ran, boots, errs, upSince>>

\* a market sell or a bracket leg fills
Exits(s) ==
    /\ s \in held
    /\ IsRegularHours
    /\ held' = held \ {s}
    /\ exits' = exits \ {s}
    /\ UNCHANGED <<calendar, bought, flags, up, ran, entries, boots, errs, upSince>>

-----------------------------------------------------------------------------
(* The steps *)

\* a market sell for each of some symbols; the others' closes raised, or nothing
\* could be read.  An attempt that leaves one out is an error.
Closing(targets, C) ==
    /\ C \subseteq targets
    /\ C # targets => errs < MaxErrors
    /\ errs' = IF C = targets THEN errs ELSE errs + 1
    /\ exits' = exits \cup C

\* mutant of StepEod: done although not everything was closed
StepEodOnce ==
    /\ up /\ "eod" \notin ran
    /\ ~eodDone /\ FlattenDue
    /\ ran' = ran \cup {"eod"}
    /\ sessionClosed' = TRUE
    /\ \E C \in SUBSET held : Closing(held, C)
    /\ eodDone' = TRUE /\ closedOn' = day
    /\ UNCHANGED <<calendar, held, bought, up, catchupDone, entries, boots, upSince>>

\* step_eod_flatten: close_session; done only when nothing failed
StepEod ==
    /\ up /\ "eod" \notin ran
    /\ ~eodDone /\ FlattenDue
    /\ ran' = ran \cup {"eod"}
    /\ sessionClosed' = TRUE
    /\ \E C \in SUBSET held :
        /\ Closing(held, C)
        /\ eodDone' = (C = held)
        /\ closedOn' = IF C = held THEN day ELSE closedOn
    /\ UNCHANGED <<calendar, held, bought, up, catchupDone, entries, boots, upSince>>

StepEodIdle ==
    /\ up /\ "eod" \notin ran
    /\ eodDone \/ ~FlattenDue
    /\ ran' = ran \cup {"eod"}
    /\ UNCHANGED <<calendar, holdings, flags, up, entries, boots, errs, upSince>>

\* mutants of Carries: what was bought before yesterday, all that is held, and
\* what was not bought today, held or not
OldCarries == {s \in held : bought[s] < day - 1}
AllHeld == held
NotToday == {s \in Symbols : bought[s] \notin {0, day}}

\* find_overnight_carries: held, and not bought today
Carries == {s \in held : bought[s] # day}

\* step_open_catchup_flatten: flatten_overnight_carries
StepCatchup ==
    /\ up /\ "catchup" \notin ran
    /\ ~catchupDone /\ IsRegularHours
    /\ ran' = ran \cup {"catchup"}
    /\ \E C \in SUBSET Carries :
        /\ Closing(Carries, C)
        /\ catchupDone' = (C = Carries)
    /\ UNCHANGED <<calendar, held, bought, up, eodDone, sessionClosed, closedOn,
                   entries, boots, upSince>>

StepCatchupIdle ==
    /\ up /\ "catchup" \notin ran
    /\ catchupDone \/ ~IsRegularHours
    /\ ran' = ran \cup {"catchup"}
    /\ UNCHANGED <<calendar, holdings, flags, up, entries, boots, errs, upSince>>

\* a process begins with every flag down: they are in memory only
Boot ==
    /\ ~up
    /\ boots < MaxBoots
    /\ boots' = boots + 1
    /\ up' = TRUE
    /\ ran' = {}
    /\ eodDone' = FALSE /\ catchupDone' = FALSE /\ sessionClosed' = FALSE
    /\ closedOn' = 0
    /\ upSince' = <<day, slot>>
    /\ UNCHANGED <<calendar, holdings, entries, errs>>

Crash ==
    /\ up
    /\ up' = FALSE
    /\ UNCHANGED <<calendar, holdings, flags, ran, entries, boots, errs, upSince>>

Next ==
    \/ Tick
    \/ \E s \in Symbols : Enters(s) \/ Exits(s)
    \/ StepEod \/ StepEodIdle \/ StepCatchup \/ StepCatchupIdle
    \/ Boot \/ Crash

Spec == Init /\ [][Next]_vars

-----------------------------------------------------------------------------
(* Properties *)

\* Every variable has its type.
TypeOK ==
    /\ close \in Calendars
    /\ day \in 1..Days /\ slot \in 0..Full
    /\ held \subseteq Symbols /\ exits \subseteq held
    /\ bought \in [Symbols -> 0..Days]
    /\ {up, eodDone, catchupDone, sessionClosed} \subseteq BOOLEAN
    /\ ran \subseteq Steps
    /\ entries \in 0..MaxEntries /\ boots \in 0..MaxBoots /\ errs \in 0..MaxErrors
    /\ closedOn \in 0..Days
    /\ upSince \in (0..Days) \X (0..Full)

\* An exit order is put in only while the market can fill it: a flatten of a closed
\* market cancels the protective legs and leaves the position naked.
ExitsInSession == [][exits' \subseteq exits \/ IsRegularHours]_vars

\* The process has been up since before the last slot of the day's window began.
UpForWindow ==
    /\ up /\ IsTradingDay(day) /\ slot >= close[day]
    /\ \/ upSince[1] < day
       \/ upSince[2] < close[day]

\* At the close of every day, early closes too, every position has its exit order
\* when no attempt failed and the process was up for the last pass of the window:
\* also in a process that did its flatten on an earlier day, and flattens no more.
FlatAtClose == UpForWindow /\ errs = 0 => held \subseteq exits

\* Before a closure of several days the window is wide enough for a failed pass.
FlatBeforeClosure ==
    /\ UpForWindow
    /\ PreClosure(day) /\ errs < PreLead
    /\ upSince[1] < day \/ upSince[2] <= close[day] - PreLead
    => held \subseteq exits

\* Once the flatten is done no position is left without an exit order while the
\* process lives: none is entered behind it.
DoneLeavesNone == up /\ eodDone => held \subseteq exits

\* A catch-up of the open touches nothing entered today: an exit order of such a
\* position is there only after the session was closed.
TodayKept ==
    [][\A s \in exits' \ exits : bought[s] = day => sessionClosed']_vars

\* A process started before the open has an exit order for every carried position
\* once its first pass of that session is over, when no attempt failed.
CarriesCaught ==
    /\ up /\ IsTradingDay(day) /\ slot > Open
    /\ upSince[1] = day /\ upSince[2] <= Open
    /\ errs = 0
    => \A s \in held : bought[s] # day => s \in exits

\* Every position has its exit order when the market closes, before a closure of
\* several days also after a failed pass, and what was carried has one at the next
\* open.
FlatInTime == FlatAtClose /\ FlatBeforeClosure /\ CarriesCaught
=============================================================================

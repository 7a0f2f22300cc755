------------------------------- MODULE MCLive -------------------------------
(* Small instances of the clocks of run_live_paper.py and of its broker        *)
(* client: the scheduler's days (TradingDays), the trigger thread's passes     *)
(* (TriggerBook), the client's cached calls (BrokerClient) and its walk over   *)
(* the order history (OrderPages).  They share no state: a behaviour is one    *)
(* part's, chosen at the start.                                                *)
EXTENDS TradingDays, TLC

CONSTANTS
    None, Ranges, MaxPrice, MaxArmed, MaxAge, MaxArms, Revisable,
    Threads, MaxRetries, TTL, MaxTime, MaxChanges, MaxWrites, FaultSets,
    MaxOrders, MaxLegs, SameTime, Limit, MaxPages

VARIABLES
    part,
    book, range, account, pass, arms, sent,
    acct, placed, now, cache, call, wrote, done, writes, named, faults, callers,
    history, out, until, pages, newest, state

bookVars == <<book, range, account, pass, arms, sent>>
clientVars == <<acct, placed, now, cache, call, wrote, done, writes, named, faults, callers>>
pageVars == <<history, out, until, pages, newest, state>>

Triggers == INSTANCE TriggerBook
Client == INSTANCE BrokerClient
Pages == INSTANCE OrderPages

ASSUME LiveAssumption ==
    Triggers!BookAssumption /\ Client!ClientAssumption /\ Pages!PagesAssumption

\* a part that does not run is at one start
LiveInit ==
    /\ part \in {"days", "passes", "calls", "pages"}
    /\ Init /\ Triggers!Init /\ Client!Init /\ Pages!Init
    /\ part # "days" => \A d \in DOMAIN close : close[d] = Full
    /\ part # "calls" => callers = Threads /\ "server" \in faults

Scheduler ==
    part = "days" /\ Next /\ UNCHANGED <<part, bookVars, clientVars, pageVars>>
TriggerThread ==
    part = "passes" /\ Triggers!Next /\ UNCHANGED <<part, vars, clientVars, pageVars>>
Requests ==
    part = "calls" /\ Client!Next /\ UNCHANGED <<part, vars, bookVars, pageVars>>
Walk ==
    part = "pages" /\ Pages!Next /\ UNCHANGED <<part, vars, bookVars, clientVars>>

LiveNext == Scheduler \/ TriggerThread \/ Requests \/ Walk

LiveSpec == LiveInit /\ [][LiveNext]_<<part, vars, bookVars, clientVars, pageVars>>

Symmetry == Permutations(Symbols) \cup Permutations(Threads)

-----------------------------------------------------------------------------
(* Properties: those of the parts, as their modules state them *)

\* Every variable of the four parts has its type.
Types == TypeOK /\ Triggers!TypeOK /\ Client!TypeOK /\ Pages!TypeOK

\* An order goes out on a fresh price, above its trigger, with the stop of the
\* same range, and at most max_armed triggers wait (TriggerBook).
SentSound == Triggers!SentFresh /\ Triggers!SentBreakout /\ Triggers!Bounded

\* arm() neither drops nor re-arms a trigger that fired (TriggerBook).
PinnedStays == Triggers!PinnedStays

\* A read that asks for a fresh value gets one from after its call, and a thread
\* alone reads what it wrote (BrokerClient).
ReadsTrue == Client!FreshIsFresh /\ Client!ReadYourWrites

\* An order with an id of its own takes effect once, any write once while the
\* broker does not fail after it (BrokerClient).
WritesOnce == Client!NamedOnce /\ Client!WrittenOnce

\* get_orders returns no order twice, newest first, without a gap while no two
\* share a time, and all of them without legs (OrderPages).
HistoryWhole == Pages!NewestFirst /\ Pages!NoGap /\ Pages!AllRead
=============================================================================

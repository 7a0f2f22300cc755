------------------------- MODULE TradingExecution -------------------------
(***************************************************************************)
(* The live execution service (trading_execution.py, with the executor of  *)
(* alpaca_paper/execution.py): how a breakout becomes an entry order, how  *)
(* an entry that does not fill is backed out, and how the two circuit      *)
(* breakers (daily loss, end of day) cancel entries and flatten the book.  *)
(*                                                                         *)
(* Three threads of run_live_paper.py act on it:                           *)
(*   main     the scheduler: the entry guard (every 5 s, WITHOUT the       *)
(*            service lock), the execution tick, the end-of-day flatten    *)
(*            and the account sync (one at a time);                        *)
(*   trig     the trigger thread: submit_breakout_now (every 4 s);         *)
(*   dashboard  HTTP threads: approve, reject, exit.                       *)
(* All but the guard run under one RLock (_locked).  A locked operation is *)
(* split only where the unlocked guard, or the broker, can get in between. *)
(*                                                                         *)
(* The broker is external: it fills, ends and cancels orders on its own.   *)
(* Prices, sizes and the wording of events are abstracted: a gate that     *)
(* depends on a price is a nondeterministic choice.                        *)
(***************************************************************************)
EXTENDS Integers, FiniteSets

CONSTANTS
    Symbols,          \* tradable names
    Orders,           \* order ids (uuids); how many bounds the entries of a run
    None,             \* no order / no symbol
    MaxConcurrent,    \* TRADING_MAX_CONCURRENT_POSITIONS
    MaxPerTick,       \* max_orders_per_tick
    FreshCap,         \* TRADING_MAX_FRESH_ENTRIES_PER_DAY, 0 = off
    MaxBackouts,      \* max_backouts_per_symbol, 0 = no cap
    FailLimit,        \* TRADING_EQUITY_FAIL_LIMIT
    AutoApprove,      \* TRADING_AUTO_APPROVE
    FlattenOnBreach,  \* TRADING_FLATTEN_ON_BREACH
    Faults            \* which of FaultKinds the environment may produce

(***************************************************************************)
(* cancel_fails  the broker refuses a cancel, or the call times out        *)
(* close_fails   a market close fails after its retries                    *)
(* submit_lost   the submit call fails although the broker took the order  *)
(* read_fails    account or positions cannot be read                       *)
(* emit_fails    the event store refuses the back-out event                *)
(* restart       the process dies and is started again                     *)
(* midnight      the process outlives the trading day                      *)
(***************************************************************************)
FaultKinds == {"cancel_fails", "close_fails", "submit_lost", "read_fails",
               "emit_fails", "restart", "midnight"}

ASSUME ConstantsAssumption ==
    /\ None \notin Symbols \cup Orders
    /\ MaxConcurrent \in Nat /\ MaxPerTick \in Nat /\ FreshCap \in Nat
    /\ MaxBackouts \in Nat /\ FailLimit \in Nat \ {0}
    /\ AutoApprove \in BOOLEAN /\ FlattenOnBreach \in BOOLEAN
    /\ Faults \subseteq FaultKinds

VARIABLES
    \* the event store: kinds of events recorded per order, the order's symbol,
    \* the orders whose approval_mode is auto, the last positions snapshot
    log, sym, auto, snap,
    \* the broker's view of every order
    broker,
    \* fields of the service
    armed, counted, requested, cooldown, backouts, exited, prevHeld,
    freshN, halted, failures, sessionClosed,
    \* where each thread is, and a flatten in progress
    main, trig, flat,
    \* history: the symbols of requests that were pending at a restart
    stale

storeVars == <<log, sym, auto, snap>>
guardVars == <<exited, prevHeld>>
benchVars == <<cooldown, backouts>>
breakerVars == <<halted, failures, sessionClosed>>
threadVars == <<main, trig, flat>>
vars == <<log, sym, auto, snap, broker, armed, counted, requested, cooldown,
          backouts, exited, prevHeld, freshN, halted, failures,
          sessionClosed, main, trig, flat, stale>>

-----------------------------------------------------------------------------
(* The event store's projections *)

EventKinds == {"requested", "approved", "rejected", "submitted", "filled",
               "cancelled"}

\* mutant of Pending: a rejection does not resolve the request
PendingAgain(o) ==
    /\ "requested" \in log[o]
    /\ log[o] \cap {"approved", "submitted", "cancelled"} = {}

\* query_approval_queue: requested and not resolved.  The queue is a projection
\* of the whole store: it is not restricted to a session.
Pending(o) ==
    /\ "requested" \in log[o]
    /\ log[o] \cap {"approved", "rejected", "submitted", "cancelled"} = {}

PendingSymbols == {sym[o] : o \in {p \in Orders : Pending(p)}}

Record(o, kinds) == log' = [log EXCEPT ![o] = @ \cup kinds]

(* The broker *)

BrokerStates == {"none", "open", "held", "naked", "closed", "canceled"}

\* An order's shares are a position while the order is held (its bracket's stop
\* and target rest at the broker) or naked (the legs are gone).
HeldOrder(o) == broker[o] \in {"held", "naked"}
Held == {sym[o] : o \in {p \in Orders : HeldOrder(p)}}

\* What a submit may come back with: a resting order, one that reports filled
\* shares but rests, an outright fill, a terminal status, an API error before
\* the broker took the order, an error after it did.
Outcomes == {"open", "partly", "filled", "rejected", "refused"}
                \cup (Faults \cap {"submit_lost"})
Accepted(out) == out \in {"open", "partly", "filled"}
Rests(out) == out \in {"open", "partly"}

\* AlpacaPaperExecutor.execute: what it emits and what the broker holds after.
ExecuteLog(out) ==
    CASE out = "open"               -> {"submitted"}
      [] out \in {"partly", "filled"} -> {"submitted", "filled"}
      [] out = "rejected"           -> {"submitted", "cancelled"}
      [] out \in {"refused", "submit_lost"} -> {"cancelled"}
ExecuteBroker(out) ==
    CASE out \in {"open", "submit_lost"} -> "open"
      [] out \in {"partly", "filled"} -> "held"
      [] out = "rejected"           -> "canceled"
      [] out = "refused"            -> "none"

\* cancel_entry: errors are logged and swallowed, so the caller cannot tell
\* whether the order is gone.  Cancelling a filled bracket parent may cancel its
\* legs and leave the position naked (the comment of _broker_held_symbols).
AfterCancel(o) ==
    CASE broker[o] = "open" ->
            {"canceled"} \cup (IF "cancel_fails" \in Faults THEN {"open"} ELSE {})
      [] broker[o] = "held" -> {"naked", "held"}
      [] OTHER -> {broker[o]}

\* mutant of CancelEntry: the cancel is recorded and never sent
CancelUnsent(o) ==
    /\ UNCHANGED broker
    /\ Record(o, {"cancelled"})

CancelEntry(o) ==
    /\ \E b \in AfterCancel(o) : broker' = [broker EXCEPT ![o] = b]
    /\ Record(o, {"cancelled"})

\* cancel_protective_and_close for the symbols S: those of F fail after their
\* legs were cancelled, the others are sold.
CloseSymbols(S, F) ==
    broker' = [o \in Orders |->
        IF HeldOrder(o) /\ sym[o] \in S
        THEN IF sym[o] \in F THEN "naked" ELSE "closed"
        ELSE broker[o]]

-----------------------------------------------------------------------------
(* Threads *)

Armed == {o \in Orders : armed[o] # "no"}

IdleMain == [pc |-> "idle", todo |-> {}, filled |-> {},
             cancelled |-> {}, held |-> {}, order |-> None, n |-> 0, made |-> 0]
IdleTrig == [pc |-> "idle", order |-> None, n |-> 0]
IdleFlat == [by |-> "nobody", todo |-> {}]

LockedPCs == {"request", "signals", "approve", "flatten", "eod", "sweep"}
LockFree == main.pc \notin LockedPCs /\ trig.pc = "idle"

\* a step that only reads, and moves the main thread
OnlyMain == UNCHANGED <<storeVars, broker, armed, counted, requested, benchVars,
                        guardVars, freshN, breakerVars, trig, flat, stale>>

Init ==
    /\ log = [o \in Orders |-> {}]
    /\ sym = [o \in Orders |-> None]
    /\ auto = {}
    /\ snap = {}
    /\ broker = [o \in Orders |-> "none"]
    /\ armed = [o \in Orders |-> "no"]
    /\ counted = {}
    /\ requested = {}
    /\ cooldown = [s \in Symbols |-> "clear"]
    /\ backouts = [s \in Symbols |-> 0]
    /\ exited = {}
    /\ prevHeld = {}
    /\ freshN = 0
    /\ halted = FALSE
    /\ failures = 0
    /\ sessionClosed = FALSE
    /\ main = IdleMain
    /\ trig = IdleTrig
    /\ flat = IdleFlat
    /\ stale = {}

-----------------------------------------------------------------------------
(***************************************************************************)
(* expire_stale_entries, run by the guard task (unlocked) and by the tick  *)
(* (locked).  Every read of the broker or the store, and every write the   *)
(* other threads can see in between, is a step.                            *)
(***************************************************************************)

\* _note_position_exits, then the early return when nothing is armed.  Of the
\* names that left the book since the last pass, those of B are benched: the last
\* mark seen of them was a loss (the marks themselves are abstracted).
NoteExits(B) ==
    /\ main.pc = "idle"
    /\ B \subseteq prevHeld \ Held
    /\ exited' = exited \cup B
    /\ prevHeld' = Held
    /\ main' = IF Armed = {} THEN IdleMain ELSE [IdleMain EXCEPT !.pc = "read"]
    /\ UNCHANGED <<storeVars, broker, armed, counted, requested, benchVars,
                   freshN, breakerVars, trig, flat, stale>>

\* the positions are unreadable: no exit is noted in this pass
NoteExitsUnread ==
    /\ "read_fails" \in Faults
    /\ main.pc = "idle"
    /\ Armed # {}
    /\ main' = [IdleMain EXCEPT !.pc = "read"]
    /\ OnlyMain

\* the filled and cancelled ids of the store, then the broker's positions (the
\* synced snapshot if they cannot be read)
ReadOrders(held) ==
    /\ main.pc = "read"
    /\ \/ held = Held
       \/ held = snap /\ "read_fails" \in Faults
    /\ main' = [main EXCEPT !.pc = "list", !.held = held,
                            !.filled = {o \in Orders : "filled" \in log[o]},
                            !.cancelled = {o \in Orders : "cancelled" \in log[o]}]
    /\ OnlyMain

\* list(self._armed): orders armed after the reads above are in it too
ListArmed ==
    /\ main.pc = "list"
    /\ main' = [main EXCEPT !.pc = "scan", !.todo = Armed,
                            !.filled = @ \cap Armed, !.cancelled = @ \cap Armed]
    /\ OnlyMain

Scanning(o) == main.pc = "scan" /\ o \in main.todo
Skip(o) == [main EXCEPT !.todo = @ \ {o}]
Disarm(o) == armed' = [armed EXCEPT ![o] = "no"]

\* self._armed[order_id] raises KeyError when the trigger thread's flatten has
\* popped it: the exception ends the pass
ScanVanished(o) ==
    /\ Scanning(o)
    /\ armed[o] = "no"
    /\ main' = IdleMain
    /\ OnlyMain

\* known filled, or its symbol is a position: stop tracking it, keep the request
ScanFilled(o) ==
    /\ Scanning(o)
    /\ armed[o] # "no"
    /\ \/ o \in main.filled
       \/ o \notin main.cancelled /\ sym[o] \in main.held
    /\ Disarm(o)
    /\ main' = Skip(o)
    /\ UNCHANGED <<storeVars, broker, counted, requested, benchVars, guardVars,
                   freshN, breakerVars, trig, flat, stale>>

\* known cancelled: pop it, then free its slot and its symbol
ScanCancelled(o) ==
    /\ Scanning(o)
    /\ armed[o] # "no"
    /\ o \notin main.filled
    /\ o \in main.cancelled
    /\ Disarm(o)
    /\ main' = [Skip(o) EXCEPT !.pc = "release", !.order = o]
    /\ UNCHANGED <<storeVars, broker, counted, requested, benchVars, guardVars,
                   freshN, breakerVars, trig, flat, stale>>

Unresolved(o) ==
    /\ o \notin main.filled \cup main.cancelled
    /\ sym[o] \notin main.held

\* mutant of ScanKeeps: the time box is never checked
KeepsForever(o) ==
    /\ Scanning(o)
    /\ Unresolved(o)
    /\ main' = Skip(o)
    /\ OnlyMain

\* within the grace window, or neither timed out nor below its trigger
ScanKeeps(o) ==
    /\ Scanning(o)
    /\ Unresolved(o)
    /\ armed[o] \in {"grace", "resting"}
    /\ main' = Skip(o)
    /\ OnlyMain

\* timed out, or the price fell back through the trigger (any time past grace)
ScanStale(o) ==
    /\ Scanning(o)
    /\ Unresolved(o)
    /\ armed[o] \in {"resting", "expired"}
    /\ main' = [Skip(o) EXCEPT !.pc = "cancel", !.order = o]
    /\ OnlyMain

BackOutCancel ==
    /\ main.pc = "cancel"
    /\ CancelEntry(main.order)
    /\ main' = [main EXCEPT !.pc = "bench"]
    /\ UNCHANGED <<sym, auto, snap, armed, counted, requested, benchVars,
                   guardVars, freshN, breakerVars, trig, flat, stale>>

\* mutant of RegisterBackout: the cap is compared before the count
BackoutOffByOne(s) ==
    /\ backouts' = [backouts EXCEPT ![s] = @ + 1]
    /\ cooldown' = [cooldown EXCEPT ![s] =
            IF MaxBackouts > 0 /\ backouts[s] >= MaxBackouts
            THEN "session" ELSE "timed"]

\* _register_backout
RegisterBackout(s) ==
    /\ backouts' = [backouts EXCEPT ![s] = @ + 1]
    /\ cooldown' = [cooldown EXCEPT ![s] =
            IF MaxBackouts > 0 /\ backouts[s] + 1 >= MaxBackouts
            THEN "session" ELSE "timed"]

\* ... and the entry_backout event; a failed emit ends the pass
BackOutBench ==
    /\ main.pc = "bench"
    /\ RegisterBackout(sym[main.order])
    /\ \/ main' = [main EXCEPT !.pc = "release"]
       \/ main' = IdleMain /\ "emit_fails" \in Faults
    /\ UNCHANGED <<storeVars, broker, armed, counted, requested, guardVars,
                   freshN, breakerVars, trig, flat, stale>>

\* _release_cap_slot: `n -= 1` outside the lock is a read ...
ReleaseRead ==
    /\ main.pc = "release"
    /\ main' = IF main.order \in counted /\ freshN > 0
               THEN [main EXCEPT !.pc = "write", !.n = freshN]
               ELSE [main EXCEPT !.pc = "forget"]
    /\ OnlyMain

\* ... and a write
ReleaseWrite ==
    /\ main.pc = "write"
    /\ freshN' = main.n - 1
    /\ main' = [main EXCEPT !.pc = "forget", !.n = 0]
    /\ UNCHANGED <<storeVars, broker, armed, counted, requested, benchVars,
                   guardVars, breakerVars, trig, flat, stale>>

\* pop the order, and only then let its symbol signal again
Forget ==
    /\ main.pc = "forget"
    /\ Disarm(main.order)
    /\ requested' = requested \ {sym[main.order]}
    /\ main' = [main EXCEPT !.pc = "scan", !.order = None]
    /\ UNCHANGED <<storeVars, broker, counted, benchVars, guardVars, freshN,
                   breakerVars, trig, flat, stale>>

ScanDone ==
    /\ main.pc = "scan"
    /\ main.todo = {}
    /\ main' = IdleMain
    /\ OnlyMain

ExpireStaleEntries ==
    \/ \E B \in SUBSET prevHeld : NoteExits(B)
    \/ NoteExitsUnread
    \/ \E held \in {Held, snap} : ReadOrders(held)
    \/ ListArmed
    \/ \E o \in main.todo :
            \/ ScanVanished(o) \/ ScanFilled(o) \/ ScanCancelled(o)
            \/ ScanKeeps(o) \/ ScanStale(o)
    \/ BackOutCancel \/ BackOutBench \/ ReleaseRead \/ ReleaseWrite \/ Forget
    \/ ScanDone

-----------------------------------------------------------------------------
(* _daily_loss_breach: what the account read says *)

\* a failed read lets entries through until FailLimit reads in a row failed
\* (_data_halt is failures = FailLimit); a good read clears the count
Reads == {"good"} \cup (Faults \cap {"read_fails"})
\* mutant of AfterRead: the count of failures is not held at the limit
CountsOn(r) == IF r = "good" THEN 0 ELSE failures + 1

AfterRead(r) == IF r = "good" THEN 0
                ELSE IF failures < FailLimit THEN failures + 1 ELSE FailLimit
Blocked(r) == halted \/ sessionClosed \/ AfterRead(r) = FailLimit
ReadEquity(r) == failures' = IF halted \/ sessionClosed THEN failures
                             ELSE AfterRead(r)

SnapshotFull == Cardinality(snap) >= MaxConcurrent

\* mutant of CapReached: one entry too many
CapReachedLate == FreshCap > 0 /\ freshN > FreshCap

CapReached == FreshCap > 0 /\ freshN >= FreshCap

\* mutant of Eligible: names requested in this session are not remembered
EligibleAgain(s) ==
    /\ s \notin snap
    /\ s \notin PendingSymbols
    /\ cooldown[s] = "clear"
    /\ s \notin exited

\* the per-symbol dedup shared by the two entry paths
Eligible(s) ==
    /\ s \notin snap
    /\ s \notin PendingSymbols
    /\ s \notin requested
    /\ cooldown[s] = "clear"
    /\ s \notin exited

\* the uuid of a new request
Unused(o) == log[o] = {}

\* execute, then arm what rests
Submit(o, out, kinds) ==
    /\ Record(o, kinds \cup ExecuteLog(out))
    /\ broker' = [broker EXCEPT ![o] = ExecuteBroker(out)]
    /\ armed' = IF Rests(out) THEN [armed EXCEPT ![o] = "grace"] ELSE armed

-----------------------------------------------------------------------------
(***************************************************************************)
(* The trigger thread: submit_breakout_now.  The lock is held from the     *)
(* breach check to the last write; the guard can act before the count of   *)
(* the day's entries is written back.                                      *)
(***************************************************************************)

TriggerSubmit(s, o, r, out) ==
    /\ LockFree
    /\ ~Blocked(r)
    /\ ~SnapshotFull
    /\ ~CapReached
    /\ Eligible(s)
    /\ Unused(o)
    /\ ReadEquity(r)
    /\ sym' = [sym EXCEPT ![o] = s]
    /\ auto' = auto \cup {o}
    /\ Submit(o, out, {"requested", "approved"})
    /\ requested' = requested \cup {s}
    /\ trig' = IF Accepted(out) /\ FreshCap > 0
               THEN [pc |-> "count", order |-> o, n |-> freshN] ELSE IdleTrig
    /\ UNCHANGED <<snap, counted, benchVars, guardVars, freshN, halted,
                   sessionClosed, main, flat, stale>>

\* n += 1, and mark the entry as having consumed a slot if it is armed
TriggerCount ==
    /\ trig.pc = "count"
    /\ freshN' = trig.n + 1
    /\ counted' = IF armed[trig.order] # "no" THEN counted \cup {trig.order}
                  ELSE counted
    /\ trig' = IdleTrig
    /\ UNCHANGED <<storeVars, broker, armed, requested, benchVars, guardVars,
                   breakerVars, main, flat, stale>>

\* any other gate holds the call back: all that is left of it is the read
TriggerSkip(r) ==
    /\ LockFree
    /\ ~halted /\ ~sessionClosed
    /\ ReadEquity(r)
    /\ UNCHANGED <<storeVars, broker, armed, counted, requested, benchVars,
                   guardVars, freshN, halted, sessionClosed, threadVars, stale>>

\* the day's loss reached the limit: halt for good, and flatten
TriggerBreach ==
    /\ LockFree
    /\ ~halted /\ ~sessionClosed
    /\ halted' = TRUE
    /\ failures' = 0
    /\ IF FlattenOnBreach
       THEN /\ trig' = [IdleTrig EXCEPT !.pc = "flatten"]
            /\ flat' = [by |-> "trig", todo |-> Armed]
       ELSE UNCHANGED <<trig, flat>>
    /\ UNCHANGED <<storeVars, broker, armed, counted, requested, benchVars,
                   guardVars, freshN, sessionClosed, main, stale>>

-----------------------------------------------------------------------------
(***************************************************************************)
(* The execution tick on the main thread: expire_stale_entries (a pass of  *)
(* the guard, which only fewer steps can interleave with: it is not        *)
(* repeated here), request_approvals_for_ready_signals, and                *)
(* process_auto_approvals.                                                 *)
(***************************************************************************)

GoTo(pc) == main' = [main EXCEPT !.pc = pc]

TickStart ==
    /\ main.pc = "idle"
    /\ LockFree
    /\ GoTo("request")
    /\ OnlyMain

TickOpen(r) ==
    /\ main.pc = "request"
    /\ ReadEquity(r)
    /\ GoTo(IF Blocked(r) \/ SnapshotFull THEN "approve" ELSE "signals")
    /\ UNCHANGED <<storeVars, broker, armed, counted, requested, benchVars,
                   guardVars, freshN, halted, sessionClosed, trig, flat, stale>>

TickBreach ==
    /\ main.pc = "request"
    /\ ~halted /\ ~sessionClosed
    /\ halted' = TRUE
    /\ failures' = 0
    /\ IF FlattenOnBreach
       THEN /\ GoTo("flatten")
            /\ flat' = [by |-> "main", todo |-> Armed]
       ELSE /\ GoTo("approve")
            /\ UNCHANGED flat
    /\ UNCHANGED <<storeVars, broker, armed, counted, requested, benchVars,
                   guardVars, freshN, sessionClosed, trig, stale>>

\* a ready signal passes every gate and becomes an approval request
TickRequest(s, o) ==
    /\ main.pc = "signals"
    /\ main.made < MaxPerTick
    /\ Eligible(s)
    /\ Unused(o)
    /\ Record(o, {"requested"})
    /\ sym' = [sym EXCEPT ![o] = s]
    /\ auto' = IF AutoApprove THEN auto \cup {o} ELSE auto
    /\ requested' = requested \cup {s}
    /\ main' = [main EXCEPT !.made = @ + 1]
    /\ UNCHANGED <<snap, broker, armed, counted, benchVars, guardVars, freshN,
                   breakerVars, trig, flat, stale>>

\* a gate (dilution veto, late confirmation, VWAP, quality, anti-chase) skips
\* the signal and remembers its symbol so that it is not evaluated again
TickSkip(s) ==
    /\ main.pc = "signals"
    /\ main.made < MaxPerTick
    /\ Eligible(s)
    /\ requested' = requested \cup {s}
    /\ UNCHANGED <<storeVars, broker, armed, counted, benchVars, guardVars,
                   freshN, breakerVars, threadVars, stale>>

TickSignalsDone ==
    /\ main.pc = "signals"
    /\ GoTo("approve")
    /\ OnlyMain

Approving(o) == main.pc = "approve" /\ AutoApprove /\ Pending(o) /\ o \in auto

\* approve_order(approved_by="auto"): the guard cannot be running here
ApproveAuto(o, out) ==
    /\ Approving(o)
    /\ ~CapReached
    /\ Submit(o, out, {"approved"})
    /\ LET counts == Accepted(out) /\ FreshCap > 0
       IN  /\ freshN' = IF counts THEN freshN + 1 ELSE freshN
           /\ counted' = IF counts /\ Rests(out) THEN counted \cup {o} ELSE counted
    /\ UNCHANGED <<sym, auto, snap, requested, benchVars, guardVars,
                   breakerVars, threadVars, stale>>

Reject(o) ==
    /\ Record(o, {"rejected"})
    /\ requested' = requested \ {sym[o]}

RejectCapped(o) ==
    /\ Approving(o)
    /\ CapReached
    /\ Reject(o)
    /\ UNCHANGED <<sym, auto, snap, broker, armed, counted, benchVars,
                   guardVars, freshN, breakerVars, threadVars, stale>>

TickDone ==
    /\ main.pc = "approve"
    /\ AutoApprove => \A o \in auto : ~Pending(o)
    /\ main' = IdleMain
    /\ OnlyMain

Tick ==
    \/ TickStart
    \/ \E r \in Reads : TickOpen(r)
    \/ TickBreach
    \/ \E s \in Symbols, o \in Orders : TickRequest(s, o)
    \/ \E s \in Symbols : TickSkip(s)
    \/ TickSignalsDone
    \/ \E o \in Orders, out \in Outcomes : ApproveAuto(o, out)
    \/ \E o \in Orders : RejectCapped(o)
    \/ TickDone

-----------------------------------------------------------------------------
(* The dashboard's requests *)

\* approve_order(approved_by="dashboard"): a person's decision, never capped
ManualApprove(o, out) ==
    /\ LockFree
    /\ Pending(o)
    /\ Submit(o, out, {"approved"})
    /\ UNCHANGED <<sym, auto, snap, counted, requested, benchVars, guardVars,
                   freshN, breakerVars, threadVars, stale>>

ManualReject(o) ==
    /\ LockFree
    /\ Pending(o)
    /\ Reject(o)
    /\ UNCHANGED <<sym, auto, snap, broker, armed, counted, benchVars,
                   guardVars, freshN, breakerVars, threadVars, stale>>

\* submit_exit_order: a plain close_position.  The broker refuses it while the
\* position's bracket legs reserve the shares (runtime/flatten.py).
ManualExit(s) ==
    /\ LockFree
    /\ s \in snap
    /\ \E o \in Orders : HeldOrder(o) /\ sym[o] = s
    /\ \A o \in Orders : sym[o] = s => broker[o] # "held"
    /\ CloseSymbols({s}, {})
    /\ UNCHANGED <<storeVars, armed, counted, requested, benchVars, guardVars,
                   freshN, breakerVars, threadVars, stale>>

Dashboard ==
    \/ \E o \in Orders : ManualReject(o) \/ \E out \in Outcomes : ManualApprove(o, out)
    \/ \E s \in Symbols : ManualExit(s)

-----------------------------------------------------------------------------
(***************************************************************************)
(* close_session and _flatten_all.  The flatten pops and cancels the armed *)
(* entries one by one, then closes what the synced snapshot holds.         *)
(***************************************************************************)

CloseSession ==
    /\ main.pc = "idle"
    /\ LockFree
    /\ sessionClosed' = TRUE
    /\ main' = [IdleMain EXCEPT !.pc = "eod"]
    /\ flat' = [by |-> "main", todo |-> Armed]
    /\ UNCHANGED <<storeVars, broker, armed, counted, requested, benchVars,
                   guardVars, freshN, halted, failures, trig, stale>>

FlattenEntry(o) ==
    /\ o \in flat.todo
    /\ armed[o] # "no"
    /\ Disarm(o)
    /\ CancelEntry(o)
    /\ requested' = requested \ {sym[o]}
    /\ flat' = [flat EXCEPT !.todo = @ \ {o}]
    /\ UNCHANGED <<sym, auto, snap, counted, benchVars, guardVars, freshN,
                   breakerVars, main, trig, stale>>

\* the guard popped the order after list(self._armed) was taken: the KeyError
\* leaves the flatten, the positions are not closed and no event is emitted
FlattenVanished(o) ==
    /\ o \in flat.todo
    /\ armed[o] = "no"
    /\ flat' = IdleFlat
    /\ trig' = IdleTrig
    /\ UNCHANGED <<storeVars, broker, armed, counted, requested, benchVars,
                   guardVars, freshN, breakerVars, main, stale>>

Fails(S) == IF "close_fails" \in Faults THEN SUBSET S ELSE {{}}

\* closing a name that is in the snapshot and no longer at the broker is an
\* error too: the event says halted_and_flattened only without errors
FlattenPositions(F) ==
    /\ flat.by # "nobody"
    /\ flat.todo = {}
    /\ F \in Fails(snap)
    /\ CloseSymbols(snap, F)
    /\ flat' = IdleFlat
    /\ IF flat.by = "trig"
       THEN trig' = IdleTrig /\ UNCHANGED main
       ELSE GoTo(IF main.pc = "eod" THEN "sweep" ELSE "approve") /\ UNCHANGED trig
    /\ UNCHANGED <<storeVars, armed, counted, requested, benchVars, guardVars,
                   freshN, breakerVars, stale>>

\* mutant of Sweep: the close relies on the snapshot alone
SweepSkipped(F) ==
    /\ main.pc = "sweep"
    /\ F = {}
    /\ main' = IdleMain
    /\ OnlyMain

\* close_session's belt and braces: close what the snapshot missed; an
\* unreadable broker leaves everything for the next retry
Sweep(F) ==
    /\ main.pc = "sweep"
    /\ \/ F \in Fails(Held)
       \/ F = Held /\ "read_fails" \in Faults
    /\ CloseSymbols(Held, F)
    /\ main' = IdleMain
    /\ UNCHANGED <<storeVars, armed, counted, requested, benchVars, guardVars,
                   freshN, breakerVars, trig, flat, stale>>

Flatten ==
    \/ CloseSession
    \/ \E o \in flat.todo : FlattenEntry(o) \/ FlattenVanished(o)
    \/ \E F \in SUBSET snap : FlattenPositions(F)
    \/ \E F \in SUBSET Held : Sweep(F)

Trigger ==
    \/ \E s \in Symbols, o \in Orders, r \in Reads, out \in Outcomes :
            TriggerSubmit(s, o, r, out)
    \/ TriggerCount
    \/ \E r \in Reads : TriggerSkip(r)
    \/ TriggerBreach

-----------------------------------------------------------------------------
(* The account sync, the broker, time, and the process itself *)

\* sync_account_positions: the positions snapshot everyone but the guard reads
SyncPositions ==
    /\ main.pc = "idle"
    /\ snap' = Held
    /\ UNCHANGED <<log, sym, auto, broker, armed, counted, requested, benchVars,
                   guardVars, freshN, breakerVars, threadVars, stale>>

BrokerMoves(o, b) ==
    /\ broker' = [broker EXCEPT ![o] = b]
    /\ UNCHANGED <<storeVars, armed, counted, requested, benchVars, guardVars,
                   freshN, breakerVars, threadVars, stale>>

Fill(o) == broker[o] = "open" /\ BrokerMoves(o, "held")
\* the bracket's stop or target fills; the broker ends an unfilled order
BracketExit(o) == broker[o] = "held" /\ BrokerMoves(o, "closed")
OrderEnds(o) == broker[o] = "open" /\ BrokerMoves(o, "canceled")

\* the grace window elapses, then the time box
Age(o) ==
    /\ armed[o] \in {"grace", "resting"}
    /\ armed' = [armed EXCEPT ![o] = IF @ = "grace" THEN "resting" ELSE "expired"]
    /\ UNCHANGED <<storeVars, broker, counted, requested, benchVars, guardVars,
                   freshN, breakerVars, threadVars, stale>>

\* _in_cooldown: a timed bench is over (and forgotten) once its time has passed;
\* backout_cooldown_seconds is a setting, so it may be over before the next sync
CooldownElapses(s) ==
    /\ cooldown[s] = "timed"
    /\ cooldown' = [cooldown EXCEPT ![s] = "clear"]
    /\ UNCHANGED <<storeVars, broker, armed, counted, requested, backouts,
                   guardVars, freshN, breakerVars, threadVars, stale>>

\* the first entry of a new date restarts the day's count
NewDay ==
    /\ "midnight" \in Faults
    /\ trig.pc = "idle" /\ main.pc # "write"
    /\ freshN' = 0
    /\ UNCHANGED <<storeVars, broker, armed, counted, requested, benchVars,
                   guardVars, breakerVars, threadVars, stale>>

\* __init__: everything in memory is lost, the store and the broker are not
Restart ==
    /\ "restart" \in Faults
    /\ armed' = [o \in Orders |-> "no"]
    /\ counted' = {} /\ requested' = {}
    /\ cooldown' = [s \in Symbols |-> "clear"]
    /\ backouts' = [s \in Symbols |-> 0]
    /\ exited' = {} /\ prevHeld' = {}
    /\ freshN' = 0
    /\ halted' = FALSE /\ failures' = 0 /\ sessionClosed' = FALSE
    /\ main' = IdleMain /\ trig' = IdleTrig /\ flat' = IdleFlat
    /\ stale' = stale \cup PendingSymbols
    /\ UNCHANGED <<storeVars, broker>>

Environment ==
    \/ SyncPositions
    \/ \E o \in Orders : \/ Fill(o) \/ BracketExit(o) \/ OrderEnds(o) \/ Age(o)
    \/ \E s \in Symbols : CooldownElapses(s)
    \/ NewDay
    \/ Restart

Next == ExpireStaleEntries \/ Tick \/ Trigger \/ Dashboard \/ Flatten \/ Environment

Spec == Init /\ [][Next]_vars

(***************************************************************************)
(* Fairness.  The scheduler runs every task when it is due, so a guard     *)
(* pass starts again and again (main may be busy with a tick in between,   *)
(* hence SF); a task or a locked operation that was started goes on; time  *)
(* passes for a resting entry.  Nothing is assumed of the broker, of the   *)
(* dashboard or of signals.                                                *)
(***************************************************************************)
GuardStarts == (\E B \in SUBSET prevHeld : NoteExits(B)) \/ NoteExitsUnread
MainGoesOn == main.pc # "idle" /\ (ExpireStaleEntries \/ Tick \/ Flatten)
TrigGoesOn == TriggerCount \/ (flat.by = "trig" /\ Flatten)

FairSpec ==
    /\ Spec
    /\ SF_vars(GuardStarts)
    /\ WF_vars(MainGoesOn)
    /\ WF_vars(TrigGoesOn)
    /\ \A o \in Orders : WF_vars(Age(o))

-----------------------------------------------------------------------------
(* Properties *)

ArmedStates == {"no", "grace", "resting", "expired"}
BackOutPCs == {"cancel", "bench", "release", "write", "forget"}
MainPCs == {"idle", "read", "list", "scan"} \cup BackOutPCs \cup LockedPCs

MainType ==
    [pc : MainPCs, todo : SUBSET Orders, filled : SUBSET Orders,
     cancelled : SUBSET Orders, held : SUBSET Symbols,
     order : Orders \cup {None}, n : Int, made : Nat]
TrigType ==
    [pc : {"idle", "count", "flatten"}, order : Orders \cup {None}, n : Int]
FlatType == [by : {"nobody", "main", "trig"}, todo : SUBSET Orders]

\* Every variable has its type, and a thread's locals are those of its place.
TypeOK ==
    /\ log \in [Orders -> SUBSET EventKinds]
    /\ sym \in [Orders -> Symbols \cup {None}]
    /\ auto \subseteq Orders
    /\ snap \subseteq Symbols
    /\ broker \in [Orders -> BrokerStates]
    /\ armed \in [Orders -> ArmedStates]
    /\ counted \subseteq Orders
    /\ requested \subseteq Symbols
    /\ cooldown \in [Symbols -> {"clear", "timed", "session"}]
    /\ backouts \in [Symbols -> Nat]
    /\ exited \subseteq Symbols /\ prevHeld \subseteq Symbols
    /\ freshN \in Int
    /\ halted \in BOOLEAN /\ sessionClosed \in BOOLEAN
    /\ failures \in 0..FailLimit
    /\ main \in MainType /\ trig \in TrigType /\ flat \in FlatType
    /\ main.pc \in BackOutPCs => main.order \in Orders
    /\ trig.pc = "count" => trig.order \in Orders
    /\ stale \subseteq Symbols

Tracked(o) == Pending(o) \/ armed[o] # "no"

\* The dedup of both entry paths: a symbol has at most one entry that is waiting
\* for approval or armed, whichever path it came by and whatever the unlocked
\* guard is doing.  The exception is a request that was pending when the process
\* was restarted: approving it arms an entry whose symbol nobody remembers.
OneEntryPerSymbol ==
    \A p, q \in Orders :
        Tracked(p) /\ Tracked(q) /\ p # q /\ sym[p] = sym[q] => sym[p] \in stale

\* o doubles another entry of its symbol that was recorded as cancelled while it
\* was filling: cancel_entry reports success whatever the broker answered.
Doubles(o) ==
    \E q \in Orders \ {o} :
        /\ sym[q] = sym[o] /\ "cancelled" \in log[q]
        /\ broker[q] \in {"held", "naked", "closed"}

\* Unless a cancel is refused, a submit's answer is lost or the process restarts,
\* an order that rests at the broker is one the service tracks, so that it will be
\* backed out: the guard forgets an entry only when it is known to be filled or
\* cancelled.  The exception is an entry that doubles one lost to a cancel/fill
\* race: the guard takes the other's position for its fill.
OpenIsTracked ==
    \A o \in Orders : broker[o] = "open" => armed[o] # "no" \/ Doubles(o)

\* The count of the day's entries stays within the cap, and is never negative,
\* although the guard decrements it outside the lock.
CountWithinCap == FreshCap > 0 => freshN \in 0..FreshCap

NewRequest(o, s) == log[o] = {} /\ log'[o] # {} /\ sym'[o] = s

\* A symbol that was backed out max_backouts_per_symbol times is not requested
\* again until a restart, although its bench is written outside the lock while
\* the trigger thread checks it.
BenchHolds ==
    [][\A o \in Orders, s \in Symbols :
            NewRequest(o, s) => MaxBackouts = 0 \/ backouts[s] < MaxBackouts]_vars

\* With auto approval, and the broker answering, close_session leaves the account
\* flat and it stays flat: no order rests and no position is open once the day is
\* closed, although the snapshot the flatten uses lags and entries fill while it
\* runs (but for the doubled entries of OpenIsTracked).
FlatAfterClose ==
    sessionClosed /\ main.pc = "idle" =>
        \A o \in Orders : broker[o] \in {"open", "held", "naked"} => Doubles(o)

\* Every armed entry is resolved: filled, cancelled or backed out.
ArmedResolves == \A o \in Orders : armed[o] # "no" ~> armed[o] = "no"
-----------------------------------------------------------------------------
(* The order's life, as OrderLifecycle tells it *)

DecisionOf(o) ==
    IF "approved" \in log[o] THEN "approved"
    ELSE IF "rejected" \in log[o] THEN "rejected"
    ELSE IF "requested" \in log[o] THEN "pending" ELSE "none"

PlaceOf(o) ==
    CASE broker[o] = "none" -> "nowhere"
      [] broker[o] = "open" -> "working"
      [] broker[o] \in {"held", "naked"} -> "position"
      [] OTHER -> "over"

Lifecycle == INSTANCE OrderLifecycle WITH
    decision <- [o \in Orders |-> DecisionOf(o)],
    place <- [o \in Orders |-> PlaceOf(o)]

\* The service keeps the promise of OrderLifecycle for every order, whichever of
\* its three threads acts on it, with every fault, and across restarts.
ImplementsLifecycle == Lifecycle!Spec
=============================================================================

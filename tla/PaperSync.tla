----------------------------- MODULE PaperSync -----------------------------
(***************************************************************************)
(* The account sync (alpaca_paper/sync.py): every 60 s it reads account,   *)
(* positions and orders, records a snapshot of each in the event store,    *)
(* and journals a close for every symbol that was in the previous          *)
(* positions snapshot and is not in this one.  The previous snapshot is in *)
(* memory; after a restart it is the last one the store has.               *)
(*                                                                         *)
(* A position is a lot: the n-th position of its symbol.  A fill of its    *)
(* exit is known by its lot.  Quantities are left out: a lot is held or    *)
(* not.                                                                    *)
(***************************************************************************)
EXTENDS Integers, FiniteSets, Sequences

CONSTANTS
    Symbols,
    MaxLots,      \* positions of a symbol, one after the other
    MaxSyncs,     \* bound on the syncs of a run
    FaultSets     \* the combinations of faults a run may see

(* read_fails   positions or orders cannot be read                         *)
(* emit_fails   the store refuses a snapshot or a close event             *)
(* crash        the process dies and is started again                      *)
FaultKinds == {"read_fails", "emit_fails", "crash"}

ASSUME SyncAssumption ==
    /\ MaxLots \in Nat \ {0} /\ MaxSyncs \in Nat
    /\ FaultSets \subseteq SUBSET FaultKinds

Lots == Symbols \X (1..MaxLots)

VARIABLES
    held,     \* the broker: the lots that are open
    lots,     \* the broker: how many lots each symbol has had
    stored,   \* the event store: the last positions snapshot
    journal,  \* the event store: closes, each with its lot and the fill it used
    prev,     \* _prev_positions
    seeded,   \* _prev_positions is not None
    pass,     \* where the sync is, and its locals
    syncs,    \* the number of syncs, for the bound
    shown,    \* history: the lots that were in a snapshot
    down,     \* history: the lots that closed before a process's first sync
    faults    \* which faults this behaviour may see

vars == <<held, lots, stored, journal, prev, seeded, pass, syncs, shown, down,
          faults>>
storeVars == <<stored, journal>>
baseVars == <<prev, seeded>>

Idle == [pc |-> "idle", got |-> {}, ok |-> FALSE, fills |-> {}, todo |-> {}]

Init ==
    /\ held = {}
    /\ lots = [s \in Symbols |-> 0]
    /\ stored = {}
    /\ journal = <<>>
    /\ prev = {}
    /\ seeded = FALSE
    /\ pass = Idle
    /\ syncs = 0
    /\ shown = {}
    /\ down = {}
    /\ faults \in FaultSets

-----------------------------------------------------------------------------
(* The broker *)

Enters(s) ==
    /\ lots[s] < MaxLots
    /\ \A l \in held : l[1] # s
    /\ lots' = [lots EXCEPT ![s] = @ + 1]
    /\ held' = held \cup {<<s, lots[s] + 1>>}
    /\ UNCHANGED <<storeVars, baseVars, pass, syncs, shown, down, faults>>

Exits(l) ==
    /\ l \in held
    /\ held' = held \ {l}
    /\ down' = IF seeded THEN down ELSE down \cup {l}
    /\ UNCHANGED <<lots, storeVars, baseVars, pass, syncs, shown, faults>>

Over == {l \in Lots : l[2] <= lots[l[1]] /\ l \notin held}

-----------------------------------------------------------------------------
(* sync_all *)

\* _load_last_persisted_positions
Seed == stored

\* the base of the diff is seeded before a fresh snapshot is recorded
SyncStart ==
    /\ pass.pc = "idle"
    /\ syncs < MaxSyncs
    /\ syncs' = syncs + 1
    /\ prev' = IF seeded THEN prev ELSE Seed
    /\ seeded' = TRUE
    /\ pass' = [Idle EXCEPT !.pc = "positions"]
    /\ UNCHANGED <<held, lots, storeVars, shown, down, faults>>

\* sync_positions: a failed read is None, and records no snapshot
SyncPositions ==
    /\ pass.pc = "positions"
    /\ \/ /\ pass' = [pass EXCEPT !.pc = "orders", !.got = held, !.ok = TRUE]
          /\ stored' = held
          /\ shown' = shown \cup held
       \/ /\ "read_fails" \in faults
          /\ pass' = [pass EXCEPT !.pc = "orders"]
          /\ UNCHANGED <<stored, shown>>
    /\ UNCHANGED <<held, lots, journal, baseVars, syncs, down, faults>>

\* the store refuses a snapshot: sync_all raises, and the base stays
SnapshotRefused ==
    /\ "emit_fails" \in faults
    /\ pass.pc \in {"positions", "orders"}
    /\ pass' = Idle
    /\ UNCHANGED <<held, lots, storeVars, baseVars, syncs, shown, down, faults>>

Names(ls) == {l[1] : l \in ls}

\* mutant of SyncOrders: a failed read of the positions is an empty account
SyncForgets ==
    /\ pass.pc = "orders"
    /\ pass' = IF pass.ok
               THEN [pass EXCEPT !.pc = "reconcile", !.fills = Over,
                        !.todo = {l \in prev : l[1] \notin Names(pass.got)}]
               ELSE Idle
    /\ prev' = IF pass.ok THEN prev ELSE {}
    /\ UNCHANGED <<held, lots, storeVars, seeded, syncs, shown, down, faults>>

\* sync_orders, and what the diff will have to journal
SyncOrders ==
    /\ pass.pc = "orders"
    /\ \E fills \in {Over} \cup (IF "read_fails" \in faults THEN {{}} ELSE {}) :
        pass' = IF pass.ok
                THEN [pass EXCEPT !.pc = "reconcile", !.fills = fills,
                         !.todo = {l \in prev : l[1] \notin Names(pass.got)}]
                ELSE Idle
    /\ UNCHANGED <<held, lots, storeVars, baseVars, syncs, shown, down, faults>>

\* mutant of LatestFill: the fills in the order they were made
EarliestFill(s) ==
    LET of == {l \in pass.fills : l[1] = s}
    IN  IF of = {} THEN 0 ELSE CHOOSE n \in 1..MaxLots :
            <<s, n>> \in of /\ \A l \in of : l[2] >= n

\* _find_exit: the latest filled exit of the symbol, or none: the last mark
LatestFill(s) ==
    LET of == {l \in pass.fills : l[1] = s}
    IN  IF of = {} THEN 0 ELSE CHOOSE n \in 1..MaxLots :
            <<s, n>> \in of /\ \A l \in of : l[2] <= n

\* reconcile_closed
JournalClose(l) ==
    /\ pass.pc = "reconcile"
    /\ l \in pass.todo
    /\ journal' = Append(journal, [lot |-> l, fill |-> LatestFill(l[1])])
    /\ pass' = [pass EXCEPT !.todo = @ \ {l}]
    /\ UNCHANGED <<held, lots, stored, baseVars, syncs, shown, down, faults>>

\* mutant of SyncEnds: the base of the next diff stays
SyncKeepsBase ==
    /\ pass.pc = "reconcile"
    /\ pass.todo = {}
    /\ pass' = Idle
    /\ UNCHANGED <<held, lots, storeVars, baseVars, syncs, shown, down, faults>>

\* mutant of SyncEnds: the base moves on before the closes are journaled
SyncMovesFirst ==
    /\ pass.pc = "reconcile"
    /\ prev' = pass.got
    /\ pass' = IF pass.todo = {} THEN Idle ELSE pass
    /\ UNCHANGED <<held, lots, storeVars, seeded, syncs, shown, down, faults>>

\* the base moves on, also after a journal that failed half way
SyncEnds ==
    /\ pass.pc = "reconcile"
    /\ pass.todo = {} \/ "emit_fails" \in faults
    /\ prev' = pass.got
    /\ pass' = Idle
    /\ UNCHANGED <<held, lots, storeVars, seeded, syncs, shown, down, faults>>

Crash ==
    /\ "crash" \in faults
    /\ prev' = {}
    /\ seeded' = FALSE
    /\ pass' = Idle
    /\ UNCHANGED <<held, lots, storeVars, syncs, shown, down, faults>>

SyncAll ==
    \/ SyncStart \/ SyncPositions \/ SyncOrders \/ SnapshotRefused
    \/ \E l \in pass.todo : JournalClose(l)
    \/ SyncEnds

Next ==
    \/ SyncAll
    \/ \E s \in Symbols : Enters(s)
    \/ \E l \in held : Exits(l)
    \/ Crash

Spec == Init /\ [][Next]_vars

-----------------------------------------------------------------------------
(* Properties *)

\* Every variable has its type, and what is to be journaled was in the base.
TypeOK ==
    /\ held \subseteq Lots /\ stored \subseteq Lots /\ shown \subseteq Lots
    /\ down \subseteq Lots
    /\ lots \in [Symbols -> 0..MaxLots]
    /\ \A i \in 1..Len(journal) : journal[i] \in [lot : Lots, fill : 0..MaxLots]
    /\ prev \subseteq Lots /\ seeded \in BOOLEAN
    /\ pass.pc \in {"idle", "positions", "orders", "reconcile"}
    /\ pass.got \subseteq Lots /\ pass.fills \subseteq Lots
    /\ pass.todo \subseteq prev
    /\ syncs \in 0..MaxSyncs
    /\ faults \in FaultSets

\* A close is journaled once, and only of a position that is over: across syncs
\* that fail half way, crashes between a snapshot and its closes, and restarts.
JournaledOnce ==
    /\ \A i, j \in 1..Len(journal) :
        journal[i].lot = journal[j].lot => i = j
    /\ \A i \in 1..Len(journal) : journal[i].lot \in Over

\* The exit price of a close is never that of an earlier position of the symbol: it
\* is its own exit, a later one, or the last mark when no exit was read.  (A later
\* one: the symbol was entered and closed again before the sync saw it.)
ExitNotOlder ==
    \A i \in 1..Len(journal) :
        journal[i].fill = 0 \/ journal[i].fill >= journal[i].lot[2]

Journaled(l) == \E i \in 1..Len(journal) : journal[i].lot = l

\* A position that was in a snapshot and whose symbol was not entered again is
\* journaled by the time a sync that began after its close is over: nothing that
\* the diff can see is lost while the store accepts events and no crash falls
\* between a snapshot and its closes.
ShownCloseJournaled ==
    faults \subseteq {"read_fails"} /\ pass.pc = "idle" /\ seeded =>
        \A l \in shown :
            l \in Over /\ lots[l[1]] = l[2] /\ l \notin prev => Journaled(l)
=============================================================================

---------------------------- MODULE OrderProofs ----------------------------
(***************************************************************************)
(* More proofs about TradingExecution: the life of an order, the bench,    *)
(* the day's cap, and what is left at the broker.  They rest on the        *)
(* inductive invariant EntryInv of TradingExecutionProofs.                 *)
(***************************************************************************)
EXTENDS TradingExecutionProofs

-----------------------------------------------------------------------------
(***************************************************************************)
(* Only seven kinds of steps touch the event store or the broker.          *)
(***************************************************************************)

Leaves == UNCHANGED <<log, sym, broker>>

Requests(s, o) ==
    /\ main.pc = "signals" /\ main'.pc = "signals"
    /\ AutoApprove => o \in auto'
    /\ Unused(o) /\ Eligible(s)
    /\ Record(o, {"requested"})
    /\ sym' = [sym EXCEPT ![o] = s]
    /\ broker' = broker

Decides(o, out) ==
    /\ Pending(o)
    /\ Submit(o, out, {"approved"})
    /\ sym' = sym

Triggers(s, o, out) ==
    /\ ~halted /\ ~sessionClosed
    /\ Unused(o) /\ Eligible(s)
    /\ Submit(o, out, {"requested", "approved"})
    /\ sym' = [sym EXCEPT ![o] = s]

Refuses(o) ==
    /\ Pending(o)
    /\ Record(o, {"rejected"})
    /\ sym' = sym /\ broker' = broker

Cancels(o) ==
    /\ "approved" \in log[o]
    /\ CancelEntry(o)
    /\ sym' = sym

BrokerStep(o) ==
    \/ broker'[o] = broker[o]
    \/ broker[o] = "open" /\ broker'[o] \in {"held", "canceled"}
    \/ HeldOrder(o) /\ broker'[o] \in {"naked", "closed"}

BrokerActs ==
    /\ log' = log /\ sym' = sym
    /\ \A o \in Orders : BrokerStep(o)

StoreStep ==
    \/ Leaves
    \/ \E s \in Symbols, o \in Orders : Requests(s, o)
    \/ \E o \in Orders, out \in Outcomes : Decides(o, out)
    \/ \E s \in Symbols, o \in Orders, out \in Outcomes : Triggers(s, o, out)
    \/ \E o \in Orders : Refuses(o)
    \/ \E o \in Orders : Cancels(o)
    \/ BrokerActs

\* Closing symbols only moves positions.
LEMMA ClosingActs ==
    ASSUME TypeOK, NEW S, NEW F, CloseSymbols(S, F)
    PROVE  \A o \in Orders : BrokerStep(o)
  BY DEF CloseSymbols, BrokerStep

\* One order moves at the broker.
LEMMA MovingActs ==
    ASSUME TypeOK, NEW p \in Orders, Fill(p) \/ BracketExit(p) \/ OrderEnds(p)
    PROVE  BrokerActs
  BY DEF Fill, BracketExit, OrderEnds, BrokerMoves, BrokerActs, BrokerStep, TypeOK,
         HeldOrder, storeVars

\* A pass of the guard writes to the store only by cancelling an approved entry.
LEMMA GuardStore == EntryInv /\ ExpireStaleEntries => StoreStep
<1> SUFFICES ASSUME EntryInv, ExpireStaleEntries PROVE StoreStep
  OBVIOUS
<1>1. CASE BackOutCancel
  <2>1. main.pc \in BackOutPCs /\ main.order \in Orders /\ "approved" \in log[main.order]
    BY <1>1 DEF BackOutCancel, BackOutPCs, EntryInv, BackOutAlone, TypeInv, TypeOK
  <2>2. Cancels(main.order)
    BY <1>1, <2>1 DEF BackOutCancel, Cancels
  <2> QED BY <2>1, <2>2 DEF StoreStep
<1>2. CASE ~BackOutCancel
  <2>1. Leaves
    BY <1>2 DEF ExpireStaleEntries, Leaves, storeVars, OnlyMain, NoteExits, NoteExitsUnread,
       ReadOrders, ListArmed, ScanVanished, ScanFilled, ScanCancelled, ScanKeeps,
       ScanStale, BackOutBench, ReleaseRead, ReleaseWrite, Forget, ScanDone
  <2> QED BY <2>1 DEF StoreStep
<1> QED BY <1>1, <1>2

\* The tick requests, and decides what is pending.
LEMMA TickStore == EntryInv /\ Tick => StoreStep
<1> SUFFICES ASSUME EntryInv, Tick PROVE StoreStep
  OBVIOUS
<1>1. ASSUME NEW s \in Symbols, NEW o \in Orders, TickRequest(s, o) PROVE StoreStep
  <2>1. main.pc = "signals" /\ main'.pc = "signals"
    BY <1>1 DEF TickRequest, EntryInv, TypeInv, TypeOK, MainType
  <2>2. Requests(s, o)
    BY <1>1, <2>1 DEF TickRequest, Requests
  <2> QED BY <2>2 DEF StoreStep
<1>2. ASSUME NEW o \in Orders, NEW out \in Outcomes, ApproveAuto(o, out) PROVE StoreStep
  <2>1. Decides(o, out)
    BY <1>2 DEF ApproveAuto, Approving, Decides
  <2> QED BY <2>1 DEF StoreStep
<1>3. ASSUME NEW o \in Orders, RejectCapped(o) PROVE StoreStep
  <2>1. Refuses(o)
    BY <1>3 DEF RejectCapped, Approving, Reject, Refuses
  <2> QED BY <2>1 DEF StoreStep
<1>4. ASSUME \/ TickStart \/ \E r \in Reads : TickOpen(r)
             \/ TickBreach \/ \E s \in Symbols : TickSkip(s)
             \/ TickSignalsDone \/ TickDone
      PROVE  StoreStep
  <2>1. Leaves
    BY <1>4 DEF Leaves, storeVars, OnlyMain, TickStart, TickOpen, TickBreach, TickSkip,
       TickSignalsDone, TickDone
  <2> QED BY <2>1 DEF StoreStep
<1> QED BY <1>1, <1>2, <1>3, <1>4 DEF Tick

\* The trigger thread requests and approves in one step.
LEMMA TriggerStore == EntryInv /\ Trigger => StoreStep
<1> SUFFICES ASSUME EntryInv, Trigger PROVE StoreStep
  OBVIOUS
<1>1. ASSUME NEW s \in Symbols, NEW o \in Orders, NEW r \in Reads, NEW out \in Outcomes,
             TriggerSubmit(s, o, r, out)
      PROVE  StoreStep
  <2>1. Triggers(s, o, out)
    BY <1>1 DEF TriggerSubmit, Triggers, Blocked
  <2> QED BY <2>1 DEF StoreStep
<1>2. ASSUME TriggerCount \/ (\E r \in Reads : TriggerSkip(r)) \/ TriggerBreach
      PROVE  StoreStep
  <2>1. Leaves
    BY <1>2 DEF Leaves, storeVars, TriggerCount, TriggerSkip, TriggerBreach
  <2> QED BY <2>1 DEF StoreStep
<1> QED BY <1>1, <1>2 DEF Trigger

\* The dashboard decides what is pending, and closes positions.
LEMMA DashboardStore == EntryInv /\ Dashboard => StoreStep
<1> SUFFICES ASSUME EntryInv, Dashboard PROVE StoreStep
  OBVIOUS
<1>1. ASSUME NEW o \in Orders, NEW out \in Outcomes, ManualApprove(o, out) PROVE StoreStep
  <2>1. Decides(o, out)
    BY <1>1 DEF ManualApprove, Decides
  <2> QED BY <2>1 DEF StoreStep
<1>2. ASSUME NEW o \in Orders, ManualReject(o) PROVE StoreStep
  <2>1. Refuses(o)
    BY <1>2 DEF ManualReject, Reject, Refuses
  <2> QED BY <2>1 DEF StoreStep
<1>3. ASSUME NEW s \in Symbols, ManualExit(s) PROVE StoreStep
  <2>1. CloseSymbols({s}, {}) /\ log' = log /\ sym' = sym
    BY <1>3 DEF ManualExit, storeVars
  <2>2. BrokerActs
    BY <2>1, ClosingActs DEF BrokerActs, EntryInv, TypeInv
  <2> QED BY <2>2 DEF StoreStep
<1> QED BY <1>1, <1>2, <1>3 DEF Dashboard

\* A flatten cancels approved entries and closes positions.
LEMMA FlattenStore == EntryInv /\ Flatten => StoreStep
<1> SUFFICES ASSUME EntryInv, Flatten PROVE StoreStep
  OBVIOUS
<1>0. TypeOK /\ ArmedApproved
  BY DEF EntryInv, TypeInv
<1>1. ASSUME NEW o \in flat.todo, FlattenEntry(o) PROVE StoreStep
  <2>1. o \in Orders /\ "approved" \in log[o]
    BY <1>0, <1>1 DEF FlattenEntry, ArmedApproved, TypeOK, FlatType
  <2>2. Cancels(o)
    BY <1>1, <2>1 DEF FlattenEntry, Cancels
  <2> QED BY <2>1, <2>2 DEF StoreStep
<1>2. ASSUME NEW F \in SUBSET snap, FlattenPositions(F) PROVE StoreStep
  <2>1. CloseSymbols(snap, F) /\ log' = log /\ sym' = sym
    BY <1>2 DEF FlattenPositions, storeVars
  <2>2. BrokerActs
    BY <1>0, <2>1, ClosingActs DEF BrokerActs
  <2> QED BY <2>2 DEF StoreStep
<1>3. ASSUME NEW F \in SUBSET Held, Sweep(F) PROVE StoreStep
  <2>1. CloseSymbols(Held, F) /\ log' = log /\ sym' = sym
    BY <1>3 DEF Sweep, storeVars
  <2>2. BrokerActs
    BY <1>0, <2>1, ClosingActs DEF BrokerActs
  <2> QED BY <2>2 DEF StoreStep
<1>4. ASSUME CloseSession \/ \E o \in flat.todo : FlattenVanished(o) PROVE StoreStep
  <2>1. Leaves
    BY <1>4 DEF Leaves, storeVars, CloseSession, FlattenVanished
  <2> QED BY <2>1 DEF StoreStep
<1> QED BY <1>1, <1>2, <1>3, <1>4 DEF Flatten

\* The broker moves orders on its own; the rest of the environment leaves them.
LEMMA EnvironmentStore == EntryInv /\ Environment => StoreStep
<1> SUFFICES ASSUME EntryInv, Environment PROVE StoreStep
  OBVIOUS
<1>0. TypeOK
  BY DEF EntryInv, TypeInv
<1>1. ASSUME NEW p \in Orders, Fill(p) \/ BracketExit(p) \/ OrderEnds(p) PROVE StoreStep
  BY <1>0, <1>1, MovingActs DEF StoreStep
<1>2. ASSUME \/ SyncPositions \/ \E o \in Orders : Age(o)
             \/ \E s \in Symbols : CooldownElapses(s)
             \/ NewDay \/ Restart
      PROVE  StoreStep
  <2>1. Leaves
    BY <1>2 DEF Leaves, storeVars, SyncPositions, Age, CooldownElapses, NewDay, Restart
  <2> QED BY <2>1 DEF StoreStep
<1> QED BY <1>1, <1>2 DEF Environment

\* Every step is of one of the seven kinds.
LEMMA EveryStoreStep == EntryInv /\ [Next]_vars => StoreStep
<1> SUFFICES ASSUME EntryInv, [Next]_vars PROVE StoreStep
  OBVIOUS
<1>1. CASE UNCHANGED vars
  BY <1>1 DEF vars, StoreStep, Leaves
<1> QED BY <1>1, GuardStore, TickStore, TriggerStore, DashboardStore, FlattenStore,
           EnvironmentStore DEF Next

-----------------------------------------------------------------------------
(***************************************************************************)
(* The order's life.  The refinement needs one fact of the reachable       *)
(* states: the broker knows only of orders that were approved.             *)
(***************************************************************************)

SentApproved == \A o \in Orders : broker[o] # "none" => "approved" \in log[o]

LifeInv == EntryInv /\ SentApproved

\* What a submit leaves in the store and at the broker.
LEMMA SubmitLeaves ==
    ASSUME TypeOK, NEW o \in Orders, NEW out \in Outcomes, NEW kinds, Submit(o, out, kinds)
    PROVE  /\ kinds \subseteq log'[o] /\ log'[o] = log[o] \cup kinds \cup ExecuteLog(out)
           /\ ExecuteLog(out) \subseteq {"submitted", "filled", "cancelled"}
           /\ broker'[o] \in {"none", "open", "held", "canceled"}
           /\ \A q \in Orders \ {o} : log'[q] = log[q] /\ broker'[q] = broker[q]
<1>1. /\ ExecuteLog(out) \subseteq {"submitted", "filled", "cancelled"}
      /\ ExecuteBroker(out) \in {"none", "open", "held", "canceled"}
  BY DEF Outcomes, ExecuteLog, ExecuteBroker
<1> QED BY <1>1 DEF Submit, Record, TypeOK

\* What a cancel leaves: the broker may have refused it, or not.
LEMMA CancelLeaves ==
    ASSUME TypeOK, NEW o \in Orders, CancelEntry(o)
    PROVE  /\ log' = [log EXCEPT ![o] = @ \cup {"cancelled"}]
           /\ \A q \in Orders : BrokerStep(q)
<1> PICK b \in AfterCancel(o) : broker' = [broker EXCEPT ![o] = b]
  BY DEF CancelEntry
<1>1. \/ b = broker[o]
      \/ broker[o] = "open" /\ b = "canceled"
      \/ broker[o] = "held" /\ b = "naked"
  BY DEF AfterCancel
<1>2. log' = [log EXCEPT ![o] = @ \cup {"cancelled"}]
  BY DEF CancelEntry, Record
<1> QED BY <1>1, <1>2 DEF TypeOK, BrokerStep, HeldOrder

\* A step in the life of one order, in the words of this module.
LifeStep(o) ==
    \/ /\ DecisionOf(o)' = DecisionOf(o)
       /\ \/ PlaceOf(o)' = PlaceOf(o)
          \/ PlaceOf(o) = "working" /\ PlaceOf(o)' = "position"
          \/ PlaceOf(o) \in {"working", "position"} /\ PlaceOf(o)' = "over"
    \/ /\ PlaceOf(o)' = PlaceOf(o)
       /\ \/ DecisionOf(o) = "none" /\ DecisionOf(o)' = "pending"
          \/ DecisionOf(o) = "pending" /\ DecisionOf(o)' = "rejected"
    \/ /\ DecisionOf(o) \in {"none", "pending"} /\ DecisionOf(o)' = "approved"
       /\ PlaceOf(o) = "nowhere"

\* The place of an order follows the broker's step, and its decision the store.
LEMMA BrokerLife ==
    ASSUME NEW o \in Orders, BrokerStep(o),
           \A k \in {"requested", "approved", "rejected"} : k \in log'[o] <=> k \in log[o]
    PROVE  LifeStep(o)
<1>1. DecisionOf(o)' = DecisionOf(o)
  BY DEF DecisionOf
<1>2. \/ PlaceOf(o)' = PlaceOf(o)
      \/ PlaceOf(o) = "working" /\ PlaceOf(o)' = "position"
      \/ PlaceOf(o) \in {"working", "position"} /\ PlaceOf(o)' = "over"
  BY DEF BrokerStep, PlaceOf, HeldOrder
<1> QED BY <1>1, <1>2 DEF LifeStep

\* Each kind of step keeps the broker's orders approved and moves every order by a
\* step of its life.
LEMMA LifeOfStep == LifeInv /\ StoreStep => SentApproved' /\ \A o \in Orders : LifeStep(o)
<1> SUFFICES ASSUME LifeInv, StoreStep
             PROVE  SentApproved' /\ \A o \in Orders : LifeStep(o)
  OBVIOUS
<1>0. TypeOK /\ SentApproved
  BY DEF LifeInv, EntryInv, TypeInv
<1>1. CASE Leaves
  <2>1. \A o \in Orders : BrokerStep(o) /\ log'[o] = log[o]
    BY <1>1 DEF Leaves, BrokerStep
  <2> QED BY <1>0, <1>1, <2>1, BrokerLife DEF SentApproved, Leaves
<1>2. ASSUME NEW s \in Symbols, NEW p \in Orders, Requests(s, p)
      PROVE  SentApproved' /\ \A o \in Orders : LifeStep(o)
  <2>1. /\ broker' = broker /\ log[p] = {} /\ log'[p] = {"requested"}
        /\ \A o \in Orders \ {p} : log'[o] = log[o]
    BY <1>0, <1>2 DEF Requests, Record, Unused, TypeOK
  <2>2. \A o \in Orders \ {p} : LifeStep(o)
    BY <2>1, BrokerLife DEF BrokerStep
  <2>3. LifeStep(p)
    BY <2>1 DEF LifeStep, DecisionOf, PlaceOf
  <2>4. SentApproved'
    BY <1>0, <2>1 DEF SentApproved
  <2> QED BY <2>2, <2>3, <2>4
<1>3. ASSUME NEW p \in Orders, NEW out \in Outcomes, NEW kinds \in SUBSET EventKinds,
             "approved" \in kinds, Submit(p, out, kinds), Pending(p) \/ Unused(p)
      PROVE  SentApproved' /\ \A o \in Orders : LifeStep(o)
  <2>1. /\ "approved" \in log'[p]
        /\ \A o \in Orders \ {p} : log'[o] = log[o] /\ broker'[o] = broker[o]
    BY <1>0, <1>3, SubmitLeaves
  <2>2. \A o \in Orders \ {p} : LifeStep(o)
    BY <2>1, BrokerLife DEF BrokerStep
  <2>3. /\ "approved" \notin log[p] /\ "rejected" \notin log[p]
        /\ broker[p] = "none"
    BY <1>0, <1>3 DEF Pending, Unused, SentApproved
  <2>6. DecisionOf(p) \in {"none", "pending"}
    BY <2>3 DEF DecisionOf
  <2>8. DecisionOf(p)' = "approved"
    BY <2>1 DEF DecisionOf
  <2>7. PlaceOf(p) = "nowhere"
    BY <2>3 DEF PlaceOf
  <2>4. LifeStep(p)
    BY <2>6, <2>7, <2>8 DEF LifeStep
  <2>5. SentApproved'
    BY <1>0, <2>1 DEF SentApproved
  <2> QED BY <2>2, <2>4, <2>5
<1>4. ASSUME NEW p \in Orders, Refuses(p)
      PROVE  SentApproved' /\ \A o \in Orders : LifeStep(o)
  <2>1. /\ broker' = broker /\ log'[p] = log[p] \cup {"rejected"}
        /\ \A o \in Orders \ {p} : log'[o] = log[o]
    BY <1>0, <1>4 DEF Refuses, Record, TypeOK
  <2>2. \A o \in Orders \ {p} : LifeStep(o)
    BY <2>1, BrokerLife DEF BrokerStep
  <2>3. LifeStep(p)
    BY <1>4, <2>1 DEF LifeStep, DecisionOf, PlaceOf, Refuses, Pending
  <2>4. SentApproved'
    BY <1>0, <2>1 DEF SentApproved
  <2> QED BY <2>2, <2>3, <2>4
<1>5. ASSUME NEW p \in Orders, Cancels(p)
      PROVE  SentApproved' /\ \A o \in Orders : LifeStep(o)
  <2>1. /\ \A q \in Orders : BrokerStep(q)
        /\ log' = [log EXCEPT ![p] = @ \cup {"cancelled"}]
        /\ "approved" \in log[p]
    BY <1>0, <1>5, CancelLeaves DEF Cancels
  <2>2. \A o \in Orders, k \in {"requested", "approved", "rejected"} :
            k \in log'[o] <=> k \in log[o]
    BY <1>0, <2>1 DEF TypeOK
  <2>3. SentApproved'
    BY <1>0, <2>1, <2>2 DEF SentApproved, BrokerStep, HeldOrder
  <2> QED BY <2>1, <2>2, <2>3, BrokerLife
<1>6. CASE BrokerActs
  <2>1. \A o \in Orders : BrokerStep(o) /\ log'[o] = log[o]
    BY <1>6 DEF BrokerActs
  <2>2. SentApproved'
    BY <1>0, <2>1 DEF SentApproved, BrokerStep, HeldOrder
  <2> QED BY <2>1, <2>2, BrokerLife
<1>7. ASSUME NEW o \in Orders, NEW out \in Outcomes, Decides(o, out)
      PROVE  SentApproved' /\ \A q \in Orders : LifeStep(q)
  <2>1. /\ {"approved"} \in SUBSET EventKinds
        /\ Submit(o, out, {"approved"}) /\ Pending(o)
    BY <1>7 DEF Decides, EventKinds
  <2> QED BY <2>1, <1>3
<1>8. ASSUME NEW s \in Symbols, NEW o \in Orders, NEW out \in Outcomes, Triggers(s, o, out)
      PROVE  SentApproved' /\ \A q \in Orders : LifeStep(q)
  <2>1. /\ {"requested", "approved"} \in SUBSET EventKinds
        /\ Submit(o, out, {"requested", "approved"}) /\ Unused(o)
    BY <1>8 DEF Triggers, EventKinds
  <2> QED BY <2>1, <1>3
<1> QED BY <1>1, <1>2, <1>4, <1>5, <1>6, <1>7, <1>8 DEF StoreStep

\* The invariant holds at the start and after every step.
LEMMA LifeInit == Init => LifeInv
  BY EntryInit DEF Init, LifeInv, SentApproved

\* Every step keeps what the order's life rests on.
LEMMA LifeNext == LifeInv /\ [Next]_vars => LifeInv'
  BY EntryNext, EveryStoreStep, LifeOfStep DEF LifeInv

\* Decisions and places are those of OrderLifecycle.
LEMMA LifeTypes == TypeOK => Lifecycle!TypeOK
<1> SUFFICES ASSUME TypeOK PROVE Lifecycle!TypeOK
  OBVIOUS
<1>1. \A o \in Orders : DecisionOf(o) \in {"none", "pending", "approved", "rejected"}
  BY DEF DecisionOf
<1>2. \A o \in Orders : PlaceOf(o) \in {"nowhere", "working", "position", "over"}
  BY DEF PlaceOf
<1> QED BY <1>1, <1>2 DEF Lifecycle!TypeOK, Lifecycle!Decisions, Lifecycle!Places

\* The service starts where OrderLifecycle starts.
LEMMA LifecycleInit == Init => Lifecycle!Init
<1> SUFFICES ASSUME Init PROVE Lifecycle!Init
  OBVIOUS
<1>1. \A o \in Orders : DecisionOf(o) = "none" /\ PlaceOf(o) = "nowhere"
  BY DEF Init, DecisionOf, PlaceOf
<1> QED BY <1>1 DEF Lifecycle!Init

\* Every step of the service is a step of OrderLifecycle.
LEMMA LifecycleNext == LifeInv /\ [Next]_vars => Lifecycle!Next
<1> SUFFICES ASSUME LifeInv, [Next]_vars PROVE Lifecycle!Next
  OBVIOUS
<1>1. TypeOK'
  BY LifeNext DEF LifeInv, EntryInv, TypeInv
<1>2. Lifecycle!TypeOK'
  BY <1>1, LifeTypes, PTL
<1>3. ASSUME NEW o \in Orders PROVE Lifecycle!OrderMoves(o)
  <2>1. LifeStep(o)
    BY EveryStoreStep, LifeOfStep DEF LifeInv
  <2>2. PlaceOf(o)' \in {"nowhere", "working", "position", "over"}
    BY DEF PlaceOf
  <2> QED BY <2>1, <2>2 DEF LifeStep, Lifecycle!OrderMoves, Lifecycle!Request,
             Lifecycle!Refuse, Lifecycle!Approve, Lifecycle!Fills, Lifecycle!Ends,
             Lifecycle!Stays, Lifecycle!Places
<1> QED BY <1>2, <1>3 DEF Lifecycle!Next

\* The service implements OrderLifecycle: whichever thread acts on it, with every
\* fault and across restarts, an order is decided once, sent only when approved, sent
\* once, and what the broker holds of it only moves forward.
THEOREM KeepsLifecycle == Spec => ImplementsLifecycle
<1>1. Spec => []LifeInv
  BY LifeInit, LifeNext, PTL DEF Spec
<1>2. LifeInv /\ [Next]_vars => [Lifecycle!Next]_(Lifecycle!vars)
  BY LifecycleNext
<1> QED BY <1>1, <1>2, LifecycleInit, PTL DEF Spec, ImplementsLifecycle, Lifecycle!Spec

-----------------------------------------------------------------------------
(***************************************************************************)
(* The bench of a symbol that was backed out too often.                    *)
(***************************************************************************)

\* A symbol at the cap is benched for the session: the count and the bench are
\* written together, and only a restart undoes either.
BenchedAtCap ==
    \A s \in Symbols :
        MaxBackouts > 0 /\ backouts[s] >= MaxBackouts => cooldown[s] = "session"

BenchInv == EntryInv /\ BenchedAtCap

\* Only a back-out, the end of a timed bench and a restart write the bench.
LEMMA BenchSteps ==
    ASSUME [Next]_vars
    PROVE  UNCHANGED benchVars \/ BackOutBench \/ Restart \/ \E s \in Symbols : CooldownElapses(s)
<1>1. CASE UNCHANGED vars
  BY <1>1 DEF vars, benchVars
<1>2. CASE ExpireStaleEntries
  BY <1>2 DEF ExpireStaleEntries, benchVars, OnlyMain, NoteExits, NoteExitsUnread, ReadOrders,
     ListArmed, ScanVanished, ScanFilled, ScanCancelled, ScanKeeps, ScanStale,
     BackOutCancel, ReleaseRead, ReleaseWrite, Forget, ScanDone
<1>3. CASE Tick
  BY <1>3 DEF Tick, benchVars, OnlyMain, TickStart, TickOpen, TickBreach, TickRequest,
     TickSkip, TickSignalsDone, ApproveAuto, RejectCapped, TickDone
<1>4. CASE Trigger
  BY <1>4 DEF Trigger, benchVars, TriggerSubmit, TriggerCount, TriggerSkip, TriggerBreach
<1>5. CASE Dashboard
  BY <1>5 DEF Dashboard, benchVars, ManualApprove, ManualReject, ManualExit
<1>6. CASE Flatten
  BY <1>6 DEF Flatten, benchVars, CloseSession, FlattenEntry, FlattenVanished,
     FlattenPositions, Sweep
<1>7. CASE Environment
  BY <1>7 DEF Environment, benchVars, SyncPositions, Fill, BracketExit, OrderEnds,
     BrokerMoves, Age, NewDay
<1> QED BY <1>1, <1>2, <1>3, <1>4, <1>5, <1>6, <1>7 DEF Next

\* The bench keeps up with the count of back-outs.
LEMMA BenchNext == BenchInv /\ [Next]_vars => BenchInv'
<1> SUFFICES ASSUME BenchInv, [Next]_vars PROVE BenchInv'
  OBVIOUS
<1>0. TypeOK /\ BenchedAtCap /\ EntryInv'
  BY EntryNext DEF BenchInv, EntryInv, TypeInv
<1>1. CASE UNCHANGED benchVars
  BY <1>0, <1>1 DEF BenchInv, BenchedAtCap, benchVars
<1>2. CASE BackOutBench
  <2>1. main.order \in Orders /\ sym[main.order] \in Symbols /\ RegisterBackout(sym[main.order])
    BY <1>2 DEF BenchInv, EntryInv, TypeInv, TypeOK, KnownSymbol, BackOutBench, BackOutPCs
  <2>2. ASSUME NEW s \in Symbols, RegisterBackout(s) PROVE BenchedAtCap'
    BY <1>0, <2>2, ConstantsAssumption DEF BenchedAtCap, RegisterBackout, TypeOK
  <2> QED BY <1>0, <2>1, <2>2 DEF BenchInv
<1>3. CASE Restart
  BY <1>0, <1>3, ConstantsAssumption DEF BenchInv, BenchedAtCap, Restart
<1>4. ASSUME NEW s \in Symbols, CooldownElapses(s) PROVE BenchInv'
  BY <1>0, <1>4 DEF BenchInv, BenchedAtCap, CooldownElapses, TypeOK
<1> QED BY <1>1, <1>2, <1>3, <1>4, BenchSteps

\* A new request is made only for a symbol that passed the dedup.
LEMMA RequestsEligible ==
    ASSUME EntryInv, [Next]_vars, NEW o \in Orders, NEW s \in Symbols, NewRequest(o, s)
    PROVE  Eligible(s)
<1>0. TypeOK /\ StoreStep /\ log[o] = {} /\ log'[o] # {} /\ sym'[o] = s
  BY EveryStoreStep DEF EntryInv, TypeInv, NewRequest
<1>1. ~Leaves /\ ~BrokerActs
  BY <1>0 DEF Leaves, BrokerActs
<1>2. ASSUME NEW t \in Symbols, NEW p \in Orders, Requests(t, p) PROVE Eligible(s)
  BY <1>0, <1>2 DEF Requests, Record, TypeOK
<1>3. ASSUME NEW p \in Orders, NEW out \in Outcomes, Decides(p, out) PROVE FALSE
  BY <1>0, <1>3, SubmitLeaves DEF Decides, Pending
<1>4. ASSUME NEW t \in Symbols, NEW p \in Orders, NEW out \in Outcomes, Triggers(t, p, out)
      PROVE  Eligible(s)
  <2>1. p = o
    BY <1>0, <1>4, SubmitLeaves DEF Triggers
  <2> QED BY <1>0, <1>4, <2>1 DEF Triggers, TypeOK
<1>5. ASSUME NEW p \in Orders, Refuses(p) PROVE FALSE
  BY <1>0, <1>5 DEF Refuses, Record, Pending, TypeOK
<1>6. ASSUME NEW p \in Orders, Cancels(p) PROVE FALSE
  BY <1>0, <1>6 DEF Cancels, CancelEntry, Record, TypeOK
<1> QED BY <1>0, <1>1, <1>2, <1>3, <1>4, <1>5, <1>6 DEF StoreStep

\* A symbol that was backed out max_backouts_per_symbol times is not requested again
\* before a restart, though the unlocked guard writes its bench while the trigger
\* thread reads it.
THEOREM BenchedNotRequested == Spec => BenchHolds
<1>1. Init => BenchInv
  <2>1. ASSUME Init PROVE BenchedAtCap
    BY <2>1, ConstantsAssumption DEF Init, BenchedAtCap
  <2> QED BY <2>1, EntryInit DEF BenchInv
<1>2. ASSUME BenchInv, [Next]_vars
      PROVE  \A o \in Orders, s \in Symbols :
                NewRequest(o, s) => MaxBackouts = 0 \/ backouts[s] < MaxBackouts
  <2> TAKE o \in Orders, s \in Symbols
  <2> HAVE NewRequest(o, s)
  <2>1. cooldown[s] = "clear"
    BY <1>2, RequestsEligible DEF BenchInv, Eligible
  <2>2. ~(MaxBackouts > 0 /\ backouts[s] >= MaxBackouts)
    BY <1>2, <2>1 DEF BenchInv, BenchedAtCap
  <2>3. backouts[s] \in Nat
    BY <1>2 DEF BenchInv, EntryInv, TypeInv, TypeOK
  <2> QED BY <2>2, <2>3, ConstantsAssumption
<1> QED BY <1>1, <1>2, BenchNext, PTL DEF Spec, BenchHolds

-----------------------------------------------------------------------------
(***************************************************************************)
(* The day's cap.  A thread that is about to write the count back holds    *)
(* the number it read, and writing that number keeps the cap.              *)
(***************************************************************************)

CapInv ==
    /\ TypeInv
    /\ CountWithinCap
    /\ trig.pc = "count" => FreshCap > 0 /\ trig.n \in 0 .. FreshCap - 1
    /\ FreshCap > 0 /\ main.pc = "write" => main.n \in 1 .. FreshCap

\* what the cap depends on is left alone
CapKept ==
    /\ freshN' = freshN /\ trig' = trig
    /\ main'.pc = "write" => main.pc = "write" /\ main'.n = main.n

\* A step that leaves the count and its writers alone keeps the cap.
LEMMA CapOfKept ==
    ASSUME CapInv, TypeInv', CapKept PROVE CapInv'
  BY DEF CapInv, CapKept, CountWithinCap

\* A pass of the guard keeps the cap: it writes one less than what it read.
LEMMA CapGuard == CapInv /\ TypeInv' /\ ExpireStaleEntries => CapInv'
<1> SUFFICES ASSUME CapInv, TypeInv', ExpireStaleEntries PROVE CapInv'
  OBVIOUS
<1>0. TypeOK /\ main \in MainType /\ freshN \in Int /\ FreshCap \in Nat
  BY ConstantsAssumption DEF CapInv, TypeInv, TypeOK
<1>1. CASE ReleaseRead
  <2>1. /\ freshN' = freshN /\ trig' = trig
        /\ main'.pc = "write" => freshN > 0 /\ main'.n = freshN
    BY <1>0, <1>1 DEF ReleaseRead, OnlyMain, MainType
  <2> QED BY <1>0, <2>1 DEF CapInv, CountWithinCap
<1>2. CASE ReleaseWrite
  <2>1. /\ freshN' = main.n - 1 /\ trig' = trig
        /\ main.pc = "write" /\ main'.pc = "forget" /\ main.n \in Int
    BY <1>0, <1>2, ForgetNext DEF ReleaseWrite, MainType
  <2> QED BY <1>0, <2>1 DEF CapInv, CountWithinCap
<1>3. CASE BackOutBench
  <2>1. freshN' = freshN /\ trig' = trig /\ main'.pc # "write"
    BY <1>0, <1>3, IdleTypes DEF BackOutBench, MainType
  <2> QED BY <2>1, CapOfKept DEF CapKept
<1>4. ASSUME NEW o \in main.todo,
             ScanVanished(o) \/ ScanFilled(o) \/ ScanCancelled(o) \/ ScanKeeps(o) \/ ScanStale(o)
      PROVE  CapInv'
  <2>1. Skip(o).pc = "scan" /\ Skip(o) \in MainType
    BY <1>0, <1>4 DEF Skip, MainType, Scanning, ScanVanished, ScanFilled, ScanCancelled,
       ScanKeeps, ScanStale
  <2>2. main'.pc # "write"
    BY <1>4, <2>1, IdleTypes DEF ScanVanished, ScanFilled, ScanCancelled, ScanKeeps, ScanStale,
       MainType
  <2>3. freshN' = freshN /\ trig' = trig
    BY <1>4 DEF OnlyMain, ScanVanished, ScanFilled, ScanCancelled, ScanKeeps, ScanStale
  <2> QED BY <2>2, <2>3, CapOfKept DEF CapKept
<1>5. ASSUME \/ \E B \in SUBSET prevHeld : NoteExits(B)
             \/ NoteExitsUnread
             \/ \E held \in {Held, snap} : ReadOrders(held)
             \/ ListArmed \/ BackOutCancel \/ Forget \/ ScanDone
      PROVE  CapInv'
  <2>1. main'.pc # "write"
    BY <1>0, <1>5, IdleTypes DEF NoteExits, NoteExitsUnread, ReadOrders, ListArmed,
       BackOutCancel, Forget, ScanDone, MainType
  <2>2. freshN' = freshN /\ trig' = trig
    BY <1>5 DEF OnlyMain, NoteExits, NoteExitsUnread, ReadOrders, ListArmed, BackOutCancel,
       Forget, ScanDone
  <2> QED BY <2>1, <2>2, CapOfKept DEF CapKept
<1> QED BY <1>1, <1>2, <1>3, <1>4, <1>5 DEF ExpireStaleEntries

\* The tick counts an entry only below the cap.
LEMMA CapTick == CapInv /\ TypeInv' /\ Tick => CapInv'
<1> SUFFICES ASSUME CapInv, TypeInv', Tick PROVE CapInv'
  OBVIOUS
<1>0. TypeOK /\ main \in MainType /\ freshN \in Int /\ FreshCap \in Nat
  BY ConstantsAssumption DEF CapInv, TypeInv, TypeOK
<1>1. ASSUME NEW o \in Orders, NEW out \in Outcomes, ApproveAuto(o, out) PROVE CapInv'
  <2>1. main' = main /\ trig' = trig /\ (FreshCap > 0 => freshN < FreshCap)
    BY <1>0, <1>1 DEF ApproveAuto, CapReached, threadVars
  <2>2. freshN' = freshN \/ freshN' = freshN + 1
    BY <1>1 DEF ApproveAuto
  <2> QED BY <1>0, <2>1, <2>2 DEF CapInv, CountWithinCap
<1>2. ASSUME \/ TickStart \/ (\E r \in Reads : TickOpen(r)) \/ TickBreach
             \/ \E s \in Symbols, o \in Orders : TickRequest(s, o)
             \/ \E s \in Symbols : TickSkip(s)
             \/ TickSignalsDone \/ (\E o \in Orders : RejectCapped(o)) \/ TickDone
      PROVE  CapInv'
  <2>1. main'.pc # "write"
    BY <1>0, <1>2, IdleTypes DEF TickStart, TickOpen, TickBreach, TickRequest, TickSkip,
       TickSignalsDone, RejectCapped, Approving, TickDone, GoTo, threadVars, MainType
  <2>2. freshN' = freshN /\ trig' = trig
    BY <1>2 DEF OnlyMain, TickStart, TickOpen, TickBreach, TickRequest, TickSkip,
       TickSignalsDone, RejectCapped, TickDone, threadVars
  <2> QED BY <2>1, <2>2, CapOfKept DEF CapKept
<1> QED BY <1>1, <1>2 DEF Tick

\* The trigger thread writes one more than what it read below the cap.
LEMMA CapTrigger == CapInv /\ TypeInv' /\ Trigger => CapInv'
<1> SUFFICES ASSUME CapInv, TypeInv', Trigger PROVE CapInv'
  OBVIOUS
<1>0. TypeOK /\ freshN \in Int /\ FreshCap \in Nat
  BY ConstantsAssumption DEF CapInv, TypeInv, TypeOK
<1>1. ASSUME NEW s \in Symbols, NEW o \in Orders, NEW r \in Reads, NEW out \in Outcomes,
             TriggerSubmit(s, o, r, out)
      PROVE  CapInv'
  <2>1. main' = main /\ freshN' = freshN /\ (FreshCap > 0 => freshN < FreshCap)
    BY <1>0, <1>1 DEF TriggerSubmit, CapReached
  <2>2. trig'.pc = "count" => FreshCap > 0 /\ trig'.n = freshN
    BY <1>1, IdleTypes DEF TriggerSubmit
  <2> QED BY <1>0, <2>1, <2>2 DEF CapInv, CountWithinCap
<1>2. CASE TriggerCount
  <2>1. /\ trig.pc = "count" /\ freshN' = trig.n + 1 /\ main' = main
        /\ trig'.pc = "idle"
    BY <1>2, IdleTypes DEF TriggerCount
  <2> QED BY <1>0, <2>1 DEF CapInv, CountWithinCap
<1>3. ASSUME NEW r \in Reads, TriggerSkip(r) PROVE CapInv'
  BY <1>3, CapOfKept DEF CapKept, TriggerSkip, threadVars
<1>4. CASE TriggerBreach
  <2>1. freshN' = freshN /\ main' = main /\ trig'.pc # "count"
    BY <1>0, <1>4 DEF TriggerBreach, TypeOK, TrigType, IdleTrig, LockFree
  <2> QED BY <1>0, <2>1 DEF CapInv, CountWithinCap
<1> QED BY <1>1, <1>2, <1>3, <1>4 DEF Trigger

\* The other steps leave the count alone, or restart it.
LEMMA CapOther ==
    CapInv /\ TypeInv' /\ (Dashboard \/ Flatten \/ Environment \/ UNCHANGED vars) => CapInv'
<1> SUFFICES ASSUME CapInv, TypeInv', Dashboard \/ Flatten \/ Environment \/ UNCHANGED vars
             PROVE  CapInv'
  OBVIOUS
<1>0. TypeOK /\ main \in MainType /\ trig \in TrigType /\ FreshCap \in Nat
  BY ConstantsAssumption DEF CapInv, TypeInv, TypeOK
<1>1. CASE Dashboard
  BY <1>1, CapOfKept DEF Dashboard, CapKept, ManualApprove, ManualReject, ManualExit, threadVars
<1>2. ASSUME NEW F \in SUBSET snap, FlattenPositions(F) PROVE CapInv'
  <2>1. freshN' = freshN /\ (trig' = trig \/ trig' = IdleTrig)
    BY <1>2 DEF FlattenPositions
  <2>2. main'.pc = "write" => main' = main
    BY <1>0, <1>2 DEF FlattenPositions, GoTo, MainType
  <2> QED BY <2>1, <2>2, IdleTypes DEF CapInv, CountWithinCap
<1>3. ASSUME NEW o \in flat.todo, FlattenEntry(o) \/ FlattenVanished(o) PROVE CapInv'
  <2>1. freshN' = freshN /\ main' = main /\ (trig' = trig \/ trig' = IdleTrig)
    BY <1>3 DEF FlattenEntry, FlattenVanished
  <2> QED BY <2>1, IdleTypes DEF CapInv, CountWithinCap
<1>4. ASSUME CloseSession \/ \E F \in SUBSET Held : Sweep(F) PROVE CapInv'
  <2>1. freshN' = freshN /\ trig' = trig
    BY <1>4 DEF CloseSession, Sweep
  <2>2. main'.pc # "write"
    BY <1>4, IdleTypes DEF CloseSession, Sweep, IdleMain
  <2> QED BY <2>1, <2>2, CapOfKept DEF CapKept
<1>5. CASE NewDay
  <2>1. freshN' = 0 /\ trig' = trig /\ main' = main
    BY <1>5 DEF NewDay, threadVars
  <2> QED BY <1>0, <2>1 DEF CapInv, CountWithinCap
<1>6. CASE Restart
  <2>1. freshN' = 0 /\ trig' = IdleTrig /\ main' = IdleMain
    BY <1>6 DEF Restart
  <2> QED BY <1>0, <2>1, IdleTypes DEF CapInv, CountWithinCap
<1>7. ASSUME \/ SyncPositions
             \/ \E o \in Orders : Fill(o) \/ BracketExit(o) \/ OrderEnds(o) \/ Age(o)
             \/ \E s \in Symbols : CooldownElapses(s)
             \/ UNCHANGED vars
      PROVE  CapInv'
  BY <1>7, CapOfKept DEF CapKept, SyncPositions, Fill, BracketExit, OrderEnds, BrokerMoves,
     Age, CooldownElapses, threadVars, vars
<1> QED BY <1>1, <1>2, <1>3, <1>4, <1>5, <1>6, <1>7 DEF Flatten, Environment

\* The day's count of entries stays within the cap and never goes below zero, in
\* every reachable state, though the guard decrements it without the lock.
THEOREM CapKeptAlways == Spec => []CountWithinCap
<1>1. Init => CapInv
  <2>1. ASSUME Init PROVE CountWithinCap /\ trig.pc = "idle" /\ main.pc = "idle"
    BY <2>1, IdleTypes, ConstantsAssumption DEF Init, CountWithinCap
  <2> QED BY <2>1, TypeInit DEF CapInv
<1>2. CapInv /\ [Next]_vars => CapInv'
  <2> SUFFICES ASSUME CapInv, [Next]_vars PROVE CapInv'
    OBVIOUS
  <2>1. TypeInv'
    BY TypeNext DEF CapInv
  <2> QED BY <2>1, CapGuard, CapTick, CapTrigger, CapOther DEF Next
<1>3. CapInv => CountWithinCap
  BY DEF CapInv
<1> QED BY <1>1, <1>2, <1>3, PTL DEF Spec

-----------------------------------------------------------------------------
(***************************************************************************)
(* OpenIsTracked.  The guard forgets an entry when its symbol is a         *)
(* position, so an order that rests must be alone with its symbol, but for *)
(* the ones a cancel lost to a fill.  That needs the dedup once more, for  *)
(* every order that was neither cancelled nor rejected: those that filled  *)
(* keep their symbol requested.  It is lost by a restart, by a submit      *)
(* whose answer is lost, and by a cancel the broker refuses.               *)
(***************************************************************************)

CallsAnswered == Faults \cap {"cancel_fails", "submit_lost", "restart"} = {}

\* requested, and neither cancelled nor rejected since
Live(o) == log[o] # {} /\ log[o] \cap {"cancelled", "rejected"} = {}

\* an order that was held at some time
WasHeld(o) == broker[o] \in {"held", "naked", "closed"}
Shown(s) == \E q \in Orders : sym[q] = s /\ WasHeld(q)

CancelledPCs == BackOutPCs \ {"cancel"}

\* what is recorded as over does not rest at the broker
Ended == \A o \in Orders : log[o] \cap {"cancelled", "filled"} # {} => broker[o] # "open"
\* a decision is taken once, and only what was approved was executed
Decided ==
    \A o \in Orders :
        /\ "approved" \in log[o] => "rejected" \notin log[o]
        /\ log[o] \cap {"submitted", "filled", "cancelled"} # {} => "approved" \in log[o]

\* what the threads and the snapshot read of the store and of the account was so
ReadsKept ==
    /\ \A o \in main.filled : "filled" \in log[o]
    /\ \A o \in main.cancelled : "cancelled" \in log[o]
    /\ \A s \in main.held : Shown(s)
SnapReal == \A s \in snap : Shown(s)

\* a live order's symbol is remembered, and it is the only one of its symbol
OneLive ==
    \A p \in Orders : Live(p) =>
        /\ sym[p] \in requested
        /\ \A q \in Orders \ {p} : Live(q) => sym[q] # sym[p]
\* no other live order has the symbol of an armed one, even cancelled, nor of the
\* one the guard backs out
ArmedAlone ==
    \A p \in Orders : armed[p] # "no" =>
        \A q \in Orders \ {p} : Live(q) => sym[q] # sym[p]
BackingOut ==
    /\ main.pc \in BackOutPCs =>
          \A q \in Orders \ {main.order} : Live(q) => sym[q] # sym[main.order]
    /\ main.pc \in CancelledPCs => "cancelled" \in log[main.order]

TrackInv ==
    /\ LifeInv /\ stale = {}
    /\ Ended /\ Decided /\ ReadsKept /\ SnapReal
    /\ OneLive /\ ArmedAlone /\ BackingOut
    /\ OpenIsTracked

\* The store only grows, and an order that has events keeps its symbol.
LEMMA StoreGrows ==
    ASSUME EntryInv, StoreStep
    PROVE  \A o \in Orders : log[o] \subseteq log'[o] /\ (log[o] # {} => sym'[o] = sym[o])
<1>0. TypeOK
  BY DEF EntryInv, TypeInv
<1>1. ASSUME NEW s \in Symbols, NEW p \in Orders, Requests(s, p)
      PROVE  \A o \in Orders : log[o] \subseteq log'[o] /\ (log[o] # {} => sym'[o] = sym[o])
  BY <1>0, <1>1 DEF Requests, Record, Unused, TypeOK
<1>2. ASSUME NEW p \in Orders, NEW out \in Outcomes, Decides(p, out)
      PROVE  \A o \in Orders : log[o] \subseteq log'[o] /\ (log[o] # {} => sym'[o] = sym[o])
  BY <1>0, <1>2, SubmitLeaves DEF Decides
<1>3. ASSUME NEW s \in Symbols, NEW p \in Orders, NEW out \in Outcomes, Triggers(s, p, out)
      PROVE  \A o \in Orders : log[o] \subseteq log'[o] /\ (log[o] # {} => sym'[o] = sym[o])
  BY <1>0, <1>3, SubmitLeaves DEF Triggers, Unused, TypeOK
<1>4. ASSUME NEW p \in Orders, Refuses(p) \/ Cancels(p)
      PROVE  \A o \in Orders : log[o] \subseteq log'[o] /\ (log[o] # {} => sym'[o] = sym[o])
  BY <1>0, <1>4 DEF Refuses, Cancels, CancelEntry, Record, TypeOK
<1>5. ASSUME Leaves \/ BrokerActs
      PROVE  \A o \in Orders : log[o] \subseteq log'[o] /\ (log[o] # {} => sym'[o] = sym[o])
  BY <1>5 DEF Leaves, BrokerActs
<1> QED BY <1>1, <1>2, <1>3, <1>4, <1>5 DEF StoreStep

\* The broker moves an order, or is sent one: a pending one, or by the trigger thread.
LEMMA SentOrMoved ==
    ASSUME LifeInv, StoreStep
    PROVE  \A o \in Orders :
              \/ BrokerStep(o)
              \/ broker[o] = "none" /\ (Pending(o) \/ ~sessionClosed)
<1>0. TypeOK /\ SentApproved /\ EntryInv
  BY DEF LifeInv, EntryInv, TypeInv
<1>2. ASSUME NEW p \in Orders, Cancels(p)
      PROVE  \A o \in Orders : BrokerStep(o)
  BY <1>0, <1>2, CancelLeaves DEF Cancels
<1>3. ASSUME \/ Leaves \/ (\E s \in Symbols, o \in Orders : Requests(s, o))
             \/ (\E o \in Orders : Refuses(o))
      PROVE  \A o \in Orders : BrokerStep(o)
  BY <1>3 DEF Leaves, Requests, Refuses, BrokerStep
<1>4. ASSUME NEW p \in Orders, NEW out \in Outcomes, Decides(p, out)
      PROVE  \A o \in Orders : \/ broker'[o] = broker[o]
                               \/ broker[o] = "none" /\ (Pending(o) \/ ~sessionClosed)
  BY <1>0, <1>4, SubmitLeaves DEF Decides, SentApproved, Pending
<1>5. ASSUME NEW s \in Symbols, NEW p \in Orders, NEW out \in Outcomes, Triggers(s, p, out)
      PROVE  \A o \in Orders : \/ broker'[o] = broker[o]
                               \/ broker[o] = "none" /\ (Pending(o) \/ ~sessionClosed)
  BY <1>0, <1>5, SubmitLeaves DEF Triggers, SentApproved, Unused
<1> QED BY <1>2, <1>3, <1>4, <1>5 DEF StoreStep, BrokerActs, BrokerStep

\* What was held at some time is never anything else.
LEMMA HeldStays ==
    ASSUME LifeInv, StoreStep
    PROVE  /\ \A o \in Orders : WasHeld(o) => WasHeld(o)' /\ sym'[o] = sym[o]
           /\ \A s \in Symbols : Shown(s) => Shown(s)'
<1>0. TypeOK /\ SentApproved /\ EntryInv
  BY DEF LifeInv, EntryInv, TypeInv
<1>1. \A o \in Orders : BrokerStep(o) \/ broker[o] = "none"
  BY SentOrMoved
<1>2. \A o \in Orders : WasHeld(o) => WasHeld(o)'
  BY <1>1 DEF WasHeld, BrokerStep, HeldOrder
<1>3. \A o \in Orders : WasHeld(o) => sym'[o] = sym[o]
  BY <1>0, StoreGrows DEF WasHeld, SentApproved
<1> QED BY <1>2, <1>3 DEF Shown

\* An order that doubles another one keeps doubling it.
LEMMA DoublesStays ==
    ASSUME LifeInv, StoreStep, NEW o \in Orders, log[o] # {}, Doubles(o)
    PROVE  Doubles(o)'
<1>1. PICK q \in Orders \ {o} : sym[q] = sym[o] /\ "cancelled" \in log[q] /\ WasHeld(q)
  BY DEF Doubles, WasHeld
<1>2. /\ sym'[q] = sym[q] /\ sym'[o] = sym[o] /\ "cancelled" \in log'[q]
      /\ broker'[q] \in {"held", "naked", "closed"}
  BY <1>1, StoreGrows, HeldStays DEF LifeInv, WasHeld
<1> QED BY <1>1, <1>2 DEF Doubles

\* With every call answered, what comes back says what the broker holds.
LEMMA SubmitAnswered ==
    ASSUME CallsAnswered, TypeOK, NEW o \in Orders, NEW out \in Outcomes, NEW kinds,
           Submit(o, out, kinds)
    PROVE  /\ broker'[o] = "open" => ExecuteLog(out) = {"submitted"} /\ armed'[o] # "no"
           /\ \A q \in Orders : armed[q] # "no" => armed'[q] # "no"
           /\ \A q \in Orders \ {o} : armed'[q] = armed[q]
<1>1. out # "submit_lost"
  BY DEF Outcomes, CallsAnswered
<1>2. ExecuteBroker(out) = "open" => out = "open"
  BY <1>1 DEF ExecuteBroker, Outcomes
<1>3. out = "open" => ExecuteLog(out) = {"submitted"} /\ Rests(out)
  BY DEF ExecuteLog, Rests
<1>4. broker'[o] = ExecuteBroker(out)
  BY DEF Submit, TypeOK
<1> QED BY <1>2, <1>3, <1>4 DEF Submit, TypeOK

\* With every call answered, a cancelled order no longer rests.
LEMMA CancelAnswered ==
    ASSUME CallsAnswered, TypeOK, NEW o \in Orders, CancelEntry(o)
    PROVE  broker'[o] # "open"
<1> PICK b \in AfterCancel(o) : broker' = [broker EXCEPT ![o] = b]
  BY DEF CancelEntry
<1>1. b # "open"
  BY DEF AfterCancel, CallsAnswered
<1> QED BY <1>1 DEF TypeOK

\* What is recorded as over stays over, a decision is taken once, and an order that
\* begins to rest is armed.
LEMMA AnsweredStep ==
    ASSUME CallsAnswered, LifeInv, Ended, Decided, StoreStep
    PROVE  /\ Ended' /\ Decided'
           /\ \A o \in Orders : broker'[o] = "open" => broker[o] = "open" \/ armed'[o] # "no"
<1>0. TypeOK /\ SentApproved /\ EntryInv
  BY DEF LifeInv, EntryInv, TypeInv
<1> DEFINE Fine ==
      /\ Ended' /\ Decided'
      /\ \A o \in Orders : broker'[o] = "open" => broker[o] = "open" \/ armed'[o] # "no"
<1>1. ASSUME Leaves \/ BrokerActs PROVE Fine
  <2>1. log' = log /\ \A o \in Orders : broker'[o] = "open" => broker[o] = "open"
    BY <1>1 DEF Leaves, BrokerActs, BrokerStep
  <2> QED BY <2>1 DEF Ended, Decided
<1>2. ASSUME NEW s \in Symbols, NEW p \in Orders, Requests(s, p) PROVE Fine
  <2>1. broker' = broker /\ log'[p] = {"requested"} /\ \A o \in Orders \ {p} : log'[o] = log[o]
    BY <1>0, <1>2 DEF Requests, Record, Unused, TypeOK
  <2> QED BY <2>1 DEF Ended, Decided
<1>3. ASSUME NEW p \in Orders, NEW out \in Outcomes, NEW kinds,
             kinds \subseteq {"requested", "approved"}, "approved" \in kinds,
             Submit(p, out, kinds),
             Pending(p) \/ Unused(p)
      PROVE  Fine
  <2>1. /\ log'[p] = log[p] \cup kinds \cup ExecuteLog(out)
        /\ ExecuteLog(out) \subseteq {"submitted", "filled", "cancelled"}
        /\ \A o \in Orders \ {p} : log'[o] = log[o] /\ broker'[o] = broker[o]
    BY <1>0, <1>3, SubmitLeaves
  <2>2. broker'[p] = "open" => ExecuteLog(out) = {"submitted"} /\ armed'[p] # "no"
    BY <1>0, <1>3, SubmitAnswered
  <2>3. "approved" \in log'[p] /\ log[p] \cap {"rejected", "submitted", "filled", "cancelled"} = {}
    BY <1>0, <1>3, <2>1 DEF Pending, Unused, Decided
  <2>5. Ended'
    BY <1>3, <2>1, <2>2, <2>3 DEF Ended
  <2>6. Decided'
    BY <1>3, <2>1, <2>3 DEF Decided
  <2> QED BY <2>1, <2>2, <2>5, <2>6
<1>4. ASSUME NEW p \in Orders, Refuses(p) PROVE Fine
  <2>1. /\ broker' = broker /\ log'[p] = log[p] \cup {"rejected"}
        /\ "approved" \notin log[p]
        /\ \A o \in Orders \ {p} : log'[o] = log[o]
    BY <1>0, <1>4 DEF Refuses, Record, Pending, TypeOK
  <2> QED BY <2>1 DEF Ended, Decided
<1>5. ASSUME NEW p \in Orders, Cancels(p) PROVE Fine
  <2>1. /\ log'[p] = log[p] \cup {"cancelled"} /\ "approved" \in log[p]
        /\ \A o \in Orders \ {p} : log'[o] = log[o]
        /\ \A o \in Orders : broker'[o] = "open" => broker[o] = "open"
        /\ broker'[p] # "open"
    BY <1>0, <1>5, CancelLeaves, CancelAnswered DEF Cancels, BrokerStep, TypeOK
  <2> QED BY <2>1 DEF Ended, Decided
<1>6. ASSUME NEW p \in Orders, NEW out \in Outcomes, Decides(p, out) PROVE Fine
  <2>1. {"approved"} \subseteq {"requested", "approved"} /\ "approved" \in {"approved"}
    OBVIOUS
  <2> QED BY <1>3, <1>6, <2>1 DEF Decides
<1>7. ASSUME NEW s \in Symbols, NEW p \in Orders, NEW out \in Outcomes, Triggers(s, p, out)
      PROVE  Fine
  BY <1>3, <1>7 DEF Triggers
<1> QED BY <1>1, <1>2, <1>4, <1>5, <1>6, <1>7 DEF StoreStep

\* Only a restart forgets what was pending.
LEMMA StaleSteps ==
    ASSUME [Next]_vars
    PROVE  stale' = stale \/ Restart
<1>1. CASE UNCHANGED vars
  BY <1>1 DEF vars
<1>2. CASE ExpireStaleEntries
  BY <1>2 DEF ExpireStaleEntries, OnlyMain, NoteExits, NoteExitsUnread, ReadOrders,
     ListArmed, ScanVanished, ScanFilled, ScanCancelled, ScanKeeps, ScanStale,
     BackOutCancel, BackOutBench, ReleaseRead, ReleaseWrite, Forget, ScanDone
<1>3. CASE Tick
  BY <1>3 DEF Tick, OnlyMain, TickStart, TickOpen, TickBreach, TickRequest,
     TickSkip, TickSignalsDone, ApproveAuto, RejectCapped, TickDone
<1>4. CASE Trigger
  BY <1>4 DEF Trigger, TriggerSubmit, TriggerCount, TriggerSkip, TriggerBreach
<1>5. CASE Dashboard
  BY <1>5 DEF Dashboard, ManualApprove, ManualReject, ManualExit
<1>6. CASE Flatten
  BY <1>6 DEF Flatten, CloseSession, FlattenEntry, FlattenVanished,
     FlattenPositions, Sweep
<1>7. CASE Environment
  BY <1>7 DEF Environment, SyncPositions, Fill, BracketExit, OrderEnds,
     BrokerMoves, Age, CooldownElapses, NewDay
<1> QED BY <1>1, <1>2, <1>3, <1>4, <1>5, <1>6, <1>7 DEF Next

\* What a step must leave of the threads for the invariant to hold after it.
MainCalm ==
    /\ main'.pc \in BackOutPCs =>
          \/ armed[main'.order] # "no"
          \/ main.pc \in BackOutPCs /\ main'.order = main.order
    /\ main'.pc \in CancelledPCs => "cancelled" \in log'[main'.order]
    /\ ReadsKept' /\ SnapReal'

\* what is disarmed does not rest, or doubles another order
DisarmSafe ==
    \A o \in Orders :
        armed[o] # "no" /\ armed'[o] = "no" => broker'[o] # "open" \/ Doubles(o)'

\* The parts of the invariant that the store's steps and the disarmed orders decide.
LEMMA TrackCore ==
    ASSUME CallsAnswered, TrackInv, [Next]_vars, MainCalm, DisarmSafe
    PROVE  /\ LifeInv' /\ stale' = {} /\ Ended' /\ Decided' /\ ReadsKept' /\ SnapReal'
           /\ OpenIsTracked'
<1>1. StoreStep /\ LifeInv' /\ LifeInv /\ EntryInv
  BY LifeNext, EveryStoreStep DEF TrackInv, LifeInv
<1>2. /\ Ended' /\ Decided'
      /\ \A o \in Orders : broker'[o] = "open" => broker[o] = "open" \/ armed'[o] # "no"
  BY <1>1, AnsweredStep DEF TrackInv
<1>3. stale' = {}
  <2>1. ~Restart
    BY DEF CallsAnswered, Restart
  <2>2. stale' = stale
    BY <2>1, StaleSteps
  <2> QED BY <2>2 DEF TrackInv
<1>4. OpenIsTracked'
  <2> SUFFICES ASSUME NEW o \in Orders, broker'[o] = "open", armed'[o] = "no"
               PROVE  Doubles(o)'
    BY DEF OpenIsTracked
  <2>1. broker[o] = "open" /\ log[o] # {}
    BY <1>1, <1>2 DEF LifeInv, SentApproved
  <2>2. CASE armed[o] = "no"
    BY <1>1, <2>1, <2>2, DoublesStays DEF TrackInv, OpenIsTracked
  <2>3. CASE armed[o] # "no"
    BY <2>3 DEF DisarmSafe
  <2> QED BY <2>2, <2>3
<1> QED BY <1>1, <1>2, <1>3, <1>4 DEF MainCalm

\* A step that makes no order live and forgets no symbol.
TrackCalm ==
    /\ requested \subseteq requested'
    /\ \A o \in Orders : Live(o)' => Live(o)
    /\ \A o \in Orders : armed'[o] # "no" => armed[o] # "no" \/ Live(o)

\* A calm step keeps the invariant.
LEMMA TrackKept ==
    ASSUME CallsAnswered, TrackInv, [Next]_vars, MainCalm, DisarmSafe, TrackCalm
    PROVE  TrackInv'
<1>1. /\ LifeInv' /\ stale' = {} /\ Ended' /\ Decided' /\ ReadsKept' /\ SnapReal'
      /\ OpenIsTracked'
  BY TrackCore
<1>2. \A o \in Orders : Live(o) => sym'[o] = sym[o]
  BY EveryStoreStep, StoreGrows DEF TrackInv, LifeInv, Live
<1>3. \A o \in Orders : armed[o] # "no" => sym'[o] = sym[o]
  BY EveryStoreStep, StoreGrows DEF TrackInv, LifeInv, EntryInv, ArmedApproved
<1>4. OneLive'
  BY <1>2 DEF TrackInv, OneLive, TrackCalm
<1>5. ArmedAlone'
  BY <1>2, <1>3 DEF TrackInv, OneLive, ArmedAlone, TrackCalm
<1>6. BackingOut'
  <2>1. main'.pc \in BackOutPCs =>
            main'.order \in Orders /\ (main.pc \in BackOutPCs => main.order \in Orders)
    BY <1>1 DEF TrackInv, LifeInv, EntryInv, TypeInv, TypeOK
  <2>2. main.pc \in BackOutPCs => log[main.order] # {}
    BY DEF TrackInv, LifeInv, EntryInv, BackOutAlone
  <2>3. main.pc \in BackOutPCs /\ main.order \in Orders => sym'[main.order] = sym[main.order]
    BY <2>2, EveryStoreStep, StoreGrows DEF TrackInv, LifeInv
  <2>4. ASSUME main'.pc \in BackOutPCs, NEW q \in Orders \ {main'.order}, Live(q)'
        PROVE  sym'[q] # sym'[main'.order]
    <3>1. Live(q) /\ sym'[q] = sym[q]
      BY <1>2, <2>4 DEF TrackCalm
    <3>2. CASE armed[main'.order] # "no"
      BY <1>3, <2>1, <2>4, <3>1, <3>2 DEF TrackInv, ArmedAlone
    <3>3. CASE main.pc \in BackOutPCs /\ main'.order = main.order
      BY <2>1, <2>3, <2>4, <3>1, <3>3 DEF TrackInv, BackingOut
    <3> QED BY <2>4, <3>2, <3>3 DEF MainCalm
  <2> QED BY <2>4 DEF BackingOut, MainCalm
<1> QED BY <1>1, <1>4, <1>5, <1>6 DEF TrackInv

\* A step that ends the order o and forgets its symbol, which no other order has.
LEMMA TrackDropped ==
    ASSUME CallsAnswered, TrackInv, [Next]_vars, MainCalm, DisarmSafe, NEW o \in Orders,
           requested' = requested \ {sym[o]}, ~Live(o)',
           \A q \in Orders \ {o} : Live(q) => sym[q] # sym[o],
           \A q \in Orders : Live(q)' => Live(q),
           \A q \in Orders : armed'[q] # "no" => armed[q] # "no"
    PROVE  TrackInv'
<1>1. /\ LifeInv' /\ stale' = {} /\ Ended' /\ Decided' /\ ReadsKept' /\ SnapReal'
      /\ OpenIsTracked'
  BY TrackCore
<1>2. \A q \in Orders : Live(q) => sym'[q] = sym[q]
  BY EveryStoreStep, StoreGrows DEF TrackInv, LifeInv, Live
<1>3. \A q \in Orders : armed[q] # "no" => sym'[q] = sym[q]
  BY EveryStoreStep, StoreGrows DEF TrackInv, LifeInv, EntryInv, ArmedApproved
<1>4. OneLive'
  BY <1>2 DEF TrackInv, OneLive
<1>5. ArmedAlone'
  BY <1>2, <1>3 DEF TrackInv, ArmedAlone
<1>6. BackingOut'
  <2>1. main'.pc \in BackOutPCs =>
            main'.order \in Orders /\ (main.pc \in BackOutPCs => main.order \in Orders)
    BY <1>1 DEF TrackInv, LifeInv, EntryInv, TypeInv, TypeOK
  <2>2. main.pc \in BackOutPCs => log[main.order] # {}
    BY DEF TrackInv, LifeInv, EntryInv, BackOutAlone
  <2>3. main.pc \in BackOutPCs /\ main.order \in Orders => sym'[main.order] = sym[main.order]
    BY <2>2, EveryStoreStep, StoreGrows DEF TrackInv, LifeInv
  <2>4. ASSUME main'.pc \in BackOutPCs, NEW q \in Orders \ {main'.order}, Live(q)'
        PROVE  sym'[q] # sym'[main'.order]
    <3>1. Live(q) /\ sym'[q] = sym[q]
      BY <1>2, <2>4
    <3>2. CASE armed[main'.order] # "no"
      BY <1>3, <2>1, <2>4, <3>1, <3>2 DEF TrackInv, ArmedAlone
    <3>3. CASE main.pc \in BackOutPCs /\ main'.order = main.order
      BY <2>1, <2>3, <2>4, <3>1, <3>3 DEF TrackInv, BackingOut
    <3> QED BY <2>4, <3>2, <3>3 DEF MainCalm
  <2> QED BY <2>4 DEF BackingOut, MainCalm
<1> QED BY <1>1, <1>4, <1>5, <1>6 DEF TrackInv

\* A new order of a symbol that passed the dedup is alone with it.
LEMMA TrackRequested ==
    ASSUME CallsAnswered, TrackInv, [Next]_vars, MainCalm, DisarmSafe,
           NEW s \in Symbols, NEW o \in Orders, Eligible(s), Unused(o),
           requested' = requested \cup {s}, sym' = [sym EXCEPT ![o] = s],
           \A q \in Orders \ {o} : log'[q] = log[q] /\ armed'[q] = armed[q],
           main' = main \/ main'.pc \notin BackOutPCs,
           main.pc \in BackOutPCs => ~halted
    PROVE  TrackInv'
<1>1. /\ LifeInv' /\ stale' = {} /\ Ended' /\ Decided' /\ ReadsKept' /\ SnapReal'
      /\ OpenIsTracked'
  BY TrackCore
<1>0. TypeOK /\ Remembered /\ ArmedApproved /\ stale = {}
  BY DEF TrackInv, LifeInv, EntryInv, TypeInv
<1>2. \A q \in Orders \ {o} : /\ sym'[q] = sym[q] /\ (Live(q)' <=> Live(q))
                              /\ armed'[q] = armed[q]
  BY <1>0 DEF TypeOK, Live
<1>3. sym'[o] = s /\ s \notin requested
  BY <1>0 DEF TypeOK, Eligible
<1>4. \A q \in Orders \ {o} : Live(q) => sym[q] # s
  BY <1>3 DEF TrackInv, OneLive
<1>5. \A q \in Orders \ {o} : armed[q] # "no" => sym[q] # s
  BY <1>0, <1>3 DEF Remembered, Tracked
<1>6. OneLive'
  BY <1>2, <1>3, <1>4 DEF TrackInv, OneLive
<1>7. ArmedAlone'
  BY <1>2, <1>3, <1>4, <1>5 DEF TrackInv, ArmedAlone
<1>8. BackingOut'
  <2> SUFFICES ASSUME main'.pc \in BackOutPCs PROVE BackingOut'
    BY DEF BackingOut, CancelledPCs
  <2>1. main' = main /\ main.order \in Orders \ {o}
    BY <1>0 DEF TrackInv, LifeInv, EntryInv, BackOutAlone, Unused, TypeOK
  <2>2. sym[main.order] # s
    BY <1>0, <1>3, <2>1 DEF TrackInv, LifeInv, EntryInv, BackOutAlone
  <2>3. \A q \in Orders \ {main'.order} : Live(q)' => sym'[q] # sym'[main'.order]
    BY <1>2, <1>3, <2>1, <2>2 DEF TrackInv, BackingOut
  <2> QED BY <2>3 DEF BackingOut, MainCalm
<1> QED BY <1>1, <1>6, <1>7, <1>8 DEF TrackInv

\* What was read stays so, and an idle thread remembers no read.
LEMMA ReadsStay ==
    ASSUME TrackInv, [Next]_vars,
           \/ main' = IdleMain
           \/ /\ main'.filled \subseteq main.filled /\ main'.cancelled \subseteq main.cancelled
              /\ main'.held \subseteq main.held,
           snap' = snap
    PROVE  ReadsKept' /\ SnapReal'
<1>1. /\ \A o \in Orders : log[o] \subseteq log'[o]
      /\ \A s \in Symbols : Shown(s) => Shown(s)'
  BY EveryStoreStep, StoreGrows, HeldStays DEF TrackInv, LifeInv
<1>2. snap \subseteq Symbols /\ main \in MainType
  BY DEF TrackInv, LifeInv, EntryInv, TypeInv, TypeOK
<1>3. SnapReal'
  BY <1>1, <1>2 DEF TrackInv, SnapReal
<1>4. CASE main' = IdleMain
  <2>1. main'.filled = {} /\ main'.cancelled = {} /\ main'.held = {}
    BY <1>4 DEF IdleMain
  <2> QED BY <1>3, <2>1 DEF ReadsKept
<1>5. CASE /\ main'.filled \subseteq main.filled /\ main'.cancelled \subseteq main.cancelled
           /\ main'.held \subseteq main.held
  <2>1. main.filled \subseteq Orders /\ main.cancelled \subseteq Orders /\ main.held \subseteq Symbols
    BY <1>2 DEF MainType
  <2> QED BY <1>1, <1>3, <1>5, <2>1 DEF TrackInv, ReadsKept
<1> QED BY <1>4, <1>5

\* Filled or taken for filled, an order that the guard forgets does not rest, or it
\* doubles the one whose position was seen.
LEMMA FilledSafe ==
    ASSUME CallsAnswered, TrackInv, [Next]_vars, NEW o \in Orders, armed[o] # "no",
           \/ o \in main.filled
           \/ sym[o] \in main.held
    PROVE  broker[o] # "open" \/ Doubles(o)
<1>0. /\ EntryInv /\ ArmedApproved /\ TypeOK
      /\ ReadsKept /\ Ended /\ Decided /\ OneLive /\ SentApproved
  BY DEF TrackInv, LifeInv, EntryInv, TypeInv
<1>1. CASE o \in main.filled
  BY <1>0, <1>1 DEF ReadsKept, Ended
<1>2. CASE sym[o] \in main.held
  <2>1. PICK q \in Orders : sym[q] = sym[o] /\ WasHeld(q)
    BY <1>0, <1>2 DEF ReadsKept, Shown
  <2>2. CASE q = o
    BY <2>1, <2>2 DEF WasHeld
  <2>3. CASE q # o /\ "cancelled" \in log[q]
    BY <2>1, <2>3 DEF Doubles, WasHeld
  <2>4. CASE q # o /\ "cancelled" \notin log[q]
    <3>1. Live(q)
      BY <1>0, <2>1, <2>4 DEF Live, WasHeld, SentApproved, Decided
    <3>2. "cancelled" \in log[o]
      BY <1>0, <2>1, <2>4, <3>1 DEF OneLive, Live, ArmedApproved, Decided
    <3> QED BY <1>0, <3>2 DEF Ended
  <2> QED BY <2>2, <2>3, <2>4
<1> QED BY <1>1, <1>2

\* The names below are those of the facts each step of a thread uses.
TrackFacts ==
    /\ TypeOK /\ TypeOK' /\ main \in MainType /\ main' \in MainType
    /\ ArmedApproved /\ Decided /\ Ended

\* They hold before every step.
LEMMA TrackBase == TrackInv /\ [Next]_vars => TrackFacts
  BY LifeNext DEF TrackInv, LifeInv, EntryInv, TypeInv, TypeOK, TrackFacts

\* A step that leaves the store, the snapshot and the broker, and neither arms nor
\* disarms an order.
ThreadsOnly ==
    /\ UNCHANGED <<log, sym, broker, snap>>
    /\ requested \subseteq requested'
    /\ \A o \in Orders : armed'[o] = "no" <=> armed[o] = "no"

\* It keeps the invariant when the threads learn nothing that is not so.
LEMMA TrackThreads ==
    ASSUME CallsAnswered, TrackInv, [Next]_vars, ThreadsOnly,
           \/ main' = IdleMain
           \/ /\ main'.filled \subseteq main.filled /\ main'.cancelled \subseteq main.cancelled
              /\ main'.held \subseteq main.held,
           main'.pc \in BackOutPCs =>
              \/ armed[main'.order] # "no"
              \/ main.pc \in BackOutPCs /\ main'.order = main.order,
           main'.pc \in CancelledPCs => "cancelled" \in log[main'.order]
    PROVE  TrackInv'
<1>1. MainCalm
  BY ReadsStay DEF MainCalm, ThreadsOnly
<1>2. DisarmSafe /\ TrackCalm
  BY DEF DisarmSafe, TrackCalm, ThreadsOnly, Live
<1> QED BY <1>1, <1>2, TrackKept

\* A pass of the guard keeps the invariant: what it forgets is over, or seen as held.
LEMMA TrackGuard ==
    ASSUME CallsAnswered, TrackInv, [Next]_vars, ExpireStaleEntries PROVE TrackInv'
<1>0. TrackFacts
  BY TrackBase
<1> USE DEF OnlyMain, storeVars
<1>1. ASSUME NEW B \in SUBSET prevHeld, NoteExits(B) PROVE TrackInv'
  <2>1. main' = IdleMain \/ main' = [IdleMain EXCEPT !.pc = "read"]
    BY <1>1 DEF NoteExits
  <2>2. main'.pc \notin BackOutPCs /\ main'.filled = {} /\ main'.cancelled = {} /\ main'.held = {}
    BY <2>1 DEF IdleMain, BackOutPCs
  <2> QED BY <1>1, <2>2, TrackThreads DEF ThreadsOnly, NoteExits, CancelledPCs
<1>2. CASE NoteExitsUnread
  <2>2. main'.pc \notin BackOutPCs /\ main'.filled = {} /\ main'.cancelled = {} /\ main'.held = {}
    BY <1>2 DEF NoteExitsUnread, IdleMain, BackOutPCs
  <2> QED BY <1>2, <2>2, TrackThreads DEF ThreadsOnly, NoteExitsUnread, CancelledPCs
<1>3. ASSUME NEW held \in {Held, snap}, ReadOrders(held) PROVE TrackInv'
  <2>1. /\ main'.pc = "list" /\ main'.held = held
        /\ main'.filled = {o \in Orders : "filled" \in log[o]}
        /\ main'.cancelled = {o \in Orders : "cancelled" \in log[o]}
    BY <1>0, <1>3 DEF ReadOrders, TrackFacts, MainType
  <2>2. \A s \in held : Shown(s)
    BY DEF TrackInv, SnapReal, Held, HeldOrder, Shown, WasHeld
  <2>3. UNCHANGED <<log, sym, broker, snap, armed, requested>>
    BY <1>3 DEF ReadOrders
  <2>4. ReadsKept' /\ SnapReal'
    BY <2>1, <2>2, <2>3 DEF TrackInv, ReadsKept, SnapReal, Shown, WasHeld
  <2>5. MainCalm
    BY <2>1, <2>4 DEF MainCalm, BackOutPCs, CancelledPCs
  <2>6. DisarmSafe /\ TrackCalm
    BY <2>3 DEF DisarmSafe, TrackCalm, Live
  <2> QED BY <2>5, <2>6, TrackKept
<1>4. CASE ListArmed \/ ScanDone
  <2>1. \/ main' = IdleMain /\ main'.pc \notin BackOutPCs
        \/ /\ main'.pc = "scan" /\ main'.filled \subseteq main.filled
           /\ main'.cancelled \subseteq main.cancelled /\ main'.held = main.held
    <3>1. CASE ListArmed
      BY <1>0, <3>1 DEF ListArmed, TrackFacts, MainType
    <3>2. CASE ScanDone
      BY <3>2, IdleTypes DEF ScanDone, BackOutPCs
    <3> QED BY <1>4, <3>1, <3>2
  <2> QED BY <1>4, <2>1, TrackThreads
      DEF ThreadsOnly, ListArmed, ScanDone, CancelledPCs, BackOutPCs
<1>5. ASSUME NEW o \in main.todo, ScanVanished(o) \/ ScanKeeps(o) PROVE TrackInv'
  <2>1. \/ main' = IdleMain /\ main'.pc \notin BackOutPCs
        \/ /\ main'.pc = "scan" /\ main'.filled = main.filled
           /\ main'.cancelled = main.cancelled /\ main'.held = main.held
    BY <1>0, <1>5, IdleTypes DEF ScanVanished, ScanKeeps, Scanning, Skip, TrackFacts, MainType,
       BackOutPCs
  <2> QED BY <1>5, <2>1, TrackThreads
      DEF ThreadsOnly, ScanVanished, ScanKeeps, CancelledPCs, BackOutPCs
<1>6. ASSUME NEW o \in main.todo, ScanStale(o) PROVE TrackInv'
  <2>1. /\ main'.pc = "cancel" /\ main'.order = o /\ main'.filled = main.filled
        /\ main'.cancelled = main.cancelled /\ main'.held = main.held
    BY <1>0, <1>6 DEF ScanStale, Scanning, Skip, TrackFacts, MainType
  <2>2. armed[o] # "no"
    BY <1>6 DEF ScanStale
  <2> QED BY <1>6, <2>1, <2>2, TrackThreads DEF ThreadsOnly, ScanStale, CancelledPCs
<1>7. ASSUME NEW o \in main.todo, ScanFilled(o) PROVE TrackInv'
  <2>1. /\ main'.pc = "scan" /\ main'.filled = main.filled
        /\ main'.cancelled = main.cancelled /\ main'.held = main.held
        /\ armed' = [armed EXCEPT ![o] = "no"] /\ o \in Orders
        /\ UNCHANGED <<log, sym, broker, snap, requested>>
    BY <1>0, <1>7 DEF ScanFilled, Scanning, Skip, TrackFacts, MainType, Disarm
  <2>2. broker[o] # "open" \/ Doubles(o)
    BY <1>7, <2>1, FilledSafe DEF ScanFilled
  <2>3. MainCalm
    BY <2>1, ReadsStay DEF MainCalm, BackOutPCs, CancelledPCs
  <2>4. DisarmSafe /\ TrackCalm
    BY <1>0, <2>1, <2>2 DEF DisarmSafe, TrackCalm, Live, Doubles, TrackFacts, TypeOK
  <2> QED BY <2>3, <2>4, TrackKept
<1>8. ASSUME NEW o \in main.todo, ScanCancelled(o) PROVE TrackInv'
  <2>1. /\ main'.pc = "release" /\ main'.order = o /\ main'.filled = main.filled
        /\ main'.cancelled = main.cancelled /\ main'.held = main.held
        /\ armed' = [armed EXCEPT ![o] = "no"] /\ o \in Orders
        /\ armed[o] # "no" /\ o \in main.cancelled
        /\ UNCHANGED <<log, sym, broker, snap, requested>>
    BY <1>0, <1>8 DEF ScanCancelled, Scanning, Skip, TrackFacts, MainType, Disarm
  <2>2. "cancelled" \in log[o] /\ broker[o] # "open"
    BY <1>0, <2>1 DEF TrackInv, ReadsKept, TrackFacts, Ended
  <2>3. MainCalm
    BY <2>1, <2>2, ReadsStay DEF MainCalm
  <2>4. DisarmSafe /\ TrackCalm
    BY <1>0, <2>1, <2>2 DEF DisarmSafe, TrackCalm, Live, TrackFacts, TypeOK
  <2> QED BY <2>3, <2>4, TrackKept
<1>9. CASE BackOutCancel
  <2>1. /\ main.pc = "cancel" /\ main'.pc = "bench" /\ main'.order = main.order
        /\ main'.filled = main.filled /\ main'.cancelled = main.cancelled
        /\ main'.held = main.held /\ main.order \in Orders /\ CancelEntry(main.order)
        /\ UNCHANGED <<sym, snap, requested, armed>>
    BY <1>0, <1>9 DEF BackOutCancel, TrackFacts, MainType, TypeOK, BackOutPCs
  <2>2. log' = [log EXCEPT ![main.order] = @ \cup {"cancelled"}]
    BY <2>1 DEF CancelEntry, Record
  <2>3. MainCalm
    BY <1>0, <2>1, <2>2, ReadsStay DEF MainCalm, BackOutPCs, TrackFacts, TypeOK
  <2>4. DisarmSafe /\ TrackCalm
    BY <1>0, <2>1, <2>2 DEF DisarmSafe, TrackCalm, Live, TrackFacts, TypeOK
  <2> QED BY <2>3, <2>4, TrackKept
<1>10. CASE BackOutBench \/ ReleaseRead \/ ReleaseWrite
  <2>1. main.pc \in CancelledPCs
    BY <1>10 DEF BackOutBench, ReleaseRead, ReleaseWrite, CancelledPCs, BackOutPCs
  <2>2. \/ main' = IdleMain /\ main'.pc \notin BackOutPCs
        \/ /\ main'.pc \in CancelledPCs /\ main'.order = main.order /\ main'.filled = main.filled
           /\ main'.cancelled = main.cancelled /\ main'.held = main.held
    <3>1. CASE BackOutBench
      BY <1>0, <3>1, IdleTypes DEF BackOutBench, TrackFacts, MainType, CancelledPCs, BackOutPCs
    <3>2. CASE ReleaseRead
      BY <1>0, <3>2 DEF ReleaseRead, TrackFacts, MainType, CancelledPCs, BackOutPCs
    <3>3. CASE ReleaseWrite
      <4>1. /\ main'.order = main.order /\ main'.filled = main.filled /\ main'.pc = "forget"
            /\ main'.cancelled = main.cancelled /\ main'.held = main.held
        BY <1>0, <3>3 DEF ReleaseWrite, TrackFacts, MainType
      <4> QED BY <4>1 DEF CancelledPCs, BackOutPCs
    <3> QED BY <1>10, <3>1, <3>2, <3>3
  <2>3. "cancelled" \in log[main.order]
    BY <2>1 DEF TrackInv, BackingOut
  <2> QED BY <1>10, <2>1, <2>2, <2>3, TrackThreads
      DEF ThreadsOnly, BackOutBench, ReleaseRead, ReleaseWrite, CancelledPCs
<1>11. CASE Forget
  <2>0. main.pc = "forget" /\ main.order \in Orders
    BY <1>0, <1>11 DEF Forget, TrackFacts, TypeOK, BackOutPCs
  <2> PICK o \in Orders : o = main.order
    BY <2>0
  <2>1. /\ main'.pc = "scan" /\ main'.filled = main.filled
        /\ main'.cancelled = main.cancelled /\ main'.held = main.held
        /\ armed' = [armed EXCEPT ![o] = "no"]
        /\ requested' = requested \ {sym[o]}
        /\ UNCHANGED <<log, sym, broker, snap>>
    BY <1>0, <1>11 DEF Forget, TrackFacts, MainType, Disarm
  <2>2. "cancelled" \in log[o] /\ broker[o] # "open"
    BY <1>0, <2>0 DEF TrackInv, BackingOut, TrackFacts, Ended, CancelledPCs, BackOutPCs
  <2>3. \A q \in Orders \ {o} : Live(q) => sym[q] # sym[o]
    BY <2>0 DEF TrackInv, BackingOut, BackOutPCs
  <2>4. MainCalm
    BY <2>1, ReadsStay DEF MainCalm, BackOutPCs, CancelledPCs
  <2>5. DisarmSafe
    BY <1>0, <2>1, <2>2 DEF DisarmSafe, TrackFacts, TypeOK
  <2>6. ~Live(o)'
    BY <2>1, <2>2 DEF Live
  <2>7. \A q \in Orders : (Live(q)' => Live(q)) /\ (armed'[q] # "no" => armed[q] # "no")
    BY <1>0, <2>1 DEF Live, TrackFacts, TypeOK
  <2> QED BY <2>1, <2>3, <2>4, <2>5, <2>6, <2>7, TrackDropped
<1> QED BY <1>1, <1>2, <1>3, <1>4, <1>5, <1>6, <1>7, <1>8, <1>9, <1>10, <1>11 DEF ExpireStaleEntries

\* The guard is where it was.
LEMMA SameMain ==
    ASSUME TrackInv, [Next]_vars, main' = main, snap' = snap PROVE MainCalm
<1>1. ReadsKept' /\ SnapReal'
  BY ReadsStay
<1>2. main.pc \in CancelledPCs => "cancelled" \in log[main.order] /\ main.order \in Orders
  BY DEF TrackInv, BackingOut, LifeInv, EntryInv, TypeInv, TypeOK, CancelledPCs
<1>3. \A o \in Orders : log[o] \subseteq log'[o]
  BY EveryStoreStep, StoreGrows DEF TrackInv, LifeInv
<1> QED BY <1>1, <1>2, <1>3 DEF MainCalm

\* The main thread is not backing an order out.
LEMMA AwayMain ==
    ASSUME TrackInv, [Next]_vars, snap' = snap, main'.pc \notin BackOutPCs,
           \/ main' = IdleMain
           \/ /\ main'.filled = main.filled /\ main'.cancelled = main.cancelled
              /\ main'.held = main.held
    PROVE  MainCalm
<1>1. ReadsKept' /\ SnapReal'
  BY ReadsStay
<1> QED BY <1>1 DEF MainCalm, CancelledPCs

\* A decision on a pending order keeps the invariant.
LEMMA TrackDecided ==
    ASSUME CallsAnswered, TrackInv, [Next]_vars, NEW o \in Orders, NEW out \in Outcomes,
           Decides(o, out), main' = main, snap' = snap, requested' = requested
    PROVE  TrackInv'
<1>0. TrackFacts
  BY TrackBase
<1>1. MainCalm
  BY SameMain
<1>2. DisarmSafe
  BY <1>0, SubmitAnswered DEF Decides, DisarmSafe, TrackFacts
<1>3. Live(o)
  BY <1>0 DEF Decides, Pending, Live
<1>4. \A q \in Orders \ {o} : log'[q] = log[q] /\ armed'[q] = armed[q]
  BY <1>0, SubmitLeaves, SubmitAnswered DEF Decides, TrackFacts
<1>5. TrackCalm
  BY <1>3, <1>4 DEF TrackCalm, Live
<1> QED BY <1>1, <1>2, <1>5, TrackKept

\* A refused request is forgotten with its symbol.
LEMMA TrackRefused ==
    ASSUME CallsAnswered, TrackInv, [Next]_vars, NEW o \in Orders, Pending(o), Reject(o),
           main' = main, snap' = snap, armed' = armed, sym' = sym
    PROVE  TrackInv'
<1>0. TrackFacts
  BY TrackBase
<1>1. MainCalm
  BY SameMain
<1>2. /\ log' = [log EXCEPT ![o] = @ \cup {"rejected"}]
      /\ requested' = requested \ {sym[o]}
  BY DEF Reject, Record
<1>3. Live(o)
  BY DEF Pending, Live
<1>4. \A q \in Orders \ {o} : Live(q) => sym[q] # sym[o]
  BY <1>3 DEF TrackInv, OneLive
<1>5. DisarmSafe
  BY DEF DisarmSafe
<1>6. "rejected" \in log'[o] /\ \A q \in Orders \ {o} : log'[q] = log[q]
  BY <1>0, <1>2 DEF TrackFacts, TypeOK
<1>7. ~Live(o)' /\ \A q \in Orders : Live(q)' => Live(q)
  BY <1>6 DEF Live
<1> QED BY <1>1, <1>2, <1>4, <1>5, <1>7, TrackDropped

\* The tick keeps the invariant.
LEMMA TrackTick == ASSUME CallsAnswered, TrackInv, [Next]_vars, Tick PROVE TrackInv'
<1>0. TrackFacts
  BY TrackBase
<1> USE DEF OnlyMain, storeVars, threadVars
<1>1. ASSUME NEW s \in Symbols, NEW o \in Orders, TickRequest(s, o) PROVE TrackInv'
  <2>1. /\ main'.pc = "signals" /\ main'.filled = main.filled
        /\ main'.cancelled = main.cancelled /\ main'.held = main.held
        /\ main.pc = "signals"
    BY <1>0, <1>1 DEF TickRequest, TrackFacts, MainType
  <2>2. snap' = snap /\ armed' = armed /\ \A q \in Orders \ {o} : log'[q] = log[q]
    BY <1>0, <1>1 DEF TickRequest, Record, TrackFacts, TypeOK
  <2>3. MainCalm
    BY <2>1, <2>2, AwayMain DEF BackOutPCs
  <2>4. DisarmSafe
    BY <2>2 DEF DisarmSafe
  <2> QED BY <1>1, <2>1, <2>2, <2>3, <2>4, TrackRequested DEF TickRequest, BackOutPCs
<1>2. ASSUME NEW o \in Orders, NEW out \in Outcomes, ApproveAuto(o, out) PROVE TrackInv'
  BY <1>2, TrackDecided DEF ApproveAuto, Approving, Decides
<1>3. ASSUME NEW o \in Orders, RejectCapped(o) PROVE TrackInv'
  BY <1>3, TrackRefused DEF RejectCapped, Approving
<1>4. ASSUME \/ TickStart \/ (\E r \in Reads : TickOpen(r)) \/ TickBreach
             \/ (\E s \in Symbols : TickSkip(s)) \/ TickSignalsDone \/ TickDone
      PROVE  TrackInv'
  <2>1. main'.pc \notin BackOutPCs
    BY <1>0, <1>4, IdleTypes DEF TickStart, TickOpen, TickBreach, TickSkip, TickSignalsDone,
       TickDone, GoTo, TrackFacts, MainType, BackOutPCs
  <2>2. \/ main' = IdleMain
        \/ /\ main'.filled = main.filled /\ main'.cancelled = main.cancelled
           /\ main'.held = main.held
    BY <1>0, <1>4 DEF TickStart, TickOpen, TickBreach, TickSkip, TickSignalsDone,
       TickDone, GoTo, TrackFacts, MainType
  <2>3. ThreadsOnly
    BY <1>4 DEF ThreadsOnly, TickStart, TickOpen, TickBreach, TickSkip, TickSignalsDone, TickDone
  <2> QED BY <2>1, <2>2, <2>3, TrackThreads DEF CancelledPCs
<1> QED BY <1>1, <1>2, <1>3, <1>4 DEF Tick

\* The trigger thread keeps the invariant.
LEMMA TrackTrigger == ASSUME CallsAnswered, TrackInv, [Next]_vars, Trigger PROVE TrackInv'
<1>0. TrackFacts
  BY TrackBase
<1> USE DEF storeVars, threadVars
<1>1. ASSUME NEW s \in Symbols, NEW o \in Orders, NEW r \in Reads, NEW out \in Outcomes,
             TriggerSubmit(s, o, r, out)
      PROVE  TrackInv'
  <2>1. /\ main' = main /\ snap' = snap /\ ~halted /\ Eligible(s) /\ Unused(o)
        /\ requested' = requested \cup {s} /\ sym' = [sym EXCEPT ![o] = s]
        /\ Submit(o, out, {"requested", "approved"})
    BY <1>1 DEF TriggerSubmit, Blocked
  <2>2. /\ DisarmSafe
        /\ \A q \in Orders \ {o} : log'[q] = log[q] /\ armed'[q] = armed[q]
    BY <1>0, <2>1, SubmitLeaves, SubmitAnswered DEF DisarmSafe, TrackFacts
  <2> QED BY <2>1, <2>2, SameMain, TrackRequested
<1>2. ASSUME TriggerCount \/ (\E r \in Reads : TriggerSkip(r)) \/ TriggerBreach
      PROVE  TrackInv'
  <2>1. main' = main /\ snap' = snap
    BY <1>2 DEF TriggerCount, TriggerSkip, TriggerBreach
  <2>2. DisarmSafe /\ TrackCalm
    BY <1>2 DEF TriggerCount, TriggerSkip, TriggerBreach, DisarmSafe, TrackCalm, Live
  <2> QED BY <2>1, <2>2, SameMain, TrackKept
<1> QED BY <1>1, <1>2 DEF Trigger

\* The dashboard keeps the invariant.
LEMMA TrackDashboard == ASSUME CallsAnswered, TrackInv, [Next]_vars, Dashboard PROVE TrackInv'
<1> USE DEF storeVars, threadVars
<1>1. ASSUME NEW o \in Orders, NEW out \in Outcomes, ManualApprove(o, out) PROVE TrackInv'
  BY <1>1, TrackDecided DEF ManualApprove, Decides
<1>2. ASSUME NEW o \in Orders, ManualReject(o) PROVE TrackInv'
  BY <1>2, TrackRefused DEF ManualReject
<1>3. ASSUME NEW s \in Symbols, ManualExit(s) PROVE TrackInv'
  <2>1. UNCHANGED <<log, sym, snap, main, armed, requested>>
    BY <1>3 DEF ManualExit
  <2>2. DisarmSafe /\ TrackCalm
    BY <2>1 DEF DisarmSafe, TrackCalm, Live
  <2> QED BY <2>1, <2>2, SameMain, TrackKept
<1> QED BY <1>1, <1>2, <1>3 DEF Dashboard

\* A flatten forgets a symbol with its entry, which is cancelled.
LEMMA TrackFlatten == ASSUME CallsAnswered, TrackInv, [Next]_vars, Flatten PROVE TrackInv'
<1>0. TrackFacts
  BY TrackBase
<1> USE DEF storeVars, threadVars
<1>1. ASSUME NEW o \in flat.todo, FlattenEntry(o) PROVE TrackInv'
  <2>1. /\ o \in Orders /\ armed[o] # "no" /\ main' = main /\ snap' = snap /\ sym' = sym
        /\ CancelEntry(o) /\ armed' = [armed EXCEPT ![o] = "no"]
        /\ requested' = requested \ {sym[o]}
    BY <1>0, <1>1 DEF FlattenEntry, Disarm, TrackFacts, TypeOK, FlatType
  <2>2. /\ broker'[o] # "open" /\ "cancelled" \in log'[o]
        /\ \A q \in Orders \ {o} : log'[q] = log[q]
    BY <1>0, <2>1, CancelAnswered DEF TrackFacts, TypeOK, CancelEntry, Record
  <2>3. \A q \in Orders \ {o} : Live(q) => sym[q] # sym[o]
    BY <2>1 DEF TrackInv, ArmedAlone
  <2>4. DisarmSafe /\ \A q \in Orders : armed'[q] # "no" => armed[q] # "no"
    BY <1>0, <2>1, <2>2 DEF DisarmSafe, TrackFacts, TypeOK
  <2>5. ~Live(o)' /\ \A q \in Orders : Live(q)' => Live(q)
    BY <2>2 DEF Live
  <2>6. MainCalm
    BY <2>1, SameMain
  <2> QED BY <2>1, <2>3, <2>4, <2>5, <2>6, TrackDropped
<1>2. ASSUME \/ CloseSession \/ (\E o \in flat.todo : FlattenVanished(o))
             \/ (\E F \in SUBSET snap : FlattenPositions(F))
             \/ (\E F \in SUBSET Held : Sweep(F))
      PROVE  TrackInv'
  <2>1. UNCHANGED <<log, sym, snap, armed, requested>>
    BY <1>2 DEF CloseSession, FlattenVanished, FlattenPositions, Sweep
  <2>2. DisarmSafe /\ TrackCalm
    BY <2>1 DEF DisarmSafe, TrackCalm, Live
  <2>3. \/ main' = main
        \/ /\ main'.pc \notin BackOutPCs
           /\ \/ main'.filled = main.filled /\ main'.cancelled = main.cancelled
                 /\ main'.held = main.held
              \/ main'.filled = {} /\ main'.cancelled = {} /\ main'.held = {}
    BY <1>0, <1>2 DEF CloseSession, FlattenVanished, FlattenPositions, Sweep, GoTo, TrackFacts,
       MainType, IdleMain, BackOutPCs
  <2>4. MainCalm
    BY <2>1, <2>3, SameMain, ReadsStay DEF MainCalm, CancelledPCs
  <2> QED BY <2>2, <2>4, TrackKept
<1> QED BY <1>1, <1>2 DEF Flatten

\* The sync reads what is held; the broker and time disarm nothing.
LEMMA TrackEnvironment ==
    ASSUME CallsAnswered, TrackInv, [Next]_vars, Environment PROVE TrackInv'
<1>0. TrackFacts
  BY TrackBase
<1> USE DEF storeVars, threadVars
<1>1. CASE SyncPositions
  <2>1. UNCHANGED <<log, sym, broker, main, armed, requested>> /\ snap' = Held
    BY <1>1 DEF SyncPositions
  <2>2. SnapReal' /\ ReadsKept'
    BY <2>1 DEF SnapReal, ReadsKept, Held, HeldOrder, Shown, WasHeld, TrackInv
  <2>3. main.pc \in CancelledPCs => "cancelled" \in log[main.order]
    BY DEF TrackInv, BackingOut
  <2>4. MainCalm
    BY <2>1, <2>2, <2>3 DEF MainCalm
  <2>5. DisarmSafe /\ TrackCalm
    BY <2>1 DEF DisarmSafe, TrackCalm, Live
  <2> QED BY <2>4, <2>5, TrackKept
<1>2. ASSUME NEW o \in Orders, Age(o) PROVE TrackInv'
  <2>1. UNCHANGED <<log, sym, snap, main, requested>>
    BY <1>2 DEF Age
  <2>2. \A q \in Orders : armed'[q] = "no" <=> armed[q] = "no"
    BY <1>0, <1>2 DEF Age, TrackFacts, TypeOK
  <2>3. DisarmSafe /\ TrackCalm
    BY <2>1, <2>2 DEF DisarmSafe, TrackCalm, Live
  <2> QED BY <2>1, <2>3, SameMain, TrackKept
<1>3. ASSUME \/ \E o \in Orders : Fill(o) \/ BracketExit(o) \/ OrderEnds(o)
             \/ \E s \in Symbols : CooldownElapses(s)
             \/ NewDay
      PROVE  TrackInv'
  <2>1. UNCHANGED <<log, sym, snap, main, armed, requested>>
    BY <1>3 DEF Fill, BracketExit, OrderEnds, BrokerMoves, CooldownElapses, NewDay
  <2>2. DisarmSafe /\ TrackCalm
    BY <2>1 DEF DisarmSafe, TrackCalm, Live
  <2> QED BY <2>1, <2>2, SameMain, TrackKept
<1>4. ~Restart
  BY DEF CallsAnswered, Restart
<1> QED BY <1>1, <1>2, <1>3, <1>4 DEF Environment

\* Every step keeps the invariant, when the broker answers every call.
LEMMA TrackNext == ASSUME CallsAnswered, TrackInv, [Next]_vars PROVE TrackInv'
<1>1. CASE UNCHANGED vars
  <2>1. UNCHANGED <<log, sym, snap, main, armed, requested>>
    BY <1>1 DEF vars
  <2>2. DisarmSafe /\ TrackCalm
    BY <2>1 DEF DisarmSafe, TrackCalm, Live
  <2> QED BY <2>1, <2>2, SameMain, TrackKept
<1> QED BY <1>1, TrackGuard, TrackTick, TrackTrigger, TrackDashboard, TrackFlatten,
           TrackEnvironment DEF Next

\* At the start nothing is known.
LEMMA TrackInit == Init => TrackInv
<1> SUFFICES ASSUME Init PROVE TrackInv
  OBVIOUS
<1>1. main.pc \notin BackOutPCs /\ main.filled = {} /\ main.cancelled = {} /\ main.held = {}
  BY DEF Init, IdleMain, BackOutPCs
<1>2. ReadsKept /\ BackingOut /\ SnapReal
  BY <1>1 DEF ReadsKept, BackingOut, CancelledPCs, SnapReal, Init
<1>3. Ended /\ Decided /\ OneLive /\ ArmedAlone /\ OpenIsTracked /\ stale = {}
  BY DEF Init, Ended, Decided, OneLive, Live, ArmedAlone, OpenIsTracked
<1> QED BY <1>2, <1>3, LifeInit DEF TrackInv

\* When no call to the broker is lost or refused and the process is not restarted, an
\* order that rests at the broker is one the service tracks, in every reachable state
\* and whatever else fails, but for an entry that doubles one lost to a cancel/fill race.
THEOREM RestingTracked ==
    ASSUME Faults \cap {"cancel_fails", "submit_lost", "restart"} = {}
    PROVE  Spec => []OpenIsTracked
<1>1. CallsAnswered
  BY DEF CallsAnswered
<1>2. TrackInv /\ [Next]_vars => TrackInv'
  BY <1>1, TrackNext
<1>3. TrackInv => OpenIsTracked
  BY DEF TrackInv
<1> QED BY <1>2, <1>3, TrackInit, PTL DEF Spec

-----------------------------------------------------------------------------
(***************************************************************************)
(* FlatAfterClose.  The close leaves nothing behind because the lock keeps *)
(* every submit out while it runs, because nothing pending outlives the    *)
(* tick that requested it (a person's approval could otherwise follow the  *)
(* close), and because what rests is armed: that is OpenIsTracked.         *)
(***************************************************************************)

\* the lock: the trigger thread and a locked task of the main thread exclude each other
Excluded == trig.pc # "idle" => main.pc \notin LockedPCs

\* A flatten belongs to one thread; the main thread's has every armed entry to do.
FlatOwner ==
    /\ flat.by = "trig" => trig.pc = "flatten"
    /\ flat.by = "main" <=> main.pc \in {"flatten", "eod"}
    /\ flat.by = "main" => flat.todo = Armed

LockInv == TypeInv /\ Excluded /\ FlatOwner

\* A step that starts and ends no flatten.
LEMMA OwnerKept ==
    ASSUME LockInv, TypeInv', Excluded', UNCHANGED flat,
           flat.by = "trig" => trig'.pc = "flatten",
           main'.pc \in {"flatten", "eod"} <=> main.pc \in {"flatten", "eod"},
           main.pc \in {"flatten", "eod"} =>
              \A o \in Orders : armed'[o] = "no" <=> armed[o] = "no"
    PROVE  LockInv'
  BY DEF LockInv, FlatOwner, Armed

\* A pass of the guard holds no lock and flattens nothing.
LEMMA LockGuard == LockInv /\ TypeInv' /\ ExpireStaleEntries => LockInv'
<1> SUFFICES ASSUME LockInv, TypeInv', ExpireStaleEntries PROVE LockInv'
  OBVIOUS
<1>0. main \in MainType /\ FlatOwner /\ Excluded
  BY DEF LockInv, TypeInv, TypeOK
<1>1. main.pc \notin LockedPCs /\ trig' = trig /\ flat' = flat
  BY DEF ExpireStaleEntries, OnlyMain, NoteExits, NoteExitsUnread, ReadOrders, ListArmed,
     ScanVanished, ScanFilled, ScanCancelled, ScanKeeps, ScanStale, Scanning, BackOutCancel,
     BackOutBench, ReleaseRead, ReleaseWrite, Forget, ScanDone, LockedPCs
<1>2. main'.pc \notin LockedPCs
  <2>1. ASSUME NEW o \in main.todo,
               \/ ScanVanished(o) \/ ScanFilled(o) \/ ScanCancelled(o)
               \/ ScanKeeps(o) \/ ScanStale(o)
        PROVE  main'.pc \notin LockedPCs
    <3>1. Skip(o) \in MainType /\ Skip(o).pc = "scan"
      BY <1>0, <2>1 DEF Skip, MainType, Scanning, ScanVanished, ScanFilled, ScanCancelled,
         ScanKeeps, ScanStale
    <3>2. main'.pc \in {"idle", "scan", "release", "cancel"}
      BY <2>1, <3>1, IdleTypes DEF ScanVanished, ScanFilled, ScanCancelled, ScanKeeps,
         ScanStale, MainType
    <3> QED BY <3>2 DEF LockedPCs
  <2>2. CASE ReleaseWrite
    BY <1>0, <2>2, ForgetNext DEF LockedPCs
  <2>3. ASSUME \/ \E B \in SUBSET prevHeld : NoteExits(B)
               \/ NoteExitsUnread
               \/ \E held \in {Held, snap} : ReadOrders(held)
               \/ ListArmed \/ BackOutCancel \/ BackOutBench \/ ReleaseRead
               \/ Forget \/ ScanDone
        PROVE  main'.pc \notin LockedPCs
    BY <1>0, <2>3, IdleTypes DEF NoteExits, NoteExitsUnread, ReadOrders, ListArmed,
       BackOutCancel, BackOutBench, ReleaseRead, Forget, ScanDone, LockedPCs, MainType
  <2> QED BY <2>1, <2>2, <2>3 DEF ExpireStaleEntries
<1>3. Excluded'
  BY <1>2 DEF Excluded
<1> QED BY <1>0, <1>1, <1>2, <1>3, OwnerKept DEF FlatOwner, LockedPCs

\* The tick holds the lock; only a breach makes it flatten.
LEMMA LockTick == LockInv /\ TypeInv' /\ Tick => LockInv'
<1> SUFFICES ASSUME LockInv, TypeInv', Tick PROVE LockInv'
  OBVIOUS
<1>0. main \in MainType /\ FlatOwner /\ Excluded
  BY DEF LockInv, TypeInv, TypeOK
<1>1. trig' = trig /\ trig.pc = "idle" /\ main.pc \notin {"flatten", "eod"}
  BY <1>0 DEF Tick, OnlyMain, TickStart, TickOpen, TickBreach, TickRequest, TickSkip,
     TickSignalsDone, ApproveAuto, RejectCapped, Approving, TickDone, threadVars, LockFree,
     Excluded, LockedPCs
<1>2. Excluded' /\ flat.by = "nobody"
  BY <1>0, <1>1 DEF Excluded, FlatOwner, LockInv, TypeInv, TypeOK, FlatType
<1>3. CASE TickBreach
  <2>1. armed' = armed
    BY <1>3 DEF TickBreach
  <2>2. \/ main'.pc = "flatten" /\ flat' = [by |-> "main", todo |-> Armed]
        \/ main'.pc = "approve" /\ flat' = flat
    BY <1>0, <1>3 DEF TickBreach, GoTo, MainType
  <2> QED BY <1>1, <1>2, <2>1, <2>2 DEF LockInv, FlatOwner, Armed
<1>4. CASE ~TickBreach
  <2>1. flat' = flat /\ main'.pc \notin {"flatten", "eod"}
    BY <1>0, <1>1, <1>4, IdleTypes DEF Tick, OnlyMain, TickStart, TickOpen, TickRequest,
       TickSkip, TickSignalsDone, ApproveAuto, RejectCapped, TickDone, threadVars, GoTo, MainType
  <2> QED BY <1>1, <1>2, <2>1, OwnerKept DEF LockInv
<1> QED BY <1>3, <1>4

\* The trigger thread enters only when the lock is free.
LEMMA LockTrigger == LockInv /\ TypeInv' /\ Trigger => LockInv'
<1> SUFFICES ASSUME LockInv, TypeInv', Trigger PROVE LockInv'
  OBVIOUS
<1>0. FlatOwner /\ Excluded /\ trig \in TrigType
  BY DEF LockInv, TypeInv, TypeOK
<1>1. main' = main /\ main.pc \notin LockedPCs
  BY <1>0 DEF Trigger, TriggerSubmit, TriggerCount, TriggerSkip, TriggerBreach, threadVars,
     LockFree, Excluded
<1>2. Excluded'
  BY <1>1 DEF Excluded
<1>3. CASE TriggerBreach
  <2>1. \/ trig'.pc = "flatten" /\ flat' = [by |-> "trig", todo |-> Armed]
        \/ trig' = trig /\ flat' = flat
    BY <1>0, <1>3 DEF TriggerBreach, IdleTrig
  <2> QED BY <1>0, <1>1, <1>2, <2>1 DEF LockInv, FlatOwner, LockedPCs
<1>4. CASE ~TriggerBreach
  <2>1. flat' = flat
    BY <1>4 DEF Trigger, TriggerSubmit, TriggerCount, TriggerSkip, threadVars
  <2>2. trig.pc # "flatten"
    BY <1>4 DEF Trigger, TriggerSubmit, TriggerCount, TriggerSkip, LockFree
  <2> QED BY <1>0, <1>1, <1>2, <2>1, <2>2, OwnerKept DEF LockInv, FlatOwner, LockedPCs
<1> QED BY <1>3, <1>4

\* The close of the session takes the lock, and a flatten ends where it began.
LEMMA LockFlatten == LockInv /\ TypeInv' /\ Flatten => LockInv'
<1> SUFFICES ASSUME LockInv, TypeInv', Flatten PROVE LockInv'
  OBVIOUS
<1>0. main \in MainType /\ FlatOwner /\ Excluded /\ TypeOK /\ flat \in FlatType
  BY DEF LockInv, TypeInv, TypeOK
<1>1. CASE CloseSession
  <2>1. /\ main'.pc = "eod" /\ trig' = trig /\ trig.pc = "idle" /\ armed' = armed
        /\ flat' = [by |-> "main", todo |-> Armed]
    BY <1>1 DEF CloseSession, LockFree, IdleMain
  <2> QED BY <1>0, <2>1 DEF LockInv, FlatOwner, Excluded, Armed
<1>2. ASSUME NEW o \in flat.todo, FlattenEntry(o) PROVE LockInv'
  <2>1. /\ o \in Orders /\ main' = main /\ trig' = trig
        /\ armed' = [armed EXCEPT ![o] = "no"]
        /\ flat'.by = flat.by /\ flat'.todo = flat.todo \ {o}
    BY <1>0, <1>2 DEF FlattenEntry, Disarm, FlatType
  <2>2. flat.todo = Armed => flat'.todo = Armed'
    BY <1>0, <2>1 DEF Armed, TypeOK
  <2> QED BY <1>0, <2>1, <2>2 DEF LockInv, FlatOwner, Excluded
<1>3. ASSUME NEW o \in flat.todo, FlattenVanished(o) PROVE LockInv'
  <2>1. /\ main' = main /\ trig' = IdleTrig /\ flat' = IdleFlat /\ armed[o] = "no"
    BY <1>3 DEF FlattenVanished
  <2>2. flat.by # "main"
    BY <1>0, <2>1 DEF FlatOwner, Armed
  <2> QED BY <1>0, <2>1, <2>2, IdleTypes DEF LockInv, FlatOwner, Excluded
<1>4. ASSUME NEW F \in SUBSET snap, FlattenPositions(F) PROVE LockInv'
  <2>1. CASE flat.by = "trig"
    <3>1. main' = main /\ trig' = IdleTrig /\ flat' = IdleFlat
      BY <1>4, <2>1 DEF FlattenPositions
    <3> QED BY <1>0, <2>1, <3>1, IdleTypes DEF LockInv, FlatOwner, Excluded
  <2>2. CASE flat.by = "main"
    <3>1. /\ main'.pc \in {"sweep", "approve"} /\ trig' = trig /\ flat' = IdleFlat
          /\ main.pc \in LockedPCs
      BY <1>0, <1>4, <2>2 DEF FlattenPositions, GoTo, MainType, FlatOwner, LockedPCs
    <3> QED BY <1>0, <3>1, IdleTypes DEF LockInv, FlatOwner, Excluded
  <2> QED BY <1>0, <1>4, <2>1, <2>2 DEF FlattenPositions, FlatType
<1>5. ASSUME NEW F \in SUBSET Held, Sweep(F) PROVE LockInv'
  <2>1. main.pc = "sweep" /\ main'.pc = "idle" /\ trig' = trig /\ flat' = flat
    BY <1>5, IdleTypes DEF Sweep
  <2>2. Excluded'
    BY <1>0, <2>1 DEF Excluded, LockedPCs
  <2> QED BY <1>0, <2>1, <2>2, OwnerKept DEF FlatOwner
<1> QED BY <1>1, <1>2, <1>3, <1>4, <1>5 DEF Flatten

\* The dashboard waits for the lock; a restart frees it.
LEMMA LockOther ==
    LockInv /\ TypeInv' /\ (Dashboard \/ Environment \/ UNCHANGED vars) => LockInv'
<1> SUFFICES ASSUME LockInv, TypeInv', Dashboard \/ Environment \/ UNCHANGED vars
             PROVE  LockInv'
  OBVIOUS
<1>0. FlatOwner /\ Excluded /\ TypeOK
  BY DEF LockInv, TypeInv
<1>1. CASE Dashboard
  <2>1. UNCHANGED threadVars /\ main.pc \notin LockedPCs
    BY <1>1 DEF Dashboard, ManualApprove, ManualReject, ManualExit, threadVars, LockFree
  <2> QED BY <1>0, <2>1, OwnerKept DEF Excluded, FlatOwner, threadVars, LockedPCs
<1>2. CASE Restart
  <2>1. main' = IdleMain /\ trig' = IdleTrig /\ flat' = IdleFlat
    BY <1>2 DEF Restart
  <2> QED BY <2>1, IdleTypes DEF LockInv, Excluded, FlatOwner
<1>3. ASSUME NEW o \in Orders, Age(o) PROVE LockInv'
  <2>1. \A q \in Orders : armed'[q] = "no" <=> armed[q] = "no"
    BY <1>0, <1>3 DEF Age, TypeOK
  <2> QED BY <1>0, <1>3, <2>1, OwnerKept DEF Age, Excluded, FlatOwner, threadVars
<1>4. ASSUME \/ SyncPositions
             \/ \E o \in Orders : Fill(o) \/ BracketExit(o) \/ OrderEnds(o)
             \/ \E s \in Symbols : CooldownElapses(s)
             \/ NewDay \/ UNCHANGED vars
      PROVE  LockInv'
  <2>1. UNCHANGED threadVars /\ armed' = armed
    BY <1>4 DEF SyncPositions, Fill, BracketExit, OrderEnds, BrokerMoves, CooldownElapses,
       NewDay, threadVars, vars
  <2> QED BY <1>0, <2>1, OwnerKept DEF Excluded, FlatOwner, threadVars
<1> QED BY <1>1, <1>2, <1>3, <1>4 DEF Environment

\* Every step keeps the lock and the flatten in their places.
LEMMA LockNext == LockInv /\ [Next]_vars => LockInv'
<1> SUFFICES ASSUME LockInv, [Next]_vars PROVE LockInv'
  OBVIOUS
<1>1. TypeInv'
  BY TypeNext DEF LockInv
<1> QED BY <1>1, LockGuard, LockTick, LockTrigger, LockFlatten, LockOther DEF Next

-----------------------------------------------------------------------------
\* every request is approved by the service itself, and every call is answered
QuietDay == AutoApprove /\ Faults \subseteq {"emit_fails", "midnight"}

\* With auto approval nothing stays pending after the tick that requested it.
PendingInTick == \A o \in Orders : Pending(o) => o \in auto /\ main.pc \in {"signals", "approve"}

\* Once the day is closed nothing is pending, nothing is armed after the flatten, and
\* after the sweep what is left at the broker doubles another order.
ClosedQuiet ==
    sessionClosed =>
        /\ trig.pc = "idle" /\ main.pc \notin {"signals", "flatten"}
        /\ \A o \in Orders : ~Pending(o)
        /\ main.pc # "eod" => \A o \in Orders : armed[o] = "no"
        /\ main.pc \notin {"eod", "sweep"} =>
              \A o \in Orders : broker[o] \in {"open", "held", "naked"} => Doubles(o)

CloseInv == TrackInv /\ LockInv /\ PendingInTick /\ ClosedQuiet

\* A request becomes pending only in the signals part of the tick.
LEMMA PendingFrom ==
    ASSUME EntryInv, StoreStep, NEW o \in Orders, Pending(o)'
    PROVE  \/ Pending(o)
           \/ main.pc = "signals" /\ main'.pc = "signals" /\ (AutoApprove => o \in auto')
<1>0. TypeOK
  BY DEF EntryInv, TypeInv
<1>1. CASE log'[o] = log[o]
  BY <1>1 DEF Pending
<1>2. ASSUME NEW s \in Symbols, NEW p \in Orders, Requests(s, p), log'[o] # log[o]
      PROVE  main.pc = "signals" /\ main'.pc = "signals" /\ (AutoApprove => o \in auto')
  <2>1. o = p
    BY <1>0, <1>2 DEF Requests, Record, TypeOK
  <2> QED BY <1>2, <2>1 DEF Requests
<1>3. ASSUME NEW p \in Orders, NEW out \in Outcomes, Decides(p, out), log'[o] # log[o]
      PROVE  FALSE
  BY <1>0, <1>3, SubmitLeaves DEF Decides, Pending
<1>4. ASSUME NEW s \in Symbols, NEW p \in Orders, NEW out \in Outcomes, Triggers(s, p, out),
             log'[o] # log[o]
      PROVE  FALSE
  BY <1>0, <1>4, SubmitLeaves DEF Triggers, Pending
<1>5. ASSUME NEW p \in Orders, Refuses(p) \/ Cancels(p), log'[o] # log[o] PROVE FALSE
  BY <1>0, <1>5 DEF Refuses, Cancels, CancelEntry, Record, Pending, TypeOK
<1> QED BY <1>1, <1>2, <1>3, <1>4, <1>5 DEF StoreStep, Leaves, BrokerActs

\* The orders the service approves on its own stay so.
LEMMA AutoGrows == [Next]_vars => auto \subseteq auto'
<1> SUFFICES ASSUME [Next]_vars PROVE auto \subseteq auto'
  OBVIOUS
<1> USE DEF storeVars
<1>1. CASE ExpireStaleEntries
  BY <1>1 DEF ExpireStaleEntries, OnlyMain, NoteExits, NoteExitsUnread, ReadOrders,
     ListArmed, ScanVanished, ScanFilled, ScanCancelled, ScanKeeps, ScanStale,
     BackOutCancel, BackOutBench, ReleaseRead, ReleaseWrite, Forget, ScanDone
<1>2. CASE Tick
  BY <1>2 DEF Tick, OnlyMain, TickStart, TickOpen, TickBreach, TickRequest, TickSkip,
     TickSignalsDone, ApproveAuto, RejectCapped, TickDone
<1>3. CASE Trigger
  BY <1>3 DEF Trigger, TriggerSubmit, TriggerCount, TriggerSkip, TriggerBreach
<1>4. CASE Dashboard \/ Flatten
  BY <1>4 DEF Dashboard, ManualApprove, ManualReject, ManualExit, Flatten, CloseSession,
     FlattenEntry, FlattenVanished, FlattenPositions, Sweep
<1>5. CASE Environment \/ UNCHANGED vars
  BY <1>5 DEF Environment, SyncPositions, Fill, BracketExit, OrderEnds, BrokerMoves, Age,
     CooldownElapses, NewDay, Restart, vars
<1> QED BY <1>1, <1>2, <1>3, <1>4, <1>5 DEF Next

\* The tick goes on while a request it may approve is pending.
LEMMA TickStays ==
    ASSUME LockInv, [Next]_vars, ~Restart, main.pc \in {"signals", "approve"},
           NEW o \in Orders, o \in auto, Pending(o), AutoApprove
    PROVE  main'.pc \in {"signals", "approve"}
<1>0. main \in MainType /\ Excluded /\ FlatOwner
  BY DEF LockInv, TypeInv, TypeOK
<1>1. trig.pc = "idle" /\ flat.by = "nobody"
  BY <1>0 DEF Excluded, FlatOwner, LockedPCs, LockInv, TypeInv, TypeOK, FlatType
<1>2. CASE ExpireStaleEntries
  BY <1>2 DEF ExpireStaleEntries, NoteExits, NoteExitsUnread, ReadOrders, ListArmed,
     ScanVanished, ScanFilled, ScanCancelled, ScanKeeps, ScanStale, Scanning, BackOutCancel,
     BackOutBench, ReleaseRead, ReleaseWrite, Forget, ScanDone
<1>3. CASE Tick
  BY <1>0, <1>3 DEF Tick, OnlyMain, TickStart, TickOpen, TickBreach, TickRequest, TickSkip,
     TickSignalsDone, ApproveAuto, RejectCapped, TickDone, GoTo, threadVars, MainType
<1>4. CASE Trigger
  BY <1>4 DEF Trigger, TriggerSubmit, TriggerCount, TriggerSkip, TriggerBreach, threadVars
<1>5. CASE Dashboard
  BY <1>5 DEF Dashboard, ManualApprove, ManualReject, ManualExit, threadVars
<1>6. CASE Flatten
  BY <1>1, <1>6 DEF Flatten, CloseSession, FlattenEntry, FlattenVanished, FlattenPositions, Sweep
<1>7. CASE Environment \/ UNCHANGED vars
  BY <1>7 DEF Environment, SyncPositions, Fill, BracketExit, OrderEnds, BrokerMoves, Age,
     CooldownElapses, NewDay, threadVars, vars
<1> QED BY <1>2, <1>3, <1>4, <1>5, <1>6, <1>7 DEF Next

\* Nothing pending outlives its tick.
LEMMA PendingNext ==
    ASSUME QuietDay, CloseInv, [Next]_vars PROVE PendingInTick'
<1>0. ~Restart /\ AutoApprove /\ EntryInv /\ StoreStep
  BY EveryStoreStep DEF QuietDay, Restart, CloseInv, TrackInv, LifeInv
<1> SUFFICES ASSUME NEW o \in Orders, Pending(o)'
             PROVE  o \in auto' /\ main'.pc \in {"signals", "approve"}
  BY DEF PendingInTick
<1>1. CASE Pending(o)
  <2>1. o \in auto /\ main.pc \in {"signals", "approve"}
    BY <1>1 DEF CloseInv, PendingInTick
  <2> QED BY <1>0, <1>1, <2>1, AutoGrows, TickStays DEF CloseInv
<1>2. CASE ~Pending(o)
  BY <1>0, <1>2, PendingFrom
<1> QED BY <1>1, <1>2

\* Only close_session closes the session.
LEMMA ClosingSteps ==
    ASSUME [Next]_vars, sessionClosed' # sessionClosed
    PROVE  CloseSession \/ Restart
<1> USE DEF breakerVars
<1>1. CASE ExpireStaleEntries
  BY <1>1 DEF ExpireStaleEntries, OnlyMain, NoteExits, NoteExitsUnread, ReadOrders,
     ListArmed, ScanVanished, ScanFilled, ScanCancelled, ScanKeeps, ScanStale,
     BackOutCancel, BackOutBench, ReleaseRead, ReleaseWrite, Forget, ScanDone
<1>2. CASE Tick
  BY <1>2 DEF Tick, OnlyMain, TickStart, TickOpen, TickBreach, TickRequest, TickSkip,
     TickSignalsDone, ApproveAuto, RejectCapped, TickDone
<1>3. CASE Trigger
  BY <1>3 DEF Trigger, TriggerSubmit, TriggerCount, TriggerSkip, TriggerBreach
<1>4. CASE Dashboard \/ Flatten
  BY <1>4 DEF Dashboard, ManualApprove, ManualReject, ManualExit, Flatten,
     FlattenEntry, FlattenVanished, FlattenPositions, Sweep
<1>5. CASE Environment \/ UNCHANGED vars
  BY <1>5 DEF Environment, SyncPositions, Fill, BracketExit, OrderEnds, BrokerMoves, Age,
     CooldownElapses, NewDay, vars
<1> QED BY <1>1, <1>2, <1>3, <1>4, <1>5 DEF Next

\* What a step may do to the threads and the armed entries of a closed day.
ClosedMoves ==
    /\ trig'.pc = "idle" /\ main'.pc \notin {"signals", "flatten"}
    /\ \A o \in Orders : armed'[o] # "no" => armed[o] # "no"
    /\ main.pc = "eod" =>
          main'.pc = "eod" \/ (main'.pc = "sweep" /\ \A o \in Orders : armed'[o] = "no")
    /\ main.pc = "sweep" => main'.pc = "sweep" \/ Sweep({})

\* A pass of the guard on a closed day only disarms.
LEMMA MovesGuard == CloseInv /\ sessionClosed /\ ExpireStaleEntries => ClosedMoves
<1> SUFFICES ASSUME CloseInv, sessionClosed, ExpireStaleEntries PROVE ClosedMoves
  OBVIOUS
<1>0. main \in MainType /\ TypeOK /\ trig.pc = "idle"
  BY DEF CloseInv, LockInv, TypeInv, TypeOK, ClosedQuiet
<1>1. trig' = trig /\ main.pc \notin {"eod", "sweep"} /\ main'.pc \notin {"signals", "flatten"}
  BY <1>0, IdleTypes DEF ExpireStaleEntries, OnlyMain, NoteExits, NoteExitsUnread, ReadOrders,
     ListArmed, ScanVanished, ScanFilled, ScanCancelled, ScanKeeps, ScanStale, Scanning, Skip,
     BackOutCancel, BackOutBench, ReleaseRead, ReleaseWrite, Forget, ScanDone, MainType,
     IdleMain
<1>2. \A o \in Orders : armed'[o] # "no" => armed[o] # "no"
  BY <1>0 DEF ExpireStaleEntries, OnlyMain, NoteExits, NoteExitsUnread, ReadOrders,
     ListArmed, ScanVanished, ScanFilled, ScanCancelled, ScanKeeps, ScanStale, Disarm,
     BackOutCancel, BackOutBench, ReleaseRead, ReleaseWrite, Forget, ScanDone, TypeOK
<1> QED BY <1>0, <1>1, <1>2 DEF ClosedMoves

\* A tick of a closed day finds entries blocked and nothing to approve.
LEMMA MovesTick == CloseInv /\ sessionClosed /\ Tick => ClosedMoves
<1> SUFFICES ASSUME CloseInv, sessionClosed, Tick PROVE ClosedMoves
  OBVIOUS
<1>0. /\ main \in MainType /\ TypeOK /\ trig.pc = "idle" /\ main.pc \notin {"signals", "flatten"}
      /\ \A o \in Orders : ~Pending(o)
  BY DEF CloseInv, LockInv, TypeInv, TypeOK, ClosedQuiet
<1>1. \A o \in Orders : ~Approving(o)
  BY <1>0 DEF Approving
<1>2. TickStart \/ (\E r \in Reads : TickOpen(r)) \/ TickDone
  BY <1>0, <1>1 DEF Tick, TickBreach, TickRequest, TickSkip, TickSignalsDone, ApproveAuto,
     RejectCapped
<1>3. \A r \in Reads : Blocked(r)
  BY DEF Blocked
<1>4. trig' = trig /\ armed' = armed
  BY <1>2 DEF TickStart, TickOpen, TickDone, OnlyMain
<1>5. main.pc \notin {"eod", "sweep"} /\ main'.pc \in {"request", "approve", "idle"}
  BY <1>0, <1>2, <1>3, IdleTypes DEF TickStart, TickOpen, TickDone, GoTo, MainType
<1> QED BY <1>0, <1>4, <1>5 DEF ClosedMoves

\* The trigger thread is blocked, and the rest moves no thread.
LEMMA MovesOther ==
    ASSUME CloseInv, sessionClosed,
           Trigger \/ Dashboard \/ (Environment /\ ~Restart) \/ UNCHANGED vars
    PROVE  ClosedMoves
<1>0. /\ main \in MainType /\ TypeOK /\ trig.pc = "idle" /\ main.pc \notin {"signals", "flatten"}
      /\ \A o \in Orders : ~Pending(o)
  BY DEF CloseInv, LockInv, TypeInv, TypeOK, ClosedQuiet
<1>1. ~Trigger
  BY <1>0 DEF Trigger, TriggerSubmit, TriggerCount, TriggerSkip, TriggerBreach, Blocked
<1>2. UNCHANGED threadVars
  BY <1>1 DEF Dashboard, ManualApprove, ManualReject, ManualExit, Environment, SyncPositions,
     Fill, BracketExit, OrderEnds, BrokerMoves, Age, CooldownElapses, NewDay, threadVars, vars
<1>3. CASE Dashboard \/ UNCHANGED vars
  <2>1. armed' = armed
    BY <1>0, <1>3 DEF Dashboard, ManualApprove, ManualReject, ManualExit, vars
  <2> QED BY <1>0, <1>2, <2>1 DEF ClosedMoves, threadVars
<1>4. CASE Environment /\ ~Restart
  <2>1. \A o \in Orders : armed'[o] # "no" => armed[o] # "no"
    BY <1>0, <1>4 DEF Environment, SyncPositions,
       Fill, BracketExit, OrderEnds, BrokerMoves, Age, CooldownElapses, NewDay, TypeOK
  <2> QED BY <1>0, <1>2, <2>1 DEF ClosedMoves, threadVars
<1> QED BY <1>1, <1>3, <1>4

\* The close flattens what is armed, then sweeps every position.
LEMMA MovesFlatten == ASSUME QuietDay, CloseInv, sessionClosed, Flatten PROVE ClosedMoves
<1>0. /\ main \in MainType /\ TypeOK /\ trig.pc = "idle" /\ main.pc \notin {"signals", "flatten"}
      /\ FlatOwner /\ flat.by # "trig" /\ flat \in FlatType
  BY DEF CloseInv, LockInv, TypeInv, TypeOK, ClosedQuiet, FlatOwner
<1>1. CASE CloseSession
  <2>1. main.pc = "idle" /\ main'.pc = "eod" /\ trig' = trig /\ armed' = armed
    BY <1>1, IdleTypes DEF CloseSession, IdleMain
  <2> QED BY <1>0, <2>1 DEF ClosedMoves
<1>2. ASSUME NEW o \in flat.todo, FlattenEntry(o) PROVE ClosedMoves
  <2>1. main' = main /\ trig' = trig /\ \A q \in Orders : armed'[q] # "no" => armed[q] # "no"
    BY <1>0, <1>2 DEF FlattenEntry, Disarm, TypeOK
  <2> QED BY <1>0, <2>1 DEF ClosedMoves
<1>3. ASSUME NEW o \in flat.todo, FlattenVanished(o) PROVE ClosedMoves
  <2>1. main' = main /\ trig' = IdleTrig /\ armed' = armed
    BY <1>3 DEF FlattenVanished
  <2> QED BY <1>0, <2>1, IdleTypes DEF ClosedMoves
<1>4. ASSUME NEW F \in SUBSET snap, FlattenPositions(F) PROVE ClosedMoves
  <2>1. /\ flat.by = "main" /\ main.pc = "eod" /\ Armed = {}
        /\ trig' = trig /\ armed' = armed
    BY <1>0, <1>4 DEF FlattenPositions, FlatOwner, FlatType
  <2>2. main'.pc = "sweep"
    BY <1>0, <1>4, <2>1 DEF FlattenPositions, GoTo, MainType
  <2>3. \A o \in Orders : armed[o] = "no"
    BY <2>1 DEF Armed
  <2> QED BY <1>0, <2>1, <2>2, <2>3 DEF ClosedMoves
<1>5. ASSUME NEW F \in SUBSET Held, Sweep(F) PROVE ClosedMoves
  <2>1. F = {}
    BY <1>5 DEF Sweep, Fails, QuietDay
  <2>2. main.pc = "sweep" /\ main'.pc = "idle" /\ trig' = trig /\ armed' = armed
    BY <1>5, IdleTypes DEF Sweep
  <2> QED BY <1>0, <1>5, <2>1, <2>2 DEF ClosedMoves
<1> QED BY <1>1, <1>2, <1>3, <1>4, <1>5 DEF Flatten

\* The closing of the day is quiet, and a closed day stays quiet.
LEMMA ClosedNext == ASSUME QuietDay, CloseInv, [Next]_vars PROVE ClosedQuiet'
<1>0. /\ ~Restart /\ EntryInv /\ LifeInv /\ StoreStep /\ TypeOK /\ SentApproved
      /\ OpenIsTracked
  BY EveryStoreStep DEF QuietDay, Restart, CloseInv, TrackInv, LifeInv, EntryInv, TypeInv
<1>1. CASE ~sessionClosed /\ sessionClosed'
  <2>1. CloseSession
    BY <1>0, <1>1, ClosingSteps
  <2>2. /\ main.pc = "idle" /\ trig.pc = "idle" /\ trig' = trig /\ log' = log
        /\ main'.pc = "eod"
    BY <2>1 DEF CloseSession, LockFree, IdleMain, storeVars
  <2>3. \A o \in Orders : ~Pending(o)'
    BY <2>2 DEF CloseInv, PendingInTick, Pending
  <2> QED BY <2>2, <2>3 DEF ClosedQuiet
<1>2. CASE sessionClosed
  <2>1. ClosedMoves
    BY <1>0, <1>2, MovesGuard, MovesTick, MovesOther, MovesFlatten DEF Next
  <2>2. /\ main.pc \notin {"signals", "flatten"} /\ \A o \in Orders : ~Pending(o)
        /\ main.pc # "eod" => \A o \in Orders : armed[o] = "no"
        /\ main.pc \notin {"eod", "sweep"} =>
              \A o \in Orders : broker[o] \in {"open", "held", "naked"} => Doubles(o)
    BY <1>2 DEF CloseInv, ClosedQuiet
  <2>3. \A o \in Orders : ~Pending(o)'
    BY <1>0, <2>2, PendingFrom
  <2>4. main'.pc # "eod" => \A o \in Orders : armed'[o] = "no"
    BY <2>1, <2>2 DEF ClosedMoves
  <2>5. \A o \in Orders : BrokerStep(o)
    BY <1>0, <1>2, <2>2, SentOrMoved
  <2>6. ASSUME NEW o \in Orders, main'.pc \notin {"eod", "sweep"},
               broker'[o] \in {"open", "held", "naked"}
        PROVE  Doubles(o)'
    <3>1. broker[o] \in {"open", "held", "naked"} /\ (broker'[o] = "open" => broker[o] = "open")
      BY <2>5, <2>6 DEF BrokerStep, HeldOrder
    <3>2. log[o] # {}
      BY <1>0, <3>1 DEF SentApproved
    <3>3. Doubles(o)
      <4>1. CASE main.pc = "sweep"
        <5>1. Sweep({})
          BY <2>1, <2>6, <4>1 DEF ClosedMoves
        <5>2. HeldOrder(o) => broker'[o] = "closed"
          BY <5>1 DEF Sweep, CloseSymbols, Held
        <5>3. broker[o] = "open"
          BY <2>6, <3>1, <5>2 DEF HeldOrder
        <5> QED BY <1>0, <2>2, <4>1, <5>3 DEF OpenIsTracked
      <4>2. CASE main.pc # "sweep"
        BY <2>1, <2>2, <2>6, <3>1, <4>2 DEF ClosedMoves
      <4> QED BY <4>1, <4>2
    <3> QED BY <1>0, <3>2, <3>3, DoublesStays
  <2> QED BY <2>1, <2>3, <2>4, <2>6 DEF ClosedQuiet, ClosedMoves
<1>3. CASE ~sessionClosed /\ ~sessionClosed'
  BY <1>3 DEF ClosedQuiet
<1> QED BY <1>1, <1>2, <1>3

\* At the start nothing is pending and the session is open.
LEMMA CloseInit == Init => CloseInv
<1> SUFFICES ASSUME Init PROVE CloseInv
  OBVIOUS
<1>1. TrackInv /\ TypeInv
  BY TrackInit DEF TrackInv, LifeInv, EntryInv
<1>2. /\ ~sessionClosed /\ \A o \in Orders : ~Pending(o)
      /\ trig.pc = "idle" /\ flat.by = "nobody" /\ main.pc = "idle"
  BY DEF Init, Pending, IdleTrig, IdleFlat, IdleMain
<1> QED BY <1>1, <1>2 DEF CloseInv, LockInv, Excluded, FlatOwner, PendingInTick, ClosedQuiet

\* With auto approval and every call to the broker answered, close_session leaves the
\* account flat, and whatever fills, lags or is requested afterwards, it stays flat, but
\* for the doubled entries of OpenIsTracked.
THEOREM ClosedFlat ==
    ASSUME AutoApprove = TRUE, Faults \subseteq {"emit_fails", "midnight"}
    PROVE  Spec => []FlatAfterClose
<1>1. QuietDay /\ CallsAnswered
  BY DEF QuietDay, CallsAnswered
<1>2. CloseInv /\ [Next]_vars => CloseInv'
  BY <1>1, TrackNext, LockNext, PendingNext, ClosedNext DEF CloseInv
<1>3. CloseInv => FlatAfterClose
  BY DEF CloseInv, ClosedQuiet, FlatAfterClose
<1> QED BY <1>2, <1>3, CloseInit, PTL DEF Spec
=============================================================================

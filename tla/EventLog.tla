------------------------------ MODULE EventLog ------------------------------
(***************************************************************************)
(* The event store and who reads it back.  emit() appends one row over a   *)
(* connection the server may drop without the client noticing; readers     *)
(* select by kind, in order, some of them only the first rows.  The queue  *)
(* of approvals, the order lifecycle and the watch states are computed     *)
(* from the whole log, replay from its first rows.                         *)
(*                                                                         *)
(* Writers append what the execution service and the watcher append, in    *)
(* the order they do; a refused event leaves the writer a step ahead of    *)
(* the log.                                                                *)
(***************************************************************************)
EXTENDS Integers, Sequences, FiniteSets, FiniteSetsExt, Functions

CONSTANTS
    Tickets,      \* orders
    Watched,      \* symbols
    QueryLimit,   \* the default limit of query_events
    MaxEvents,    \* bound on the log
    MaxDrops      \* bound on the connections dropped

LogAssumption ==
    /\ Tickets \cap Watched = {}
    /\ QueryLimit \in Nat /\ MaxEvents \in Nat /\ MaxDrops \in Nat

VARIABLES
    log,    \* events: what they are of, their kind
    truth,  \* what each writer did last, logged or not
    conn,   \* the connection: up; dropped by the server; known to be closed
    lost,   \* history: events refused since it was last dropped
    cut,    \* history: subjects one of whose events was refused
    stream, \* one dashboard page: what it counted last, what it is about to send
    page,   \* the events it has been shown
    drops

logVars == <<log, truth, conn, lost, cut, stream, page, drops>>

OrderKinds == {"requested", "approved", "rejected", "submitted", "filled", "cancelled"}
WatchKinds == {"discovered", "watching", "ready", "blocked"}
Quiet == [count |-> -1, sending |-> FALSE]

Init ==
    /\ log = <<>> /\ truth = [x \in Tickets \cup Watched |-> "none"]
    /\ conn = "up" /\ lost = 0 /\ cut = {} /\ drops = 0
    /\ stream = Quiet /\ page = 0

-----------------------------------------------------------------------------
(* Readers *)

\* query_events: the rows of one subject
Of(x) == {i \in DOMAIN log : log[i].of = x}
KindsOf(x) == {log[i].kind : i \in Of(x)}
LastKind(rows) == IF rows = {} THEN "none" ELSE log[Max(rows)].kind

\* query_approval_queue: requested, and nothing that resolves it
ApprovalQueue ==
    {o \in Tickets : /\ "requested" \in KindsOf(o)
                     /\ KindsOf(o) \cap {"approved", "rejected", "submitted", "cancelled"} = {}}

\* mutant of LifecycleTypes: in the order of an order's life, cancelled with rejected
LifecycleTypesAlike ==
    <<"cancelled", "rejected", "submitted", "requested", "approved", "filled">>

\* query_order_lifecycle_snapshot goes through the kinds, not through time
LifecycleTypes == <<"submitted", "requested", "approved", "rejected", "filled", "cancelled">>

Lifecycle(o) ==
    LET known == {i \in DOMAIN LifecycleTypes : LifecycleTypes[i] \in KindsOf(o)}
    IN  IF known = {} THEN "none" ELSE LifecycleTypes[Max(known)]

\* query_watch_states_snapshot: the last change of state
WatchState(s) == LastKind({i \in Of(s) : log[i].kind # "discovered"})

\* rebuild_session: the first rows only; a discovery starts the symbol over
First == 1 .. Min({QueryLimit, Len(log)})
RebuiltSymbol(s) == LastKind(Of(s) \cap First)
\* a fill does not change what it says of an order
RebuiltOrder(o) == LastKind({i \in Of(o) \cap First : log[i].kind \in {"submitted", "cancelled"}})

-----------------------------------------------------------------------------
(* Writers *)

\* what a writer does after what it did last
AfterKind ==
    [k \in {"none"} \cup OrderKinds |->
        CASE k = "none"      -> {"requested"}
          [] k = "requested" -> {"approved", "rejected"}
          [] k = "approved"  -> {"submitted"}
          [] k = "submitted" -> {"filled", "cancelled"}
          [] OTHER           -> {}]

Does(x, k) ==
    \/ x \in Tickets /\ k \in AfterKind[truth[x]]
    \/ x \in Watched /\ truth[x] = "none" /\ k = "discovered"
    \/ x \in Watched /\ truth[x] = "discovered" /\ k = "watching"
    \/ x \in Watched /\ truth[x] \in {"watching", "ready", "blocked"}
                     /\ k \in {"ready", "blocked"} \ {truth[x]}

\* cursor() through _run: a connection known to be closed is opened again
Cursor == IF conn = "closed" THEN "up" ELSE conn

\* emit(): over a dropped connection the row is lost, and the client knows from then on
Emit(x, k) ==
    /\ Len(log) < MaxEvents /\ Does(x, k)
    /\ truth' = [truth EXCEPT ![x] = k]
    /\ IF Cursor = "up"
       THEN /\ conn' = "up" /\ log' = Append(log, [of |-> x, kind |-> k])
            /\ UNCHANGED <<lost, cut>>
       ELSE /\ conn' = "closed" /\ lost' = lost + 1 /\ cut' = cut \cup {x}
            /\ UNCHANGED log
    /\ UNCHANGED <<stream, page, drops>>

\* the server closes an idle connection
Drop ==
    /\ drops < MaxDrops /\ conn = "up"
    /\ conn' = "dropped" /\ drops' = drops + 1 /\ lost' = 0
    /\ UNCHANGED <<log, truth, cut, stream, page>>

\* a statement of _latest_event_payload and the like: tried again after a reconnect
Select ==
    /\ conn # "up" /\ conn' = "up"
    /\ UNCHANGED <<log, truth, lost, cut, stream, page, drops>>

-----------------------------------------------------------------------------
(* The dashboard's stream, on connections of its own *)

\* one round: count, and when that is new take the snapshots
Count ==
    /\ ~stream.sending
    /\ stream.count # Len(log)
    /\ stream' = [count |-> Len(log), sending |-> TRUE]
    /\ UNCHANGED <<log, truth, conn, lost, cut, page, drops>>

\* the snapshots hold all there is when they are taken
Send ==
    /\ stream.sending
    /\ page' = Len(log)
    /\ stream' = [stream EXCEPT !.sending = FALSE]
    /\ UNCHANGED <<log, truth, conn, lost, cut, drops>>

\* the page is loaded again: the stream starts over
Reload ==
    /\ stream # Quiet
    /\ stream' = Quiet /\ page' = 0
    /\ UNCHANGED <<log, truth, conn, lost, cut, drops>>

Next ==
    \/ \E x \in Tickets \cup Watched, k \in OrderKinds \cup WatchKinds : Emit(x, k)
    \/ Drop \/ Select \/ Count \/ Send \/ Reload

-----------------------------------------------------------------------------
(* Properties *)

\* Every variable has its type.
TypeOK ==
    /\ Len(log) <= MaxEvents
    /\ \A e \in Range(log) : e.of \in Tickets \cup Watched /\ e.kind \in OrderKinds \cup WatchKinds
    /\ truth \in [Tickets \cup Watched -> {"none"} \cup OrderKinds \cup WatchKinds]
    /\ conn \in {"up", "dropped", "closed"}
    /\ lost \in Nat /\ cut \subseteq Tickets \cup Watched
    /\ stream.count \in -1..MaxEvents /\ stream.sending \in BOOLEAN
    /\ page \in 0..MaxEvents /\ drops \in 0..MaxDrops

\* Who waits for approval, and how each order that is over ended
OrdersShown ==
    \A o \in Tickets \ cut :
        /\ o \in ApprovalQueue <=> truth[o] = "requested"
        /\ truth[o] \in {"rejected", "filled", "cancelled"} => Lifecycle(o) = truth[o]

\* The last state each symbol was put in.
WatchShown == \A s \in Watched \ cut : truth[s] \notin {"none", "discovered"} => WatchState(s) = truth[s]

\* Replay, of a session no longer than its query
ReplayExact ==
    Len(log) <= QueryLimit =>
        /\ \A s \in Watched \ cut : RebuiltSymbol(s) = truth[s]
        /\ \A o \in Tickets \ cut : (RebuiltOrder(o) = "cancelled") = (truth[o] = "cancelled")

\* The views the service, the dashboard and replay compute from the log agree with what was
\* done, for everything all of whose events were accepted; and a dropped connection costs one
\* event (db_pg.py:114-128, projections.py:127-158, :243-294, :349-409, replay.py:25).
ViewsAgree == OrdersShown /\ WatchShown /\ ReplayExact /\ lost <= 1

\* A page that waits for the count to change has been shown every event, also one logged
\* between the count and the snapshots (main.py:348-358).
PageUpToDate == ~stream.sending /\ stream.count = Len(log) => page = Len(log)
=============================================================================

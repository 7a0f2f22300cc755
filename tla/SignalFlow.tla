----------------------------- MODULE SignalFlow -----------------------------
(***************************************************************************)
(* The watcher of run_live_paper.py: a tick takes candidates from the      *)
(* research database, discovers those it does not know, evaluates each,    *)
(* and keeps one state per symbol, which it writes before it logs it.  Any *)
(* event may be refused by the store, which ends that symbol's visit and   *)
(* no other; the process may end between any two writes, and forgets its   *)
(* states.  Readers see the log only: the latest state and the latest      *)
(* signal of a symbol.                                                     *)
(*                                                                         *)
(* What evaluate_setup makes of the bars is a choice here; SetupRules has  *)
(* the rules.  Of the log the module keeps what its readers tell apart.    *)
(***************************************************************************)
EXTENDS Integers, Sequences, SequencesExt, FiniteSets, FiniteSetsExt

CONSTANTS
    WatchNames,       \* the symbols of the run
    Injectable,  \* those the dashboard may add
    MinBars, RowLimit, MaxSymbols,
    MaxBars,     \* bound on the bars of a symbol
    MaxTicks,    \* bound on the ticks of a run
    FlowFaults   \* the combinations of faults a run may see

(* refused   the store refuses an event              *)
(* no_rows   the provider fails                      *)
(* dies      the process ends, and is started again  *)
FlowFaultNames == {"refused", "no_rows", "dies"}

FlowAssumption ==
    /\ IsFiniteSet(WatchNames) /\ Injectable \subseteq WatchNames
    /\ \A n \in {MinBars, RowLimit, MaxSymbols, MaxBars, MaxTicks} : n \in Nat \ {0}
    /\ FlowFaults \subseteq SUBSET FlowFaultNames

States == {"watching", "ready", "blocked", "late"}

VARIABLES
    states,   \* _states; "none" for a symbol it does not know
    extra,    \* extra_symbols
    bars,     \* minute bars stored per symbol
    queue,    \* the candidates the tick has still to visit
    at,       \* how far the visit of the first of them is
    verdict,  \* what evaluate_setup said of it
    logged,    \* the state the log says each symbol is in
    signals,  \* signal_ready events logged since that state was
    torn,     \* history: symbols whose last visit did not end, since when their
              \* state was not logged again
    ticks, troubles

flowVars == <<states, extra, bars, queue, at, verdict, logged, signals, torn, ticks, troubles>>

Init ==
    /\ troubles \in FlowFaults
    /\ states = [s \in WatchNames |-> "none"] /\ logged = [s \in WatchNames |-> "none"]
    /\ extra = {}
    /\ bars = [s \in WatchNames |-> 0]
    /\ queue = <<>> /\ at = "idle" /\ verdict = "none"
    /\ signals = [s \in WatchNames |-> 0]
    /\ torn = {}
    /\ ticks = 0

-----------------------------------------------------------------------------
(* Around a tick *)

\* inject_symbol, of a dashboard thread
Inject(s) ==
    /\ s \in Injectable \ extra
    /\ extra' = extra \cup {s}
    /\ UNCHANGED <<states, bars, queue, at, verdict, logged, signals, torn, ticks, troubles>>

\* an ingest pass stored bars; the watcher is between two ticks, on the same thread
Ingest(s) ==
    /\ at = "idle" /\ bars[s] < MaxBars
    /\ bars' = [bars EXCEPT ![s] = @ + 1]
    /\ UNCHANGED <<states, extra, queue, at, verdict, logged, signals, torn, ticks, troubles>>

\* the next session_date has no bars yet
NewDate ==
    /\ at = "idle" /\ \E s \in WatchNames : bars[s] > 0
    /\ bars' = [s \in WatchNames |-> 0]
    /\ UNCHANGED <<states, extra, queue, at, verdict, logged, signals, torn, ticks, troubles>>

\* query_session_symbols: symbols with bars whose last price is in the band, most bars first
SessionRows(inBand) ==
    {SubSeq(q, 1, Min({RowLimit, Len(q)})) :
        q \in {p \in SetToSeqs({s \in inBand : bars[s] > 0}) :
                 \A i, j \in DOMAIN p : i < j => bars[p[i]] >= bars[p[j]]}}

\* get_candidates: the rows, and behind them the injected symbols that are no row
Candidates(inBand) ==
    {rows \o SetToSeq(extra \ Range(rows)) : rows \in SessionRows(inBand)}

\* the tick takes the first max_symbols of them
TickStart ==
    /\ at = "idle" /\ ticks < MaxTicks
    /\ ticks' = ticks + 1
    /\ \E inBand \in SUBSET WatchNames : \E offered \in Candidates(inBand) :
        queue' = SubSeq(offered, 1, Min({MaxSymbols, Len(offered)}))
    /\ at' = IF queue' = <<>> THEN "idle" ELSE "known"
    /\ UNCHANGED <<states, extra, bars, verdict, logged, signals, torn, troubles>>

\* the provider's failure ends the tick before its first symbol
TickWithout ==
    /\ "no_rows" \in troubles
    /\ at = "idle" /\ ticks < MaxTicks
    /\ ticks' = ticks + 1
    /\ UNCHANGED <<states, extra, bars, queue, at, verdict, logged, signals, torn, troubles>>

-----------------------------------------------------------------------------
(* The visit of one symbol *)

Visited == Head(queue)

\* what emit answers
Accepted == {TRUE} \cup {ok \in {FALSE} : "refused" \in troubles}

\* the visit goes on; the next symbol's begins, or the tick ends
Proceed(where) == at' = where /\ UNCHANGED queue
NextSymbol ==
    /\ queue' = Tail(queue)
    /\ at' = IF queue' = <<>> THEN "idle" ELSE "known"

\* the except clause of the loop: what was written stays written
Abandon == torn' = torn \cup {Visited} /\ NextSymbol

\* the event of _transition was logged: the readers see the new state
Logged(new) ==
    /\ logged' = [logged EXCEPT ![Visited] = new]
    /\ signals' = [signals EXCEPT ![Visited] = 0]
    /\ torn' = torn \ {Visited}

\* _transition: the state first, then its event; nothing when it is the same
Transition(new, ok) ==
    /\ states' = [states EXCEPT ![Visited] = new]
    /\ CASE states[Visited] = new -> UNCHANGED <<logged, signals, torn>>
         [] states[Visited] # new /\ ok -> Logged(new)
         [] OTHER -> torn' = torn \cup {Visited} /\ UNCHANGED <<logged, signals>>

\* the event is only emitted when the state changes
Refusable(new, ok) == ok \/ states[Visited] # new

Known ==
    /\ at = "known" /\ states[Visited] # "none"
    /\ Proceed("bars")
    /\ UNCHANGED <<states, extra, bars, verdict, logged, signals, torn, ticks, troubles>>

\* _discover: symbol_discovered, then the first state
Discover(ok) ==
    /\ at = "known" /\ states[Visited] = "none"
    /\ \/ ok /\ Transition("watching", TRUE) /\ Proceed("bars")
       \/ \* symbol_discovered refused: the symbol stays unknown
          ~ok /\ Abandon /\ UNCHANGED <<states, logged, signals>>
       \/ ~ok /\ Transition("watching", FALSE) /\ NextSymbol
    /\ UNCHANGED <<extra, bars, verdict, ticks, troubles>>

\* fewer than min_bars: back to watching, whatever it was
WaitForData(ok) ==
    /\ at = "bars" /\ bars[Visited] < MinBars
    /\ Refusable("watching", ok) /\ Transition("watching", ok)
    /\ NextSymbol
    /\ UNCHANGED <<extra, bars, verdict, ticks, troubles>>

\* evaluate_setup, its catalyst score and spread, and criteria_evaluated
Evaluate(v, ok) ==
    /\ at = "bars" /\ bars[Visited] >= MinBars
    /\ \/ ok /\ verdict' = v /\ Proceed("judged") /\ UNCHANGED torn
       \/ ~ok /\ Abandon /\ UNCHANGED verdict
    /\ UNCHANGED <<states, extra, bars, logged, signals, ticks, troubles>>

\* ready and it was: nothing is said again
StaysReady ==
    /\ at = "judged" /\ verdict = "ready" /\ states[Visited] = "ready"
    /\ NextSymbol
    /\ UNCHANGED <<states, extra, bars, verdict, logged, signals, torn, ticks, troubles>>

\* mutant of BecomesReady: the state it is in is not looked at
BecomesReadyAgain(ok) ==
    /\ at = "judged" /\ verdict = "ready"
    /\ Transition("ready", ok)
    /\ IF ok THEN Proceed("signal") ELSE NextSymbol
    /\ UNCHANGED <<extra, bars, verdict, ticks, troubles>>

BecomesReady(ok) ==
    /\ at = "judged" /\ verdict = "ready" /\ states[Visited] # "ready"
    /\ Transition("ready", ok)
    /\ IF ok THEN Proceed("signal") ELSE NextSymbol
    /\ UNCHANGED <<extra, bars, verdict, ticks, troubles>>

\* signal_ready; refused, it is not sent again as long as the symbol stays ready
Signal(ok) ==
    /\ at = "signal"
    /\ \/ ok /\ signals' = [signals EXCEPT ![Visited] = @ + 1] /\ NextSymbol /\ UNCHANGED torn
       \/ ~ok /\ Abandon /\ UNCHANGED signals
    /\ UNCHANGED <<states, extra, bars, verdict, logged, ticks, troubles>>

\* blocked or late, and signal_blocked, which no reader of the states looks at
NotReady(ok) ==
    /\ at = "judged" /\ verdict # "ready"
    /\ Transition(verdict, ok)
    /\ NextSymbol
    /\ UNCHANGED <<extra, bars, verdict, ticks, troubles>>

\* the process is started again: a new Watcher knows no symbol
Die ==
    /\ "dies" \in troubles /\ ticks > 0 /\ \E s \in WatchNames : states[s] # "none"
    /\ states' = [s \in WatchNames |-> "none"] /\ extra' = {}
    /\ torn' = {s \in WatchNames : logged[s] # "none"}
    /\ queue' = <<>> /\ at' = "idle" /\ verdict' = "none"
    /\ UNCHANGED <<bars, logged, signals, ticks, troubles>>

Next ==
    \/ \E s \in WatchNames : Inject(s) \/ Ingest(s)
    \/ NewDate \/ TickStart \/ TickWithout \/ Known \/ StaysReady \/ Die
    \/ \E ok \in Accepted :
        \/ Discover(ok) \/ WaitForData(ok) \/ BecomesReady(ok) \/ Signal(ok) \/ NotReady(ok)
        \/ \E v \in States \ {"watching"} : Evaluate(v, ok)

-----------------------------------------------------------------------------
(* Properties *)

\* Every variable has its type.
TypeOK ==
    /\ states \in [WatchNames -> States \cup {"none"}] /\ logged \in [WatchNames -> States \cup {"none"}]
    /\ extra \subseteq Injectable
    /\ bars \in [WatchNames -> 0..MaxBars] /\ signals \in [WatchNames -> Nat]
    /\ queue \in Seq(WatchNames) /\ Len(queue) <= MaxSymbols
    /\ at \in {"idle", "known", "bars", "judged", "signal"}
    /\ (at = "idle") = (queue = <<>>)
    /\ verdict \in States \cup {"none"}
    /\ torn \subseteq WatchNames /\ ticks \in 0..MaxTicks /\ troubles \in FlowFaults

\* A stay in ready has one signal, and query_watch_states_snapshot shows of a symbol what the
\* watcher holds of it: between two ticks, but for the symbols whose last visit was cut short.
\* However visits are cut short, no stay has two signals (watcher.py:8, :104-123, :260-287).
SignalPerStay ==
    /\ \A s \in WatchNames : signals[s] <= 1
    /\ at = "idle" =>
        \A s \in WatchNames \ torn :
            /\ logged[s] = states[s]
            /\ signals[s] = (IF states[s] = "ready" THEN 1 ELSE 0)
=============================================================================

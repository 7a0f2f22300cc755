---------------------------- MODULE TriggerBook ----------------------------
(***************************************************************************)
(* The armed-trigger book (runtime/triggers.py) between its two threads:   *)
(* the main loop ranks the candidates and arms the book (step_arm), the    *)
(* trigger thread polls prices, asks which triggers fire, and submits.     *)
(* Every book method holds the book's lock and is one step; between two    *)
(* of them the other thread may run.  fires() hands out the book's own     *)
(* objects: what the trigger thread reads of one afterwards, it reads      *)
(* without the lock, field by field, after any arm() in between.           *)
(*                                                                         *)
(* A price is a small number, an opening range one whose stop is two less. *)
(***************************************************************************)
EXTENDS Integers, FiniteSets, Sequences

CONSTANTS
    Symbols,
    None,
    Ranges,     \* the highs of opening ranges
    MaxPrice,
    MaxArmed,   \* max_armed
    MaxAge,     \* max_price_age_s, in passes of the trigger thread
    MaxArms,    \* bound on the calls of arm
    Revisable   \* an opening range that was complete may change

States == {"waiting", "armed", "weak", "fired", "filled"}
Committed == {"fired", "filled"}
High == Ranges \cup {None}
Stops == {r - 2 : r \in Ranges} \cup {None}
Trigger == [state : States, trigger : High, stop : Stops,
            price : (0..MaxPrice) \cup {None}, age : 0..(MaxAge + 1)]

\* what the constants have to satisfy
BookAssumption ==
    /\ MaxPrice \in Nat /\ Ranges \subseteq 2..MaxPrice
    /\ {MaxArmed, MaxAge, MaxArms} \subseteq Nat
    /\ IsFiniteSet(Symbols)
    /\ Revisable \in BOOLEAN
    /\ None \notin Symbols /\ None \notin 0..MaxPrice /\ None \notin Trigger

VARIABLES
    book,     \* the triggers, None for a symbol that has none
    range,    \* the opening range of a symbol, None until it is complete
    account,  \* the symbol at the execution service and the broker
    pass,     \* the trigger thread: where it is, and its locals
    arms,     \* the number of calls of arm, for the bound
    sent      \* history: what the trigger thread had read for the orders it sent

vars == <<book, range, account, pass, arms, sent>>

Idle == [pc |-> "idle", syms |-> {}, todo |-> {}, kept |-> <<>>, sym |-> None,
         trigger |-> None, state |-> "weak", late |-> {}]

Init ==
    /\ book = [s \in Symbols |-> None]
    /\ range = [s \in Symbols |-> None]
    /\ account = [s \in Symbols |-> "none"]
    /\ pass = Idle
    /\ arms = 0
    /\ sent = {}

Tracked == {s \in Symbols : book[s] # None}
Pinned == {s \in Tracked : book[s].state \in Committed}

-----------------------------------------------------------------------------
(* The main loop *)

\* the bars of a symbol complete its opening range, or correct it
RangeForms(s) ==
    /\ range[s] = None \/ Revisable
    /\ \E r \in Ranges \ {range[s]} : range' = [range EXCEPT ![s] = r]
    /\ UNCHANGED <<book, account, pass, arms, sent>>

Fresh == [state |-> "waiting", trigger |-> None, stop |-> None,
          price |-> None, age |-> 0]

Classified(s, eligible) ==
    IF range[s] = None THEN "waiting" ELSE IF eligible THEN "armed" ELSE "weak"

\* the object of a candidate: the book's own, with everything but its price anew
Armed(s, eligible) ==
    [(IF book[s] = None THEN Fresh ELSE book[s]) EXCEPT
        !.trigger = range[s],
        !.stop = IF range[s] = None THEN None ELSE range[s] - 2,
        !.state = Classified(s, eligible)]

\* mutants of Kept: every symbol makes place for the new ranking, or none does
KeptNone == {}
KeptTracked == Tracked

Kept == Pinned

\* arm: a ranking is a choice of the symbols that get a slot.  An object that
\* leaves the book stays with the trigger thread that holds it.
Arm ==
    /\ arms < MaxArms
    /\ arms' = arms + 1
    /\ \E top \in SUBSET (Symbols \ Kept) :
        /\ Cardinality(top) <= MaxArmed
        /\ \E eligible \in SUBSET top :
            book' = [s \in Symbols |->
                        IF s \in top THEN Armed(s, s \in eligible)
                        ELSE IF s \in Kept THEN book[s] ELSE None]
        /\ pass' = [pass EXCEPT !.kept =
                       [s \in pass.todo |->
                           IF pass.kept[s] = None /\ s \notin top \cup Kept
                           THEN book[s] ELSE pass.kept[s]]]
    /\ UNCHANGED <<range, account, sent>>

-----------------------------------------------------------------------------
(* The execution service and the broker, as the trigger thread sees them *)

Fills(s) ==
    /\ account[s] = "working"
    /\ account' = [account EXCEPT ![s] = "held"]
    /\ UNCHANGED <<book, range, pass, arms, sent>>

\* an entry is backed out and may be sent again; a position closes for the day
Leaves(s) ==
    /\ account[s] \in {"working", "held"}
    /\ account' = [account EXCEPT ![s] =
                      IF account[s] = "working" THEN "none" ELSE "exited"]
    /\ UNCHANGED <<book, range, pass, arms, sent>>

-----------------------------------------------------------------------------
(* The trigger thread *)

PassStart ==
    /\ pass.pc = "idle"
    /\ Tracked # {}
    /\ pass' = [pass EXCEPT !.pc = "prices", !.syms = Tracked]
    /\ UNCHANGED <<book, range, account, arms, sent>>

Older(t) == [t EXCEPT !.age = IF @ > MaxAge THEN @ ELSE @ + 1]

\* _batch_prices and update_price: a symbol without an answer is left out and
\* keeps the price it has
PassPrices ==
    /\ pass.pc = "prices"
    /\ \E answered \in SUBSET (pass.syms \cap Tracked) :
        /\ \E p \in [answered -> 0..MaxPrice] :
            book' = [s \in Symbols |->
                        IF s \in answered
                        THEN [book[s] EXCEPT !.price = p[s], !.age = 0]
                        ELSE IF s \in Tracked THEN Older(book[s]) ELSE None]
        /\ pass' = [pass EXCEPT !.pc = "filled", !.late = pass.syms \ answered]
    /\ UNCHANGED <<range, account, arms, sent>>

\* mark_filled, unless the positions cannot be read
PassFilled ==
    /\ pass.pc = "filled"
    /\ \E held \in {{s \in Symbols : account[s] = "held"}, {}} :
        book' = [s \in Symbols |->
                    IF s \in held \cap Tracked THEN [book[s] EXCEPT !.state = "filled"]
                    ELSE book[s]]
    /\ pass' = [pass EXCEPT !.pc = "fires"]
    /\ UNCHANGED <<range, account, arms, sent>>

\* mutant of Crossed: the age of a price is not asked
CrossedOld(t) ==
    /\ t.state = "armed" /\ t.price # None /\ t.trigger # None
    /\ t.price >= t.trigger

Crossed(t) ==
    /\ t.state = "armed" /\ t.price # None /\ t.trigger # None
    /\ t.price >= t.trigger
    /\ MaxAge = 0 \/ t.age <= MaxAge

\* fires
PassFires ==
    /\ pass.pc = "fires"
    /\ LET todo == {s \in Tracked : Crossed(book[s])}
       IN  pass' = [pass EXCEPT !.pc = "pick", !.todo = todo,
                       !.kept = [s \in todo |-> None]]
    /\ UNCHANGED <<book, range, account, arms, sent>>

\* the object fires() returned: the book's, or one that left it
Seen(s) == IF pass.kept[s] = None THEN book[s] ELSE pass.kept[s]

\* t.trigger is read for the call
ReadTrigger(s) ==
    /\ pass.pc = "pick" /\ s \in pass.todo
    /\ pass' = [pass EXCEPT !.pc = "send", !.sym = s, !.trigger = Seen(s).trigger]
    /\ UNCHANGED <<book, range, account, arms, sent>>

\* ... and t.stop and t.price.  submit_breakout_now has its gates, module
\* TradingExecution; among them no second order and a stop below the price.
Submit ==
    /\ pass.pc = "send"
    /\ LET s == pass.sym
           t == Seen(s)
           rest == [pass EXCEPT !.pc = "pick", !.sym = None, !.trigger = None,
                       !.todo = @ \ {s},
                       !.kept = [u \in pass.todo \ {s} |-> pass.kept[u]]]
       IN  \/ /\ t.stop < t.price
              /\ account[s] = "none"
              /\ account' = [account EXCEPT ![s] = "working"]
              /\ sent' = sent \cup {[sym |-> s, trigger |-> pass.trigger,
                            stop |-> t.stop, price |-> t.price, age |-> t.age,
                            state |-> t.state, late |-> s \in pass.late]}
              /\ pass' = [rest EXCEPT !.pc = "mark", !.sym = s]
           \/ /\ pass' = rest
              /\ UNCHANGED <<account, sent>>
    /\ UNCHANGED <<book, range, arms>>

\* mark_fired, of the book's object of that symbol
MarkFired ==
    /\ pass.pc = "mark"
    /\ book' = [s \in Symbols |->
                   IF s = pass.sym /\ s \in Tracked
                   THEN [book[s] EXCEPT !.state = "fired"] ELSE book[s]]
    /\ pass' = [pass EXCEPT !.pc = "pick", !.sym = None]
    /\ UNCHANGED <<range, account, arms, sent>>

PassEnds ==
    /\ pass.pc = "pick" /\ pass.todo = {}
    /\ pass' = Idle
    /\ UNCHANGED <<book, range, account, arms, sent>>

Next ==
    \/ Arm
    \/ \E s \in Symbols : RangeForms(s) \/ Fills(s) \/ Leaves(s) \/ ReadTrigger(s)
    \/ PassStart \/ PassPrices \/ PassFilled \/ PassFires
    \/ Submit \/ MarkFired \/ PassEnds

Spec == Init /\ [][Next]_vars

-----------------------------------------------------------------------------
(* Properties *)

\* Every variable has its type, and what the trigger thread holds is a trigger.
TypeOK ==
    /\ book \in [Symbols -> Trigger \cup {None}]
    /\ range \in [Symbols -> High]
    /\ account \in [Symbols -> {"none", "working", "held", "exited"}]
    /\ pass.pc \in {"idle", "prices", "filled", "fires", "pick", "send", "mark"}
    /\ pass.todo \subseteq Symbols
    /\ pass.pc \in {"pick", "send", "mark"} => \A s \in pass.todo : Seen(s) \in Trigger
    /\ pass.pc \in {"send", "mark"} => pass.sym \in Symbols
    /\ arms \in 0..MaxArms

\* The book tracks at most max_armed symbols that are not committed, and one that
\* fired is neither dropped by a new ranking nor ready to fire a second time.
Bounded == Cardinality(Tracked \ Pinned) <= MaxArmed
PinnedStays == [][\A s \in Pinned : s \in Pinned']_vars

\* An order is sent on a price that was seen within the age limit: not on one from
\* before the symbol left the book and came back, nor on one that a pass without
\* answers left behind.
SentFresh == MaxAge > 0 => \A o \in sent : o.age <= MaxAge

\* While opening ranges do not change, an order goes out at one range's trigger and
\* stop, above its trigger, whatever was armed between the poll and the order.
SentBreakout == \A o \in sent : o.stop = o.trigger - 2 /\ o.price >= o.trigger
=============================================================================

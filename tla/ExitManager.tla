---------------------------- MODULE ExitManager ----------------------------
(***************************************************************************)
(* The live exit manager (runtime/exit_manager.py): one manage pass every  *)
(* 12 s on the scheduler thread.  A pass reads the positions, then the     *)
(* orders, and decides for every position on these two snapshots while the *)
(* broker, the dashboard and the trigger thread go on moving the account:  *)
(*   catastrophe  far below the entry: flatten, first and unconditional;   *)
(*   enforcement  no live stop for Grace passes: flatten, or rest a stop   *)
(*                while the market is closed;                              *)
(*   trailing     raise the stop by replacing it, scale out, or flatten on *)
(*                a red candle or a breached trail.                        *)
(* A flatten is two broker calls (runtime/flatten.py): cancel the resting  *)
(* sell legs, which reserve the shares, then close.                        *)
(*                                                                         *)
(* Prices are small integers and every position is entered at Entry.  What *)
(* strategy/exits.py makes of the bars is a choice here: any stop from the *)
(* tracked one up.  Module ExitRules has the rules themselves.             *)
(***************************************************************************)
EXTENDS Integers, FiniteSets

CONSTANTS
    Symbols,
    None,
    MaxPrice,       \* prices are 1..MaxPrice, a stop may rest at 0
    Entry,          \* avg_entry_price of every position
    BracketStop,    \* where a bracket's stop leg rests
    Floor,          \* TRADING_CATASTROPHE_STOP_PCT below Entry
    Grace,          \* enforce_stop_grace_passes, 0 = off
    SyntheticTrail, \* default_trail_r_pct is not 0
    FirstRed,       \* first_red_exit
    ScaleOut,       \* scale_out_r is not 0
    MaxPositions,   \* how many positions a symbol has, one after the other
    FaultSets       \* the combinations of faults a run may see

(***************************************************************************)
(* orders_fail  the orders cannot be read                                  *)
(* calls_fail   a submit, replace or cancel fails; a close fails four times*)
(* late_legs    a filled bracket shows its legs only later                 *)
(* strip        a stop leg disappears (it expires, its parent is cancelled)*)
(***************************************************************************)
FaultKinds == {"orders_fail", "calls_fail", "late_legs", "strip"}

Prices == 1..MaxPrice
Stops == 0..MaxPrice

ASSUME ExitAssumption ==
    /\ MaxPrice \in Nat /\ Entry \in Prices
    /\ BracketStop \in Stops /\ BracketStop < Entry
    /\ Floor \in Stops /\ Floor < Entry
    /\ None \notin Stops
    /\ Grace \in Nat /\ MaxPositions \in Nat
    /\ {SyntheticTrail, FirstRed, ScaleOut} \subseteq BOOLEAN
    /\ FaultSets \subseteq SUBSET FaultKinds

VARIABLES
    \* the broker: is the symbol held, its how-manyeth position it is, the price
    \* of its live stop leg, and the symbols whose legs are still to appear
    holding, pos, stop, awaiting,
    market,        \* does the broker's clock say open
    \* fields of the manager
    tracked, naked, anchored,
    pass,          \* where the pass is, and its locals
    seen,          \* history: passes that saw the present position without a stop
    faults         \* which faults this behaviour may see

brokerVars == <<holding, pos, stop, awaiting>>
managerVars == <<tracked, naked, anchored>>
vars == <<holding, pos, stop, awaiting, market, tracked, naked, anchored, pass,
          seen, faults>>

Idle == [pc |-> "idle", held |-> {}, id |-> [s \in Symbols |-> 0],
         cur |-> [s \in Symbols |-> 1], read |-> FALSE,
         leg |-> [s \in Symbols |-> None], legOf |-> [s \in Symbols |-> 0],
         open |-> FALSE, sym |-> None, why |-> "none", want |-> 0]

Init ==
    /\ holding = [s \in Symbols |-> FALSE]
    /\ pos = [s \in Symbols |-> 0]
    /\ stop = [s \in Symbols |-> None]
    /\ awaiting = {}
    /\ market = "open"
    /\ tracked = [s \in Symbols |-> None]
    /\ naked = [s \in Symbols |-> 0]
    /\ anchored = {}
    /\ pass = Idle
    /\ seen = [s \in Symbols |-> 0]
    /\ faults \in FaultSets

-----------------------------------------------------------------------------
(* The pass *)

Holding == {s \in Symbols : holding[s]}

\* get_positions, and the tracked names that are gone are forgotten: all but their
\* naked-pass counter
ReadPositions(cur) ==
    /\ pass.pc = "idle"
    /\ tracked' = [s \in Symbols |-> IF holding[s] THEN tracked[s] ELSE None]
    /\ anchored' = {s \in anchored : holding[s] \/ tracked[s] = None}
    /\ pass' = IF Holding = {} THEN Idle
               ELSE [Idle EXCEPT !.pc = "orders", !.held = Holding,
                         !.id = pos,
                         !.cur = [s \in Symbols |-> IF holding[s] THEN cur[s] ELSE 1]]
    /\ UNCHANGED <<brokerVars, market, faults, naked, seen>>

\* mutant of ReadOrders: a flatten is not given the orders of the pass
ReadNoOrders(ok) ==
    /\ pass.pc = "orders"
    /\ ok
    /\ pass' = [pass EXCEPT !.pc = "each", !.open = (market = "open"),
                    !.leg = [s \in Symbols |-> IF s \in pass.held THEN stop[s] ELSE None],
                    !.legOf = [s \in Symbols |-> IF s \in pass.held THEN pos[s] ELSE 0]]
    /\ UNCHANGED <<brokerVars, market, faults, managerVars, seen>>

\* _all_orders and _market_open.  A failed read is None, and _stop_leg then finds
\* no leg for anyone.
ReadOrders(ok) ==
    /\ pass.pc = "orders"
    /\ ok \/ "orders_fail" \in faults
    /\ pass' = [pass EXCEPT !.pc = "each", !.read = ok, !.open = (market = "open"),
                    !.leg = [s \in Symbols |->
                                IF ok /\ s \in pass.held THEN stop[s] ELSE None],
                    !.legOf = [s \in Symbols |->
                                IF ok /\ s \in pass.held THEN pos[s] ELSE 0]]
    /\ UNCHANGED <<brokerVars, market, faults, managerVars, seen>>

Done(s) == [pass EXCEPT !.pc = "each", !.held = @ \ {s}, !.sym = None,
                        !.why = "none", !.want = 0]

Examining(s) == pass.pc = "each" /\ s \in pass.held

\* catastrophe_triggered, with the default risk multiple of one and a half
Catastrophe(s) ==
    LET cur == pass.cur[s]
        leg == pass.leg[s]
    IN  \/ cur <= Floor
        \/ /\ leg # None
           /\ leg < Entry
           /\ 2 * cur <= 2 * Entry - 3 * (Entry - leg)

-----------------------------------------------------------------------------
(* cancel_protective_and_close *)

\* Is the leg the pass read still the one that protects the symbol?
SameLeg(s) == pass.leg[s] # None /\ pass.legOf[s] = pos[s] /\ stop[s] # None

\* The legs the cancel reaches: those of the pass's orders; without them it reads
\* the open orders itself, and may find none.
Cancel(s) ==
    \/ /\ IF pass.read THEN SameLeg(s) ELSE stop[s] # None
       /\ stop' = [stop EXCEPT ![s] = None]
    \/ /\ \/ IF pass.read THEN ~SameLeg(s) ELSE stop[s] = None \/ "orders_fail" \in faults
          \/ "calls_fail" \in faults
       /\ UNCHANGED stop

BeginFlatten(s, why) ==
    /\ Cancel(s)
    /\ pass' = [pass EXCEPT !.pc = "close", !.sym = s, !.why = why]

\* The broker refuses to sell shares a leg reserves, or that are not there.
CloseRefused(s) == ~holding[s] \/ stop[s] # None \/ "calls_fail" \in faults
CloseTaken(s) == holding[s] /\ stop[s] = None

CloseDone ==
    LET s == pass.sym IN
    /\ pass.pc = "close"
    /\ CloseTaken(s)
    /\ holding' = [holding EXCEPT ![s] = FALSE]
    /\ awaiting' = awaiting \ {s}
    /\ tracked' = [tracked EXCEPT ![s] = None]
    /\ naked' = IF pass.why \in {"catastrophe", "naked"}
                THEN [naked EXCEPT ![s] = 0] ELSE naked
    /\ pass' = Done(s)
    /\ UNCHANGED <<pos, stop, market, faults, anchored, seen>>

\* mutant of CloseFailed: the counter goes on after a failed enforcement
CloseFailedKeeps ==
    LET s == pass.sym IN
    /\ pass.pc = "close"
    /\ CloseRefused(s)
    /\ pass' = IF pass.why = "first_red" THEN [pass EXCEPT !.pc = "ratchet"] ELSE Done(s)
    /\ UNCHANGED <<brokerVars, market, faults, managerVars, seen>>

\* the last attempt failed too: the legs are cancelled and the position is open.
\* A failed first-red exit goes on to the scale-out and the stop.
CloseFailed ==
    LET s == pass.sym IN
    /\ pass.pc = "close"
    /\ CloseRefused(s)
    /\ naked' = IF pass.why = "naked" THEN [naked EXCEPT ![s] = 0] ELSE naked
    /\ pass' = IF pass.why = "first_red" THEN [pass EXCEPT !.pc = "ratchet"] ELSE Done(s)
    /\ UNCHANGED <<brokerVars, market, faults, tracked, anchored, seen>>

-----------------------------------------------------------------------------
(* Catastrophe and enforcement *)

\* _rest_protective_stop: breakeven when in profit, below the market otherwise.
\* The broker refuses it while another leg reserves the shares.
RestPrice(s) == IF pass.cur[s] <= Entry THEN pass.cur[s] - 1 ELSE Entry

RestDone(s) ==
    /\ holding[s]
    /\ stop[s] = None
    /\ stop' = [stop EXCEPT ![s] = RestPrice(s)]
    /\ awaiting' = awaiting \ {s}
    /\ tracked' = [tracked EXCEPT ![s] = None]
RestFailed(s) ==
    /\ CloseRefused(s)
    /\ UNCHANGED <<stop, awaiting, tracked>>

CatastropheFlatten(s) ==
    /\ Examining(s)
    /\ Catastrophe(s)
    /\ pass.open
    /\ BeginFlatten(s, "catastrophe")
    /\ UNCHANGED <<holding, pos, awaiting, market, faults, managerVars, seen>>

CatastropheRest(s) ==
    /\ Examining(s)
    /\ Catastrophe(s)
    /\ ~pass.open
    /\ pass.leg[s] = None
    /\ \/ RestDone(s) /\ naked' = [naked EXCEPT ![s] = 0]
       \/ RestFailed(s) /\ UNCHANGED naked
    /\ pass' = Done(s)
    /\ UNCHANGED <<holding, pos, market, faults, anchored, seen>>

\* closed, and a stop rests already: it fires at the open
CatastropheWaits(s) ==
    /\ Examining(s)
    /\ Catastrophe(s)
    /\ ~pass.open
    /\ pass.leg[s] # None
    /\ pass' = Done(s)
    /\ UNCHANGED <<brokerVars, market, faults, managerVars, seen>>

Naked(s) ==
    /\ Examining(s)
    /\ ~Catastrophe(s)
    /\ Grace > 0
    /\ pass.leg[s] = None

\* history: the pass saw this very position without a stop
See(s) == seen' = IF pass.id[s] = pos[s] /\ holding[s] /\ pass.read
                  THEN [seen EXCEPT ![s] = IF @ < Grace THEN @ + 1 ELSE @] ELSE seen

\* mutant of NakedWaits: the counter is dropped at the end of every pass
NakedForgets(s) ==
    /\ Naked(s)
    /\ naked[s] + 1 < Grace
    /\ pass' = Done(s)
    /\ UNCHANGED <<brokerVars, market, faults, managerVars, seen>>

NakedWaits(s) ==
    /\ Naked(s)
    /\ naked[s] + 1 < Grace
    /\ naked' = [naked EXCEPT ![s] = @ + 1]
    /\ See(s)
    /\ pass' = Done(s)
    /\ UNCHANGED <<brokerVars, market, faults, tracked, anchored>>

NakedFlatten(s) ==
    /\ Naked(s)
    /\ naked[s] + 1 >= Grace
    /\ pass.open
    /\ naked' = [naked EXCEPT ![s] = @ + 1]
    /\ See(s)
    /\ BeginFlatten(s, "naked")
    /\ UNCHANGED <<holding, pos, awaiting, market, faults, tracked, anchored>>

NakedRest(s) ==
    /\ Naked(s)
    /\ naked[s] + 1 >= Grace
    /\ ~pass.open
    /\ RestDone(s) \/ RestFailed(s)
    /\ naked' = [naked EXCEPT ![s] = 0]
    /\ See(s)
    /\ pass' = Done(s)
    /\ UNCHANGED <<holding, pos, market, faults, anchored>>

-----------------------------------------------------------------------------
(* Trailing *)

Trailable(s) ==
    /\ Examining(s)
    /\ ~Catastrophe(s)
    /\ Grace > 0 => pass.leg[s] # None

\* mutant of ProtectedSkip: the counter survives a pass that saw a stop
SkipKeepsCount(s) ==
    /\ Trailable(s)
    /\ seen' = [seen EXCEPT ![s] = 0]
    /\ pass' = Done(s)
    /\ UNCHANGED <<brokerVars, market, faults, managerVars>>

\* protected, and the market is closed or there are no bars
ProtectedSkip(s) ==
    /\ Trailable(s)
    /\ naked' = [naked EXCEPT ![s] = 0]
    /\ seen' = [seen EXCEPT ![s] = 0]
    /\ pass' = Done(s)
    /\ UNCHANGED <<brokerVars, market, faults, tracked, anchored>>

\* The stop the trail starts from: the live stop below the entry; at or above it
\* the opening range's low when the range has formed (anchor), else a synthetic
\* one below the entry.
Tracking(s, t, anchor) ==
    LET leg == pass.leg[s] IN
    \/ /\ tracked[s] = None
       /\ leg # None /\ leg < Entry
       /\ ~anchor /\ t = [init |-> leg, scaled |-> FALSE, real |-> TRUE]
    \/ /\ tracked[s] = None
       /\ leg # None /\ leg >= Entry
       /\ SyntheticTrail
       /\ ~t.scaled /\ ~t.real
       /\ anchor \/ t.init < Entry
    \/ /\ tracked[s] # None
       /\ ~anchor
       /\ t = tracked[s]
    \/ /\ tracked[s] # None
       /\ anchor
       /\ s \notin anchored
       /\ leg # None /\ leg >= Entry
       /\ SyntheticTrail
       /\ ~t.scaled /\ ~t.real

Trackeds == [init : Stops, scaled : BOOLEAN, real : BOOLEAN]

\* manage_live: any stop from the tracked one up; perhaps an exit
Trail(s, t, anchor, want, exit) ==
    /\ Trailable(s)
    /\ pass.open
    /\ Tracking(s, t, anchor)
    /\ want >= t.init
    /\ exit => FirstRed
    /\ naked' = [naked EXCEPT ![s] = 0]
    /\ seen' = [seen EXCEPT ![s] = 0]
    /\ tracked' = [tracked EXCEPT ![s] = t]
    /\ anchored' = IF anchor THEN anchored \cup {s} ELSE anchored
    /\ IF exit
       THEN Cancel(s) /\ pass' = [pass EXCEPT !.pc = "close", !.sym = s,
                                     !.why = "first_red", !.want = want]
       ELSE /\ UNCHANGED stop
            /\ pass' = [pass EXCEPT !.pc = IF ScaleOut /\ ~t.scaled THEN "scale" ELSE "ratchet",
                            !.sym = s, !.why = "trail", !.want = want]
    /\ UNCHANGED <<holding, pos, awaiting, market, faults>>

\* close_position(qty): the level may not be reached, and the legs reserve the
\* shares like in any other close
ScaleDone ==
    /\ pass.pc = "scale"
    /\ CloseTaken(pass.sym)
    /\ tracked' = [tracked EXCEPT ![pass.sym].scaled = TRUE]
    /\ pass' = [pass EXCEPT !.pc = "ratchet"]
    /\ UNCHANGED <<brokerVars, market, faults, naked, anchored, seen>>
ScaleRefused ==
    /\ pass.pc = "scale"
    /\ CloseRefused(pass.sym)
    /\ pass' = [pass EXCEPT !.pc = "ratchet"]
    /\ UNCHANGED <<brokerVars, market, faults, managerVars, seen>>
ScaleNotDue ==
    /\ pass.pc = "scale"
    /\ pass' = [pass EXCEPT !.pc = "ratchet", !.why = "not_due"]
    /\ UNCHANGED <<brokerVars, market, faults, managerVars, seen>>

\* mutant of Raises: the replace is sent whenever the stop differs
RaisesOrLowers(s) == pass.leg[s] # None /\ pass.want # pass.leg[s]

Raises(s) == pass.leg[s] # None /\ pass.want > pass.leg[s]

\* mutant of RatchetReplace: the stop is cancelled, the new one is for later
RatchetByCancel ==
    LET s == pass.sym IN
    /\ pass.pc = "ratchet"
    /\ Raises(s)
    /\ pass.want < pass.cur[s]
    /\ SameLeg(s)
    /\ stop' = [stop EXCEPT ![s] = None]
    /\ pass' = Done(s)
    /\ UNCHANGED <<holding, pos, awaiting, market, faults, managerVars, seen>>

\* replace_order: a PATCH, so the leg is never gone
RatchetReplace ==
    LET s == pass.sym IN
    /\ pass.pc = "ratchet"
    /\ Raises(s)
    /\ pass.want < pass.cur[s]
    /\ \/ SameLeg(s) /\ stop' = [stop EXCEPT ![s] = pass.want]
       \/ (~SameLeg(s) \/ "calls_fail" \in faults) /\ UNCHANGED stop
    /\ pass' = Done(s)
    /\ UNCHANGED <<holding, pos, awaiting, market, faults, managerVars, seen>>

\* a stop above the market would be rejected: the trail has fired
RatchetBreached ==
    LET s == pass.sym IN
    /\ pass.pc = "ratchet"
    /\ Raises(s)
    /\ pass.want >= pass.cur[s]
    /\ BeginFlatten(s, "trail")
    /\ UNCHANGED <<holding, pos, awaiting, market, faults, managerVars, seen>>

RatchetHolds ==
    /\ pass.pc = "ratchet"
    /\ ~Raises(pass.sym)
    /\ pass' = Done(pass.sym)
    /\ UNCHANGED <<brokerVars, market, faults, managerVars, seen>>

PassDone ==
    /\ pass.pc = "each"
    /\ pass.held = {}
    /\ pass' = Idle
    /\ UNCHANGED <<brokerVars, market, faults, managerVars, seen>>

Manage ==
    \/ \E cur \in [Symbols -> Prices] : ReadPositions(cur)
    \/ \E ok \in BOOLEAN : ReadOrders(ok)
    \/ \E s \in Symbols :
        \/ CatastropheFlatten(s) \/ CatastropheRest(s) \/ CatastropheWaits(s)
        \/ NakedWaits(s) \/ NakedFlatten(s) \/ NakedRest(s)
        \/ ProtectedSkip(s)
        \/ \E t \in Trackeds, anchor, exit \in BOOLEAN, want \in Prices :
                Trail(s, t, anchor, want, exit)
    \/ CloseDone \/ CloseFailed
    \/ ScaleDone \/ ScaleRefused \/ ScaleNotDue
    \/ RatchetReplace \/ RatchetBreached \/ RatchetHolds
    \/ PassDone

-----------------------------------------------------------------------------
(* The account, outside the pass *)

Others(s) == UNCHANGED <<market, faults, managerVars, pass>>

\* a bracket entry fills; its legs may show up later
EntryFills(s) ==
    /\ ~holding[s]
    /\ pos[s] < MaxPositions
    /\ holding' = [holding EXCEPT ![s] = TRUE]
    /\ pos' = [pos EXCEPT ![s] = @ + 1]
    /\ seen' = [seen EXCEPT ![s] = 0]
    /\ \/ stop' = [stop EXCEPT ![s] = BracketStop] /\ UNCHANGED awaiting
       \/ /\ "late_legs" \in faults
          /\ awaiting' = awaiting \cup {s}
          /\ UNCHANGED stop
    /\ Others(s)

LegsAttach(s) ==
    /\ s \in awaiting
    /\ stop' = [stop EXCEPT ![s] = BracketStop]
    /\ awaiting' = awaiting \ {s}
    /\ UNCHANGED <<holding, pos, seen>>
    /\ Others(s)

StripLeg(s) ==
    /\ "strip" \in faults
    /\ stop[s] # None
    /\ stop' = [stop EXCEPT ![s] = None]
    /\ UNCHANGED <<holding, pos, awaiting, seen>>
    /\ Others(s)

\* a leg fills, or the dashboard or a breaker closes the position
PositionEnds(s) ==
    /\ holding[s]
    /\ market = "open"
    /\ holding' = [holding EXCEPT ![s] = FALSE]
    /\ stop' = [stop EXCEPT ![s] = None]
    /\ awaiting' = awaiting \ {s}
    /\ UNCHANGED <<pos, seen>>
    /\ Others(s)

MarketMoves ==
    /\ market' = IF market = "open" THEN "closed" ELSE "open"
    /\ UNCHANGED <<brokerVars, managerVars, pass, seen, faults>>

Account ==
    \/ \E s \in Symbols : EntryFills(s) \/ LegsAttach(s) \/ StripLeg(s) \/ PositionEnds(s)
    \/ MarketMoves

Next == Manage \/ Account

Spec == Init /\ [][Next]_vars

(***************************************************************************)
(* Fairness: the scheduler starts a pass every 12 s, and a pass that was   *)
(* started goes on.  The bars and the broker may do as they like.          *)
(***************************************************************************)
FairSpec == Spec /\ WF_vars(Manage)

-----------------------------------------------------------------------------
(* Properties *)

PassType ==
    [pc : {"idle", "orders", "each", "close", "scale", "ratchet"},
     held : SUBSET Symbols, id : [Symbols -> 0..MaxPositions],
     cur : [Symbols -> Prices], read : BOOLEAN,
     leg : [Symbols -> Stops \cup {None}], legOf : [Symbols -> 0..MaxPositions],
     open : BOOLEAN, sym : Symbols \cup {None},
     why : {"none", "catastrophe", "naked", "first_red", "trail", "not_due"},
     want : Stops]

\* Every variable has its type; a pass that acts on a symbol is tracking it.
TypeOK ==
    /\ holding \in [Symbols -> BOOLEAN]
    /\ pos \in [Symbols -> 0..MaxPositions]
    /\ stop \in [Symbols -> Stops \cup {None}]
    /\ awaiting \subseteq Holding
    /\ market \in {"open", "closed"}
    /\ tracked \in [Symbols -> Trackeds \cup {None}]
    /\ naked \in [Symbols -> 0..Grace]
    /\ anchored \subseteq Symbols
    /\ pass \in PassType
    /\ pass.pc \in {"close", "scale", "ratchet"} => pass.sym \in Symbols
    /\ pass.pc = "scale" => tracked[pass.sym] \in Trackeds
    /\ seen \in [Symbols -> 0..Grace]
    /\ faults \in FaultSets

\* The stop of a position only rises: the trail is recomputed from bars and may
\* be re-anchored below the live stop, and the replace is aimed at a leg that was
\* read earlier in the pass.
StopOnlyRises ==
    [][\A s \in Symbols :
        pos'[s] = pos[s] /\ stop[s] # None /\ stop'[s] # None => stop'[s] >= stop[s]]_vars

\* A flatten closes the position whose orders the pass read.  A position that was
\* opened since is spared by its own legs, if they are there: they reserve the
\* shares, and the pass's orders do not name them.
FlattensWhatItSaw ==
    [][faults \subseteq {"calls_fail"} /\ pass.pc = "close" /\ holding' # holding /\ pass' # pass
        => pos[pass.sym] = pass.legOf[pass.sym]]_vars

\* "Flatten after a short grace (consecutive passes) so a just-filled bracket's
\* legs can attach first": the first position of a symbol that is flattened for
\* want of a stop was seen without one in Grace passes, while the orders can be
\* read.  (A later one inherits the counter.)
GraceKept ==
    [][\A s \in Symbols :
        /\ "orders_fail" \notin faults
        /\ NakedFlatten(s) /\ holding[s] /\ pos[s] = pass.id[s] /\ pos[s] = 1
        => seen'[s] >= Grace]_vars

\* "The stop is ratcheted via a broker order replace, never a cancel": while no
\* call fails and nobody else strips a leg, a position whose legs have appeared is
\* without a stop only between the two calls of its flatten.
ProtectionKept ==
    faults \subseteq {"late_legs"} => \A s \in Symbols :
        holding[s] /\ stop[s] = None =>
            s \in awaiting \/ (pass.pc = "close" /\ pass.sym = s)

\* A position without a stop gets one or is closed, whether the market is open
\* or not, and however its legs were lost.
NakedResolved ==
    \A s \in Symbols :
        holding[s] /\ stop[s] = None /\ faults \subseteq {"strip", "late_legs"}
            ~> ~holding[s] \/ stop[s] # None
=============================================================================

------------------------ MODULE ExitManagerProofs ------------------------
(***************************************************************************)
(* Proofs about ExitManager: its type, the protection of a position, the   *)
(* stop that only rises, the position a flatten closes and the grace a     *)
(* position gets.  One inductive invariant, ExitInv, carries them all: it  *)
(* says what the snapshots of a running pass still tell of the account.    *)
(***************************************************************************)
EXTENDS ExitManager, TLAPS

Acting == {"close", "scale", "ratchet"}
Past == {"each"} \cup Acting

\* The pass acts on a symbol it still has to finish, and a counter is full only
\* between the two calls of the flatten it led to.
Placed ==
    /\ pass.pc \in Acting => pass.sym \in pass.held
    /\ Grace > 0 => \A s \in Symbols :
          naked[s] = Grace => pass.pc = "close" /\ pass.sym = s /\ pass.why = "naked"

\* A stop belongs to a position that is held and has its legs.
Whole ==
    \A s \in Symbols :
        /\ holding[s] => pos[s] >= 1
        /\ ~holding[s] => stop[s] = None
        /\ s \in awaiting => stop[s] = None

\* What the pass read is not newer than the account.
Snapped ==
    \A s \in Symbols :
        /\ s \in pass.held => 1 <= pass.id[s] /\ pass.id[s] <= pos[s]
        /\ pass.legOf[s] <= pos[s]

\* A leg the pass read for the position that is held now is that position's stop,
\* at the price that was read, or it is gone.
LegCurrent ==
    pass.pc \in Past => \A s \in pass.held :
        pass.leg[s] # None /\ pass.legOf[s] = pos[s] =>
            s \notin awaiting /\ (stop[s] # None => stop[s] = pass.leg[s])

\* The orders were read, unless they cannot be.
Reads == pass.pc \in Past /\ "orders_fail" \notin faults => pass.read

\* When legs appear with their entry and nobody strips them, a position without a
\* stop that the pass still has to finish is the one whose orders it read.
StopSeen ==
    faults \subseteq {"calls_fail"} =>
        /\ awaiting = {}
        /\ pass.pc \in Past => \A s \in pass.held :
              holding[s] /\ stop[s] = None => pass.legOf[s] = pos[s]

\* No counter is ahead of what the passes saw of a symbol's first position.
Counted ==
    "orders_fail" \notin faults => \A s \in Symbols :
        /\ pos[s] = 0 => naked[s] = 0
        /\ pos[s] = 1 /\ holding[s] => naked[s] <= seen[s]

ExitInv ==
    /\ TypeOK /\ Placed /\ Whole /\ Snapped /\ LegCurrent
    /\ Reads /\ StopSeen /\ Counted /\ ProtectionKept

-----------------------------------------------------------------------------
(* Types *)

\* The initial pass is idle and has its type.
LEMMA IdleType == Idle \in PassType
  BY ExitAssumption DEF Idle, PassType, Prices, Stops

\* A field of a pass can be read.
LEMMA PassFields ==
    TypeOK =>
        /\ pass.pc \in {"idle", "orders", "each", "close", "scale", "ratchet"}
        /\ pass.held \in SUBSET Symbols
        /\ pass.id \in [Symbols -> 0..MaxPositions]
        /\ pass.cur \in [Symbols -> Prices]
        /\ pass.read \in BOOLEAN
        /\ pass.leg \in [Symbols -> Stops \cup {None}]
        /\ pass.legOf \in [Symbols -> 0..MaxPositions]
        /\ pass.open \in BOOLEAN
        /\ pass.sym \in Symbols \cup {None}
        /\ pass.want \in Stops
  BY DEF TypeOK, PassType

\* The pass is done with a symbol.
LEMMA DoneType ==
    ASSUME TypeOK, NEW s \in Symbols
    PROVE  /\ Done(s) \in PassType
           /\ Done(s).pc = "each" /\ Done(s).held = pass.held \ {s}
           /\ Done(s).id = pass.id /\ Done(s).read = pass.read
           /\ Done(s).leg = pass.leg /\ Done(s).legOf = pass.legOf
<1>1. pass \in PassType
  BY DEF TypeOK
<1>2. PICK h : h = pass.held \ {s}
  OBVIOUS
<1>3. h \in SUBSET Symbols
  BY <1>1, <1>2 DEF PassType
<1>4. 0 \in Stops
  BY ExitAssumption DEF Stops
<1>5. Done(s) = [pass EXCEPT !.pc = "each", !.held = h, !.sym = None, !.why = "none",
                             !.want = 0]
  BY <1>1, <1>2 DEF Done, PassType
<1>6. [pass EXCEPT !.pc = "each", !.held = h, !.sym = None, !.why = "none", !.want = 0]
        \in PassType
  BY <1>1, <1>3, <1>4 DEF PassType
<1>7. /\ Done(s).pc = "each" /\ Done(s).held = h
      /\ Done(s).id = pass.id /\ Done(s).read = pass.read
      /\ Done(s).leg = pass.leg /\ Done(s).legOf = pass.legOf
  BY <1>1, <1>5 DEF PassType
<1> QED BY <1>2, <1>5, <1>6, <1>7

\* The pass goes on with a symbol.
LEMMA MoveType ==
    ASSUME TypeOK, NEW s \in Symbols, NEW p \in Acting, NEW w \in Stops,
           NEW y \in {"none", "catastrophe", "naked", "first_red", "trail", "not_due"}
    PROVE  /\ [pass EXCEPT !.pc = p] \in PassType
           /\ [pass EXCEPT !.pc = p, !.why = y] \in PassType
           /\ [pass EXCEPT !.pc = p, !.sym = s, !.why = y] \in PassType
           /\ [pass EXCEPT !.pc = p, !.sym = s, !.why = y, !.want = w] \in PassType
  BY DEF TypeOK, PassType, Acting

\* While the pass acts, it acts on a symbol.
LEMMA SymIs == TypeOK /\ pass.pc \in Acting => pass.sym \in Symbols
  BY DEF TypeOK, Acting

\* The parts of TypeOK, to be proved one by one.
BrokerTypes ==
    /\ holding \in [Symbols -> BOOLEAN] /\ pos \in [Symbols -> 0..MaxPositions]
    /\ stop \in [Symbols -> Stops \cup {None}] /\ awaiting \subseteq Holding
ManagerTypes ==
    /\ tracked \in [Symbols -> Trackeds \cup {None}]
    /\ naked \in [Symbols -> 0..Grace] /\ seen \in [Symbols -> 0..Grace]
    /\ anchored \subseteq Symbols
PassTypes ==
    /\ pass \in PassType
    /\ pass.pc \in Acting => pass.sym \in Symbols
    /\ pass.pc = "scale" => tracked[pass.sym] \in Trackeds
RestTypes == market \in {"open", "closed"} /\ faults \in FaultSets

\* TypeOK is its parts.
LEMMA TypeParts == TypeOK <=> BrokerTypes /\ ManagerTypes /\ PassTypes /\ RestTypes
  BY DEF TypeOK, BrokerTypes, ManagerTypes, PassTypes, RestTypes, Acting

\* Where a stop may rest.
LEMMA StopTypes ==
    /\ BracketStop \in Stops
    /\ TypeOK => \A s \in Symbols : RestPrice(s) \in Stops
    /\ Prices \subseteq Stops
<1>1. ASSUME TypeOK, NEW s \in Symbols PROVE RestPrice(s) \in Stops
  <2>1. pass.cur[s] \in Prices
    BY <1>1, PassFields
  <2> QED BY <2>1, ExitAssumption DEF RestPrice, Prices, Stops
<1> QED BY <1>1, ExitAssumption DEF Prices, Stops

\* Every step keeps the types of the broker's variables.
LEMMA BrokerStepTypes == ExitInv /\ [Next]_vars => BrokerTypes'
<1> SUFFICES ASSUME ExitInv, [Next]_vars PROVE BrokerTypes'
  OBVIOUS
<1>0. TypeOK /\ BrokerTypes
  BY TypeParts DEF ExitInv
<1> USE <1>0 DEF brokerVars, managerVars, Holding
<1>1. ASSUME UNCHANGED brokerVars PROVE BrokerTypes'
  BY <1>1 DEF BrokerTypes
<1>2. ASSUME NEW s \in Symbols, Cancel(s), UNCHANGED <<holding, pos, awaiting>>
      PROVE  BrokerTypes'
  BY <1>2 DEF BrokerTypes, Cancel
<1>3. ASSUME NEW s \in Symbols, RestDone(s) \/ RestFailed(s), UNCHANGED <<holding, pos>>
      PROVE  BrokerTypes'
  BY <1>3, StopTypes DEF BrokerTypes, RestDone, RestFailed
<1>4. CASE Account
  <2>1. ASSUME NEW s \in Symbols, EntryFills(s) PROVE BrokerTypes'
    BY <2>1, StopTypes, ExitAssumption DEF BrokerTypes, EntryFills
  <2>2. ASSUME NEW s \in Symbols, LegsAttach(s) \/ StripLeg(s) \/ PositionEnds(s)
        PROVE  BrokerTypes'
    BY <2>2, StopTypes DEF BrokerTypes, LegsAttach, StripLeg, PositionEnds
  <2>3. ASSUME MarketMoves PROVE BrokerTypes'
    BY <2>3, <1>1 DEF MarketMoves
  <2> QED BY <1>4, <2>1, <2>2, <2>3 DEF Account
<1>5. CASE CloseDone
  BY <1>5 DEF CloseDone, BrokerTypes
<1>6. CASE RatchetReplace
  <2>1. pass.want \in Stops
    BY PassFields
  <2> QED BY <1>6, <2>1 DEF RatchetReplace, BrokerTypes
<1>7. CASE RatchetBreached
  <2>1. pass.sym \in Symbols
    BY <1>7, SymIs DEF RatchetBreached, Acting
  <2> QED BY <1>7, <2>1, <1>2 DEF RatchetBreached, BeginFlatten
<1>8. ASSUME NEW s \in Symbols, CatastropheFlatten(s) \/ NakedFlatten(s) PROVE BrokerTypes'
  BY <1>2, <1>8 DEF CatastropheFlatten, NakedFlatten, BeginFlatten
<1>9. ASSUME NEW s \in Symbols, CatastropheRest(s) \/ NakedRest(s) PROVE BrokerTypes'
  BY <1>3, <1>9 DEF CatastropheRest, NakedRest
<1>10. ASSUME NEW s \in Symbols, NEW t \in Trackeds, NEW anchor \in BOOLEAN,
              NEW exit \in BOOLEAN, NEW want \in Prices, Trail(s, t, anchor, want, exit)
       PROVE  BrokerTypes'
  BY <1>1, <1>2, <1>10 DEF Trail
<1>11. ASSUME \/ \E cur \in [Symbols -> Prices] : ReadPositions(cur)
              \/ \E ok \in BOOLEAN : ReadOrders(ok)
              \/ \E s \in Symbols : CatastropheWaits(s) \/ NakedWaits(s) \/ ProtectedSkip(s)
              \/ CloseFailed \/ ScaleDone \/ ScaleRefused \/ ScaleNotDue
              \/ RatchetHolds \/ PassDone \/ UNCHANGED vars
       PROVE  BrokerTypes'
  BY <1>1, <1>11 DEF ReadPositions, ReadOrders, CatastropheWaits, NakedWaits, ProtectedSkip,
     CloseFailed, ScaleDone, ScaleRefused, ScaleNotDue, RatchetHolds, PassDone, vars
<1> QED BY <1>4, <1>5, <1>6, <1>7, <1>8, <1>9, <1>10, <1>11 DEF Next, Manage

\* Every step keeps the types of the manager's fields and of the history.
LEMMA ManagerStepTypes == ExitInv /\ [Next]_vars => ManagerTypes'
<1> SUFFICES ASSUME ExitInv, [Next]_vars PROVE ManagerTypes'
  OBVIOUS
<1>0. TypeOK /\ ManagerTypes /\ Placed
  BY TypeParts DEF ExitInv
<1> USE <1>0, ExitAssumption DEF brokerVars, managerVars
<1>1. ASSUME UNCHANGED <<managerVars, seen>> PROVE ManagerTypes'
  BY <1>1 DEF ManagerTypes
<1>2. CASE Account
  BY <1>2, <1>1 DEF Account, EntryFills, LegsAttach, StripLeg, PositionEnds, MarketMoves, Others,
     ManagerTypes
<1>3. ASSUME NEW s \in Symbols, Naked(s)
      PROVE  naked[s] + 1 \in 0..Grace
  BY <1>3 DEF Naked, Examining, Placed, ManagerTypes
<1>4. ASSUME NEW s \in Symbols, See(s) PROVE seen' \in [Symbols -> 0..Grace]
  BY <1>4 DEF See, ManagerTypes
<1>5. ASSUME NEW s \in Symbols, NakedWaits(s) \/ NakedFlatten(s) PROVE ManagerTypes'
  <2>1. /\ See(s) /\ Naked(s)
        /\ naked' = [naked EXCEPT ![s] = @ + 1] /\ UNCHANGED <<tracked, anchored>>
    BY <1>5 DEF NakedWaits, NakedFlatten
  <2> QED BY <2>1, <1>3, <1>4 DEF ManagerTypes
<1>6. ASSUME NEW s \in Symbols, NakedRest(s) PROVE ManagerTypes'
  <2>1. See(s)
    BY <1>6 DEF NakedRest
  <2> QED BY <1>6, <2>1, <1>4 DEF NakedRest, RestDone, RestFailed, ManagerTypes
<1>7. ASSUME NEW s \in Symbols, CatastropheRest(s) \/ ProtectedSkip(s) PROVE ManagerTypes'
  BY <1>7 DEF CatastropheRest, RestDone, RestFailed, ProtectedSkip, ManagerTypes
<1>8. ASSUME NEW s \in Symbols, NEW t \in Trackeds, NEW anchor \in BOOLEAN,
             NEW exit \in BOOLEAN, NEW want \in Prices, Trail(s, t, anchor, want, exit)
      PROVE  ManagerTypes'
  BY <1>8 DEF Trail, ManagerTypes
<1>9. CASE CloseDone \/ CloseFailed
  BY <1>9 DEF CloseDone, CloseFailed, ManagerTypes
<1>10. CASE ScaleDone
  <2>1. pass.sym \in Symbols /\ tracked[pass.sym] \in Trackeds
    BY <1>10 DEF ScaleDone, TypeOK
  <2>2. [tracked[pass.sym] EXCEPT !.scaled = TRUE] \in Trackeds
    BY <2>1 DEF Trackeds
  <2> QED BY <1>10, <2>1, <2>2 DEF ScaleDone, ManagerTypes
<1>11. ASSUME NEW cur \in [Symbols -> Prices], ReadPositions(cur) PROVE ManagerTypes'
  BY <1>11 DEF ReadPositions, ManagerTypes
<1>12. ASSUME \/ \E ok \in BOOLEAN : ReadOrders(ok)
              \/ \E s \in Symbols : CatastropheFlatten(s) \/ CatastropheWaits(s)
              \/ ScaleRefused \/ ScaleNotDue
              \/ RatchetReplace \/ RatchetBreached \/ RatchetHolds \/ PassDone
              \/ UNCHANGED vars
       PROVE  ManagerTypes'
  BY <1>1, <1>12 DEF ReadOrders, CatastropheFlatten, CatastropheWaits, ScaleRefused,
     ScaleNotDue, RatchetReplace, RatchetBreached, RatchetHolds, PassDone, vars
<1> QED BY <1>2, <1>5, <1>6, <1>7, <1>8, <1>9, <1>10, <1>11, <1>12 DEF Next, Manage

\* Every step keeps the type of the pass.
LEMMA PassStepTypes == ExitInv /\ [Next]_vars => PassTypes'
<1> SUFFICES ASSUME ExitInv, [Next]_vars PROVE PassTypes'
  OBVIOUS
<1>0. TypeOK /\ PassTypes
  BY TypeParts DEF ExitInv
<1> USE <1>0
<1>1. ASSUME UNCHANGED <<pass, tracked>> PROVE PassTypes'
  BY <1>1 DEF PassTypes
<1>2. CASE Account \/ UNCHANGED vars
  BY <1>2, <1>1 DEF Account, EntryFills, LegsAttach, StripLeg, PositionEnds, MarketMoves, Others,
     managerVars, vars
<1>3. ASSUME NEW s \in Symbols, pass' = Done(s) PROVE PassTypes'
  BY <1>3, DoneType DEF PassTypes, Acting
<1>4. ASSUME NEW s \in Symbols, NEW y \in {"catastrophe", "naked", "first_red", "trail"},
             pass' = [pass EXCEPT !.pc = "close", !.sym = s, !.why = y]
      PROVE  PassTypes'
  <2>1. pass' \in PassType
    BY <1>4, StopTypes, MoveType DEF Acting
  <2>2. pass'.pc = "close" /\ pass'.sym = s
    BY <1>4 DEF PassTypes, PassType
  <2> QED BY <2>1, <2>2 DEF PassTypes
<1>5. ASSUME NEW cur \in [Symbols -> Prices], ReadPositions(cur) PROVE PassTypes'
  <2>1. CASE Holding = {}
    BY <1>5, <2>1, IdleType DEF ReadPositions, PassTypes, Acting, Idle
  <2>2. CASE Holding # {}
    <3>1. PICK c : c = [s \in Symbols |-> IF holding[s] THEN cur[s] ELSE 1]
      OBVIOUS
    <3>2. c \in [Symbols -> Prices]
      BY <3>1, ExitAssumption DEF Prices
    <3>3. Holding \in SUBSET Symbols /\ pos \in [Symbols -> 0..MaxPositions]
      BY DEF Holding, TypeOK
    <3>4. pass' = [Idle EXCEPT !.pc = "orders", !.held = Holding, !.id = pos, !.cur = c]
      BY <1>5, <2>2, <3>1 DEF ReadPositions
    <3>5. pass' \in PassType /\ pass'.pc = "orders"
      BY <3>2, <3>3, <3>4, IdleType DEF PassType
    <3> QED BY <3>5 DEF PassTypes, Acting
  <2> QED BY <2>1, <2>2
<1>6. ASSUME NEW ok \in BOOLEAN, ReadOrders(ok) PROVE PassTypes'
  <2>1. PICK l, n : /\ l = [s \in Symbols |-> IF ok /\ s \in pass.held THEN stop[s] ELSE None]
                    /\ n = [s \in Symbols |-> IF ok /\ s \in pass.held THEN pos[s] ELSE 0]
    OBVIOUS
  <2>2. l \in [Symbols -> Stops \cup {None}] /\ n \in [Symbols -> 0..MaxPositions]
    BY <2>1, ExitAssumption DEF TypeOK
  <2>3. PICK m \in BOOLEAN : m = (market = "open")
    OBVIOUS
  <2>4. pass' = [pass EXCEPT !.pc = "each", !.read = ok, !.open = m, !.leg = l, !.legOf = n]
    BY <1>6, <2>1, <2>3 DEF ReadOrders
  <2>5. pass' \in PassType /\ pass'.pc = "each"
    BY <2>2, <2>4 DEF TypeOK, PassType
  <2> QED BY <2>5 DEF PassTypes, Acting
<1>7. ASSUME NEW s \in Symbols, CatastropheFlatten(s) \/ NakedFlatten(s) PROVE PassTypes'
  BY <1>4, <1>7 DEF CatastropheFlatten, NakedFlatten, BeginFlatten
<1>8. ASSUME NEW s \in Symbols, \/ CatastropheRest(s) \/ CatastropheWaits(s)
                                \/ NakedWaits(s) \/ NakedRest(s) \/ ProtectedSkip(s)
      PROVE  PassTypes'
  BY <1>3, <1>8 DEF CatastropheRest, CatastropheWaits, NakedWaits, NakedRest, ProtectedSkip
<1>9. ASSUME NEW s \in Symbols, NEW t \in Trackeds, NEW anchor \in BOOLEAN,
             NEW exit \in BOOLEAN, NEW want \in Prices, Trail(s, t, anchor, want, exit)
      PROVE  PassTypes'
  <2>1. PICK p \in Acting, y \in {"first_red", "trail"} :
           pass' = [pass EXCEPT !.pc = p, !.sym = s, !.why = y, !.want = want]
    BY <1>9 DEF Trail, Acting
  <2>2. pass' \in PassType
    BY <2>1, MoveType, StopTypes
  <2>3. pass'.sym = s
    BY <2>1 DEF PassTypes, PassType
  <2>4. tracked'[s] = t
    BY <1>9 DEF Trail, TypeOK
  <2> QED BY <2>2, <2>3, <2>4 DEF PassTypes
<1>10. CASE CloseDone \/ CloseFailed
  <2>1. pass.sym \in Symbols
    BY <1>10, SymIs DEF CloseDone, CloseFailed, Acting
  <2>2. CASE pass' = Done(pass.sym)
    BY <1>3, <2>1, <2>2
  <2>3. CASE pass' = [pass EXCEPT !.pc = "ratchet"]
    <3>1. pass' \in PassType
      BY <2>3 DEF PassTypes, PassType
    <3>2. pass'.pc = "ratchet" /\ pass'.sym = pass.sym
      BY <2>3 DEF PassTypes, PassType
    <3> QED BY <2>1, <3>1, <3>2 DEF PassTypes
  <2> QED BY <1>10, <2>2, <2>3 DEF CloseDone, CloseFailed
<1>11. CASE ScaleDone \/ ScaleRefused \/ ScaleNotDue
  <2>1. pass.sym \in Symbols
    BY <1>11, SymIs DEF ScaleDone, ScaleRefused, ScaleNotDue, Acting
  <2>2. \/ pass' = [pass EXCEPT !.pc = "ratchet"]
        \/ pass' = [pass EXCEPT !.pc = "ratchet", !.why = "not_due"]
    BY <1>11 DEF ScaleDone, ScaleRefused, ScaleNotDue
  <2>3. pass' \in PassType
    BY <2>1, <2>2 DEF PassTypes, PassType
  <2> QED BY <2>1, <2>2, <2>3 DEF PassTypes, PassType
<1>12. CASE RatchetReplace \/ RatchetBreached \/ RatchetHolds
  <2>1. pass.sym \in Symbols
    BY <1>12, SymIs DEF RatchetReplace, RatchetBreached, RatchetHolds, Acting
  <2> QED BY <1>12, <1>3, <1>4, <2>1 DEF RatchetReplace, RatchetBreached, RatchetHolds, BeginFlatten
<1>13. CASE PassDone
  BY <1>13, IdleType DEF PassDone, PassTypes, Acting, Idle
<1> QED BY <1>2, <1>5, <1>6, <1>7, <1>8, <1>9, <1>10, <1>11, <1>12, <1>13 DEF Next, Manage

\* No step changes the faults, and only the market's own step moves the market.
LEMMA FaultsKept == Next => faults' = faults /\ (market' = market \/ MarketMoves)
<1>1. ASSUME Manage PROVE UNCHANGED <<market, faults>>
  <2>1. ASSUME NEW s \in Symbols, \/ CatastropheFlatten(s) \/ CatastropheRest(s)
                                  \/ CatastropheWaits(s) \/ NakedWaits(s)
                                  \/ NakedFlatten(s) \/ NakedRest(s) \/ ProtectedSkip(s)
        PROVE  UNCHANGED <<market, faults>>
    BY <2>1 DEF CatastropheFlatten, CatastropheRest, CatastropheWaits, NakedWaits,
       NakedFlatten, NakedRest, ProtectedSkip
  <2>2. ASSUME NEW s \in Symbols, NEW t \in Trackeds, NEW anchor \in BOOLEAN,
               NEW exit \in BOOLEAN, NEW want \in Prices, Trail(s, t, anchor, want, exit)
        PROVE  UNCHANGED <<market, faults>>
    BY <2>2 DEF Trail
  <2>3. ASSUME \/ \E cur \in [Symbols -> Prices] : ReadPositions(cur)
               \/ \E ok \in BOOLEAN : ReadOrders(ok)
               \/ CloseDone \/ CloseFailed \/ ScaleDone \/ ScaleRefused \/ ScaleNotDue
        PROVE  UNCHANGED <<market, faults>>
    BY <2>3 DEF ReadPositions, ReadOrders, CloseDone, CloseFailed, ScaleDone, ScaleRefused,
       ScaleNotDue
  <2>4. ASSUME RatchetReplace \/ RatchetBreached \/ RatchetHolds \/ PassDone
        PROVE  UNCHANGED <<market, faults>>
    BY <2>4 DEF RatchetReplace, RatchetBreached, RatchetHolds, PassDone
  <2> QED BY <1>1, <2>1, <2>2, <2>3, <2>4 DEF Manage
<1>2. ASSUME Account PROVE faults' = faults /\ (market' = market \/ MarketMoves)
  BY <1>2 DEF Account, EntryFills, LegsAttach, StripLeg, PositionEnds, MarketMoves, Others
<1> QED BY <1>1, <1>2 DEF Next

\* Every step keeps the types.
LEMMA TypeKept == ExitInv /\ [Next]_vars => TypeOK'
<1> SUFFICES ASSUME ExitInv, [Next]_vars PROVE TypeOK'
  OBVIOUS
<1>1. RestTypes'
  <2>1. RestTypes
    BY TypeParts DEF ExitInv
  <2>2. ASSUME faults' = faults, market' = market \/ MarketMoves PROVE RestTypes'
    BY <2>1, <2>2 DEF RestTypes, MarketMoves
  <2> QED BY <2>2, FaultsKept DEF vars
<1>2. BrokerTypes' /\ ManagerTypes' /\ PassTypes'
  BY BrokerStepTypes, ManagerStepTypes, PassStepTypes
<1> QED BY <1>1, <1>2, TypeParts, PTL

-----------------------------------------------------------------------------
(* What a step does to one symbol *)

\* A pass that has read its orders goes on: it keeps what it read, finishes
\* symbols and opens no position.
Goes ==
    /\ pass.pc \in Past /\ pass'.pc \in Past
    /\ pass'.pc \in Acting => pass'.sym \in pass'.held
    /\ pass'.held \subseteq pass.held
    /\ pass'.id = pass.id /\ pass'.read = pass.read
    /\ pass'.leg = pass.leg /\ pass'.legOf = pass.legOf
    /\ pos' = pos

Same(s) == /\ holding'[s] = holding[s] /\ stop'[s] = stop[s]
           /\ s \in awaiting' <=> s \in awaiting

\* The flatten's cancel, a rested stop, the close, and the replace: the four
\* things the pass does to a symbol at the broker.
Cancels(s) ==
    /\ holding'[s] = holding[s] /\ (s \in awaiting' <=> s \in awaiting)
    /\ stop'[s] = None
    /\ pass.read => SameLeg(s)
    /\ pass.pc # "close" /\ pass'.pc = "close" /\ pass'.sym = s

Rests(s) ==
    /\ holding'[s] = holding[s] /\ holding[s] /\ stop[s] = None /\ stop'[s] # None
    /\ s \notin awaiting' /\ s \notin pass'.held

Closes(s) ==
    /\ pass.pc = "close" /\ pass.sym = s
    /\ CloseTaken(s)
    /\ ~holding'[s] /\ stop'[s] = stop[s]
    /\ s \notin awaiting' /\ s \notin pass'.held

Replaces(s) ==
    /\ holding'[s] = holding[s] /\ (s \in awaiting' <=> s \in awaiting)
    /\ SameLeg(s) /\ s \in pass.held /\ Raises(s)
    /\ stop'[s] = pass.want /\ stop'[s] # None
    /\ s \notin pass'.held

PassTouches(s) ==
    \/ Same(s) /\ (pass.pc = "close" /\ pass.sym = s => CloseRefused(s) \/ pass' = pass)
    \/ Cancels(s) \/ Rests(s) \/ Closes(s) \/ Replaces(s)

\* The counter of naked passes: kept, dropped, or one more.
Counts(s) ==
    \/ /\ naked'[s] = naked[s] /\ seen'[s] = seen[s]
       /\ ~(pass.pc = "close" /\ pass.sym = s /\ pass.why = "naked")
    \/ naked'[s] = 0
    \/ /\ pass.pc = "each" /\ s \in pass.held
       /\ naked'[s] = naked[s] + 1 /\ naked[s] + 1 <= Grace
       /\ \/ naked[s] + 1 < Grace
          \/ pass'.pc = "close" /\ pass'.sym = s /\ pass'.why = "naked"
       /\ IF pass.id[s] = pos[s] /\ holding[s] /\ pass.read
          THEN seen'[s] = (IF seen[s] < Grace THEN seen[s] + 1 ELSE seen[s])
          ELSE seen'[s] = seen[s]

PassStep == Goes /\ \A s \in Symbols : PassTouches(s) /\ Counts(s)

\* The account moves one symbol, or none.
AccountTouches(s) ==
    \/ Same(s) /\ pos'[s] = pos[s] /\ seen'[s] = seen[s]
    \/ EntryFills(s) \/ LegsAttach(s) \/ StripLeg(s) \/ PositionEnds(s)

\* Every move of the account is such a step, and leaves the pass alone.
LEMMA AccountMoves ==
    TypeOK /\ Account =>
        /\ pass' = pass /\ naked' = naked /\ faults' = faults
        /\ \A s \in Symbols : AccountTouches(s)
<1> SUFFICES ASSUME TypeOK, Account
             PROVE  /\ pass' = pass /\ naked' = naked /\ faults' = faults
                    /\ \A s \in Symbols : AccountTouches(s)
  OBVIOUS
<1>1. pass' = pass /\ naked' = naked /\ faults' = faults
  BY DEF Account, EntryFills, LegsAttach, StripLeg, PositionEnds, MarketMoves, Others, managerVars
<1>2. ASSUME NEW s \in Symbols, NEW r \in Symbols,
             EntryFills(r) \/ LegsAttach(r) \/ StripLeg(r) \/ PositionEnds(r)
      PROVE  AccountTouches(s)
  <2>1. CASE s = r
    BY <1>2, <2>1 DEF AccountTouches
  <2>2. CASE s # r
    BY <1>2, <2>2 DEF EntryFills, LegsAttach, StripLeg, PositionEnds, AccountTouches, Same, TypeOK
  <2> QED BY <2>1, <2>2
<1>3. ASSUME MarketMoves, NEW s \in Symbols PROVE AccountTouches(s)
  BY <1>3 DEF MarketMoves, AccountTouches, Same, brokerVars
<1> QED BY <1>1, <1>2, <1>3 DEF Account

\* A cancel takes a leg or leaves everything.
LEMMA CancelTouches ==
    ASSUME TypeOK, NEW s \in Symbols, Cancel(s), UNCHANGED <<holding, awaiting>>,
           pass.pc # "close", pass'.pc = "close", pass'.sym = s
    PROVE  \A r \in Symbols : PassTouches(r)
  BY DEF Cancel, PassTouches, Same, Cancels, TypeOK

\* A stop that is rested, or not.
LEMMA RestTouches ==
    ASSUME TypeOK, NEW s \in Symbols, RestDone(s) \/ RestFailed(s), holding' = holding,
           pass.pc = "each", s \notin pass'.held
    PROVE  \A r \in Symbols : PassTouches(r)
<1>1. CASE RestDone(s)
  <2>1. RestPrice(s) # None
    BY StopTypes, ExitAssumption
  <2> QED BY <1>1, <2>1 DEF RestDone, PassTouches, Same, Rests, TypeOK
<1>2. CASE RestFailed(s)
  BY <1>2 DEF RestFailed, PassTouches, Same
<1> QED BY <1>1, <1>2

\* Nothing moves at the broker.
LEMMA QuietTouches ==
    ASSUME UNCHANGED <<holding, stop, awaiting>>, pass.pc # "close" \/ CloseRefused(pass.sym)
    PROVE  \A r \in Symbols : PassTouches(r)
  BY DEF PassTouches, Same

\* The counter of one symbol is kept or dropped, the others are left alone.
LEMMA CountKept ==
    ASSUME TypeOK, NEW s \in Symbols,
           \/ /\ UNCHANGED <<naked, seen>>
              /\ ~(pass.pc = "close" /\ pass.why = "naked")
           \/ /\ naked' = [naked EXCEPT ![s] = 0]
              /\ \A r \in Symbols \ {s} : seen'[r] = seen[r]
              /\ pass.pc = "close" => pass.sym = s
    PROVE  \A r \in Symbols : Counts(r)
  BY DEF Counts, TypeOK

\* The counter of one symbol goes up, the others are left alone.
LEMMA CountUp ==
    ASSUME ExitInv, NEW s \in Symbols, Naked(s), See(s),
           naked' = [naked EXCEPT ![s] = @ + 1],
           \/ naked[s] + 1 < Grace
           \/ pass'.pc = "close" /\ pass'.sym = s /\ pass'.why = "naked"
    PROVE  \A r \in Symbols : Counts(r)
<1>0. TypeOK /\ Placed
  BY DEF ExitInv
<1>1. naked[s] + 1 <= Grace /\ pass.pc = "each" /\ s \in pass.held
  BY <1>0, ExitAssumption DEF Naked, Examining, Placed, TypeOK
<1>2. seen \in [Symbols -> 0..Grace] /\ naked \in [Symbols -> 0..Grace]
  BY <1>0 DEF TypeOK
<1>3. Counts(s)
  BY <1>1, <1>2 DEF Counts, See
<1>4. ASSUME NEW r \in Symbols \ {s} PROVE Counts(r)
  BY <1>1, <1>2, <1>4 DEF Counts, See
<1> QED BY <1>3, <1>4

\* A symbol is finished.
LEMMA DoneGoes ==
    ASSUME TypeOK, NEW s \in Symbols, pass.pc \in Past, pass' = Done(s), pos' = pos
    PROVE  Goes /\ s \notin pass'.held
  BY DoneType DEF Goes, Past, Acting

\* The pass turns to a symbol.
LEMMA MoveGoes ==
    ASSUME TypeOK, pass.pc \in Past, NEW s \in pass.held, NEW p \in Acting, NEW y, NEW w,
           \/ pass' = [pass EXCEPT !.pc = p, !.sym = s, !.why = y]
           \/ pass' = [pass EXCEPT !.pc = p, !.sym = s, !.why = y, !.want = w],
           pos' = pos
    PROVE  Goes /\ pass'.pc = p /\ pass'.sym = s /\ pass'.why = y
  BY DEF Goes, Past, TypeOK, PassType

\* The steps that decide on a symbol without trailing it.
LEMMA DecisionSteps ==
    ASSUME ExitInv, NEW s \in Symbols,
           \/ CatastropheFlatten(s) \/ CatastropheRest(s) \/ CatastropheWaits(s)
           \/ NakedWaits(s) \/ NakedFlatten(s) \/ NakedRest(s) \/ ProtectedSkip(s)
    PROVE  PassStep
<1>0. TypeOK
  BY DEF ExitInv
<1>1. pass.pc = "each" /\ s \in pass.held /\ pass.pc \in Past
  BY DEF CatastropheFlatten, CatastropheRest, CatastropheWaits, NakedWaits, NakedFlatten,
     NakedRest, ProtectedSkip, Naked, Trailable, Examining, Past
<1>2. pos' = pos
  BY DEF CatastropheFlatten, CatastropheRest, CatastropheWaits, NakedWaits, NakedFlatten,
     NakedRest, ProtectedSkip, brokerVars
<1>3. ASSUME CatastropheFlatten(s) \/ NakedFlatten(s) PROVE PassStep
  <2>1. PICK y \in {"catastrophe", "naked"} :
           /\ pass' = [pass EXCEPT !.pc = "close", !.sym = s, !.why = y]
           /\ Cancel(s) /\ UNCHANGED <<holding, awaiting>>
           /\ NakedFlatten(s) => y = "naked"
           /\ CatastropheFlatten(s) \/ NakedFlatten(s)
    BY <1>3 DEF CatastropheFlatten, NakedFlatten, BeginFlatten, Naked
  <2>2. Goes /\ pass'.pc = "close" /\ pass'.sym = s /\ pass'.why = y
    BY <1>0, <1>1, <1>2, <2>1, MoveGoes DEF Acting
  <2>3. \A r \in Symbols : PassTouches(r)
    BY <1>0, <1>1, <2>1, <2>2, CancelTouches
  <2>4. CASE CatastropheFlatten(s)
    BY <1>0, <1>1, <2>2, <2>3, <2>4, CountKept DEF CatastropheFlatten, managerVars, PassStep
  <2>5. CASE NakedFlatten(s)
    <3>1. Naked(s) /\ See(s) /\ naked' = [naked EXCEPT ![s] = @ + 1]
      BY <2>5 DEF NakedFlatten
    <3>2. \A r \in Symbols : Counts(r)
      BY <2>1, <2>2, <2>5, <3>1, CountUp
    <3> QED BY <2>2, <2>3, <3>2 DEF PassStep
  <2> QED BY <2>1, <2>4, <2>5
<1>4. ASSUME pass' = Done(s) PROVE Goes /\ s \notin pass'.held
  BY <1>0, <1>1, <1>2, <1>4, DoneGoes
<1>5. CASE CatastropheRest(s)
  <2>1. /\ pass' = Done(s)
        /\ RestDone(s) \/ RestFailed(s)
        /\ holding' = holding /\ seen' = seen
        /\ naked' = naked \/ naked' = [naked EXCEPT ![s] = 0]
    BY <1>5 DEF CatastropheRest
  <2>2. \A r \in Symbols : PassTouches(r)
    BY <1>0, <1>1, <1>4, <2>1, RestTouches
  <2>3. \A r \in Symbols : Counts(r)
    BY <1>0, <1>1, <2>1, CountKept
  <2> QED BY <1>4, <2>1, <2>2, <2>3 DEF PassStep
<1>6. CASE NakedRest(s)
  <2>1. /\ pass' = Done(s)
        /\ RestDone(s) \/ RestFailed(s)
        /\ holding' = holding /\ See(s)
        /\ naked' = [naked EXCEPT ![s] = 0]
    BY <1>6 DEF NakedRest
  <2>2. \A r \in Symbols : PassTouches(r)
    BY <1>0, <1>1, <1>4, <2>1, RestTouches
  <2>3. \A r \in Symbols \ {s} : seen'[r] = seen[r]
    BY <1>0, <2>1 DEF See, TypeOK
  <2>4. \A r \in Symbols : Counts(r)
    BY <1>0, <1>1, <2>1, <2>3, CountKept
  <2> QED BY <1>4, <2>1, <2>2, <2>4 DEF PassStep
<1>7. ASSUME CatastropheWaits(s) \/ NakedWaits(s) \/ ProtectedSkip(s) PROVE PassStep
  <2>1. pass' = Done(s) /\ UNCHANGED <<holding, stop, awaiting>>
    BY <1>7 DEF CatastropheWaits, NakedWaits, ProtectedSkip, brokerVars
  <2>2. \A r \in Symbols : PassTouches(r)
    BY <1>1, <2>1, QuietTouches
  <2>3. CASE CatastropheWaits(s)
    BY <1>0, <1>1, <1>4, <2>1, <2>2, <2>3, CountKept DEF CatastropheWaits, managerVars, PassStep
  <2>4. CASE NakedWaits(s)
    <3>1. /\ Naked(s) /\ See(s) /\ naked' = [naked EXCEPT ![s] = @ + 1]
          /\ naked[s] + 1 < Grace
      BY <2>4 DEF NakedWaits
    <3>2. \A r \in Symbols : Counts(r)
      BY <3>1, CountUp
    <3> QED BY <1>4, <2>1, <2>2, <3>2 DEF PassStep
  <2>5. CASE ProtectedSkip(s)
    <3>1. /\ naked' = [naked EXCEPT ![s] = 0]
          /\ \A r \in Symbols \ {s} : seen'[r] = seen[r]
      BY <1>0, <2>5 DEF ProtectedSkip, TypeOK
    <3>2. \A r \in Symbols : Counts(r)
      BY <1>0, <1>1, <3>1, CountKept
    <3> QED BY <1>4, <2>1, <2>2, <3>2 DEF PassStep
  <2> QED BY <1>7, <2>3, <2>4, <2>5
<1> QED BY <1>3, <1>5, <1>6, <1>7

\* The trail: the counter is dropped, and an exit cancels the leg.
LEMMA TrailSteps ==
    ASSUME ExitInv, NEW s \in Symbols, NEW t \in Trackeds, NEW anchor \in BOOLEAN,
           NEW exit \in BOOLEAN, NEW want \in Prices, Trail(s, t, anchor, want, exit)
    PROVE  PassStep
<1>0. TypeOK /\ pass.pc = "each" /\ s \in pass.held /\ pass.pc \in Past /\ pos' = pos
  BY DEF ExitInv, Trail, Trailable, Examining, Past
<1>1. \A r \in Symbols : Counts(r)
  <2>1. /\ naked' = [naked EXCEPT ![s] = 0]
        /\ \A r \in Symbols \ {s} : seen'[r] = seen[r]
    BY <1>0 DEF Trail, TypeOK
  <2> QED BY <1>0, <2>1, CountKept
<1>2. CASE exit
  <2>1. /\ pass' = [pass EXCEPT !.pc = "close", !.sym = s, !.why = "first_red", !.want = want]
        /\ Cancel(s) /\ UNCHANGED <<holding, awaiting>>
    BY <1>2 DEF Trail
  <2>2. Goes /\ pass'.pc = "close" /\ pass'.sym = s
    BY <1>0, <2>1, MoveGoes DEF Acting
  <2>3. \A r \in Symbols : PassTouches(r)
    BY <1>0, <2>1, <2>2, CancelTouches
  <2> QED BY <1>1, <2>2, <2>3 DEF PassStep
<1>3. CASE ~exit
  <2>1. PICK p \in Acting :
          /\ pass' = [pass EXCEPT !.pc = p, !.sym = s, !.why = "trail", !.want = want]
          /\ UNCHANGED <<holding, stop, awaiting>>
    BY <1>3 DEF Trail, Acting
  <2>2. Goes
    BY <1>0, <2>1, MoveGoes
  <2>3. \A r \in Symbols : PassTouches(r)
    BY <1>0, <2>1, QuietTouches
  <2> QED BY <1>1, <2>2, <2>3 DEF PassStep
<1> QED BY <1>2, <1>3

\* The steps on the symbol the pass has turned to.
LEMMA ActingSteps ==
    ASSUME ExitInv,
           \/ CloseDone \/ CloseFailed \/ ScaleDone \/ ScaleRefused \/ ScaleNotDue
           \/ RatchetReplace \/ RatchetBreached \/ RatchetHolds
    PROVE  PassStep
<1>0. TypeOK /\ Placed
  BY DEF ExitInv
<1>1. PICK s : s = pass.sym
  OBVIOUS
<1>2. pass.pc \in Acting /\ pass.pc \in Past
  BY DEF CloseDone, CloseFailed, ScaleDone, ScaleRefused, ScaleNotDue, RatchetReplace,
     RatchetBreached, RatchetHolds, Acting, Past
<1>3. s \in Symbols /\ s \in pass.held
  BY <1>0, <1>1, <1>2, SymIs DEF Placed
<1>4. pos' = pos
  BY DEF CloseDone, CloseFailed, ScaleDone, ScaleRefused, ScaleNotDue, RatchetReplace,
     RatchetBreached, RatchetHolds, brokerVars
<1>5. ASSUME pass' = Done(s) PROVE Goes /\ s \notin pass'.held
  BY <1>0, <1>2, <1>3, <1>4, <1>5, DoneGoes
<1>6. ASSUME NEW p \in Acting, NEW y, pass' = [pass EXCEPT !.pc = p, !.why = y] PROVE Goes
  BY <1>0, <1>1, <1>2, <1>3, <1>4, <1>6 DEF Goes, Past, TypeOK, PassType
<1>7. ASSUME NEW p \in Acting, pass' = [pass EXCEPT !.pc = p] PROVE Goes
  BY <1>0, <1>1, <1>2, <1>3, <1>4, <1>7 DEF Goes, Past, TypeOK, PassType
<1>8. CASE CloseDone
  <2>1. pass' = Done(s) /\ pass.pc = "close" /\ CloseTaken(s)
        /\ holding' = [holding EXCEPT ![s] = FALSE] /\ awaiting' = awaiting \ {s}
        /\ stop' = stop /\ seen' = seen
        /\ naked' = IF pass.why \in {"catastrophe", "naked"}
                    THEN [naked EXCEPT ![s] = 0] ELSE naked
    BY <1>1, <1>8 DEF CloseDone
  <2>2. \A r \in Symbols : PassTouches(r)
    BY <1>0, <1>1, <1>3, <1>5, <2>1 DEF PassTouches, Same, Closes, TypeOK
  <2>3. \A r \in Symbols : Counts(r)
    BY <1>0, <1>1, <1>3, <2>1, CountKept
  <2> QED BY <1>5, <2>1, <2>2, <2>3 DEF PassStep
<1>9. CASE CloseFailed
  <2>1. /\ \/ pass.why = "first_red" /\ pass' = [pass EXCEPT !.pc = "ratchet"]
           \/ pass' = Done(s)
        /\ CloseRefused(s) /\ UNCHANGED <<holding, stop, awaiting, seen>>
        /\ naked' = IF pass.why = "naked" THEN [naked EXCEPT ![s] = 0] ELSE naked
        /\ pass.pc = "close"
    BY <1>1, <1>9 DEF CloseFailed, brokerVars
  <2>2. Goes
    BY <1>5, <1>7, <2>1 DEF Acting
  <2>3. \A r \in Symbols : PassTouches(r)
    BY <1>1, <2>1, QuietTouches
  <2>4. \A r \in Symbols : Counts(r)
    BY <1>0, <1>1, <1>3, <2>1, CountKept
  <2> QED BY <2>2, <2>3, <2>4 DEF PassStep
<1>10. CASE ScaleDone \/ ScaleRefused \/ ScaleNotDue
  <2>1. /\ \/ pass' = [pass EXCEPT !.pc = "ratchet"]
           \/ pass' = [pass EXCEPT !.pc = "ratchet", !.why = "not_due"]
        /\ UNCHANGED <<holding, stop, awaiting, seen, naked>>
        /\ pass.pc = "scale"
    BY <1>10 DEF ScaleDone, ScaleRefused, ScaleNotDue, brokerVars, managerVars
  <2>2. Goes
    BY <1>6, <1>7, <2>1 DEF Acting
  <2>3. \A r \in Symbols : PassTouches(r)
    BY <2>1, QuietTouches
  <2>4. \A r \in Symbols : Counts(r)
    BY <1>0, <1>3, <2>1, CountKept
  <2> QED BY <2>2, <2>3, <2>4 DEF PassStep
<1>11. CASE RatchetReplace
  <2>1. /\ pass' = Done(s) /\ pass.pc = "ratchet" /\ Raises(s)
        /\ \/ SameLeg(s) /\ stop' = [stop EXCEPT ![s] = pass.want]
           \/ stop' = stop
        /\ UNCHANGED <<holding, awaiting, seen, naked>>
    BY <1>1, <1>11 DEF RatchetReplace, managerVars
  <2>2. pass.want # None
    BY <1>0, PassFields, ExitAssumption
  <2>3. CASE stop' = stop
    BY <2>1, <2>3, QuietTouches, <1>0, <1>3, <1>5, CountKept DEF PassStep
  <2>4. CASE SameLeg(s) /\ stop' = [stop EXCEPT ![s] = pass.want]
    <3>1. \A r \in Symbols : PassTouches(r)
      BY <1>0, <1>3, <1>5, <2>1, <2>2, <2>4 DEF PassTouches, Same, Replaces, TypeOK
    <3> QED BY <2>1, <3>1, <1>0, <1>3, <1>5, CountKept DEF PassStep
  <2> QED BY <2>1, <2>3, <2>4
<1>12. CASE RatchetBreached
  <2>1. /\ pass' = [pass EXCEPT !.pc = "close", !.sym = s, !.why = "trail"]
        /\ Cancel(s) /\ UNCHANGED <<holding, awaiting, seen, naked>>
        /\ pass.pc = "ratchet"
    BY <1>1, <1>12 DEF RatchetBreached, BeginFlatten, managerVars
  <2>2. Goes /\ pass'.pc = "close" /\ pass'.sym = s
    BY <1>0, <1>2, <1>3, <1>4, <2>1, MoveGoes DEF Acting
  <2>3. \A r \in Symbols : PassTouches(r)
    BY <1>0, <1>3, <2>1, <2>2, CancelTouches
  <2>4. \A r \in Symbols : Counts(r)
    BY <1>0, <1>3, <2>1, CountKept
  <2> QED BY <2>2, <2>3, <2>4 DEF PassStep
<1>13. CASE RatchetHolds
  <2>1. /\ pass' = Done(s) /\ UNCHANGED <<holding, stop, awaiting, seen, naked>>
        /\ pass.pc = "ratchet"
    BY <1>1, <1>13 DEF RatchetHolds, brokerVars, managerVars
  <2> QED BY <2>1, QuietTouches, <1>0, <1>3, <1>5, CountKept DEF PassStep
<1> QED BY <1>8, <1>9, <1>10, <1>11, <1>12, <1>13

\* Reads, or the pass is over, or the pass goes on; or the account moves.
LEMMA StepKinds ==
    ExitInv /\ Next =>
        \/ \E cur \in [Symbols -> Prices] : ReadPositions(cur)
        \/ \E ok \in BOOLEAN : ReadOrders(ok)
        \/ PassDone \/ PassStep \/ Account
  BY DecisionSteps, TrailSteps, ActingSteps DEF Next, Manage

-----------------------------------------------------------------------------
(* The invariant is inductive *)

\* It holds at the start.
LEMMA ExitInit == Init => ExitInv
<1> SUFFICES ASSUME Init PROVE ExitInv
  OBVIOUS
<1>1. TypeOK
  <2>1. pass = Idle /\ pass \in PassType /\ pass.pc = "idle"
    BY IdleType DEF Init, Idle
  <2> QED BY <2>1, ExitAssumption DEF Init, TypeOK, Holding
<1>2. pass.pc = "idle" /\ pass.held = {} /\ pass.legOf = [s \in Symbols |-> 0]
  BY DEF Init, Idle
<1>3. Placed
  BY <1>2, ExitAssumption DEF Placed, Init, Acting
<1>4. Whole /\ Snapped /\ Counted
  BY <1>2, ExitAssumption DEF Whole, Snapped, Counted, Init
<1>5. LegCurrent /\ Reads /\ StopSeen /\ ProtectionKept
  BY <1>2 DEF LegCurrent, Reads, StopSeen, ProtectionKept, Past, Acting, Init
<1> QED BY <1>1, <1>3, <1>4, <1>5 DEF ExitInv

\* The pass that goes on keeps it.
LEMMA PassKeeps ==
    ASSUME ExitInv, Next, PassStep, TypeOK'
    PROVE  ExitInv'
<1>0. /\ TypeOK /\ Placed /\ Whole /\ Snapped /\ LegCurrent
      /\ Reads /\ StopSeen /\ Counted /\ ProtectionKept
  BY DEF ExitInv
<1>1. Goes /\ \A s \in Symbols : PassTouches(s) /\ Counts(s)
  BY DEF PassStep
<1>2. faults' = faults
  BY FaultsKept
<1>3. pass.pc \in Past /\ pass.held \subseteq Symbols
  BY <1>0, <1>1 DEF Goes, TypeOK, PassType
<1>4. Placed'
  <2>1. ASSUME Grace > 0, NEW s \in Symbols, naked'[s] = Grace
        PROVE  pass'.pc = "close" /\ pass'.sym = s /\ pass'.why = "naked"
    <3>1. Counts(s)
      BY <1>1
    <3>2. naked[s] \in 0..Grace /\ Grace \in Nat
      BY <1>0, ExitAssumption DEF TypeOK
    <3> QED BY <1>0, <2>1, <3>1, <3>2 DEF Counts, Placed
  <2> QED BY <1>1, <2>1 DEF Placed, Goes
<1>5. Whole'
  <2>1. ASSUME NEW s \in Symbols
        PROVE  /\ holding'[s] => pos'[s] >= 1
               /\ ~holding'[s] => stop'[s] = None
               /\ s \in awaiting' => stop'[s] = None
    <3>1. PassTouches(s) /\ pos'[s] = pos[s]
      BY <1>1 DEF Goes
    <3>2. CASE Replaces(s)
      BY <1>0, <1>3, <3>1, <3>2 DEF Replaces, SameLeg, Whole, LegCurrent
    <3> QED BY <1>0, <3>1, <3>2 DEF PassTouches, Same, Cancels, Rests, Closes, CloseTaken, Whole
  <2> QED BY <2>1 DEF Whole
<1>6. Snapped'
  BY <1>0, <1>1 DEF Snapped, Goes
<1>7. LegCurrent'
  <2>1. ASSUME NEW s \in pass'.held, pass'.leg[s] # None, pass'.legOf[s] = pos'[s]
        PROVE  s \notin awaiting' /\ (stop'[s] # None => stop'[s] = pass'.leg[s])
    <3>1. s \in Symbols /\ s \in pass.held /\ PassTouches(s)
      BY <1>1, <1>3 DEF Goes
    <3>2. s \notin awaiting /\ (stop[s] # None => stop[s] = pass.leg[s])
      BY <1>0, <1>1, <1>3, <2>1, <3>1 DEF LegCurrent, Goes
    <3> QED BY <1>1, <2>1, <3>1, <3>2 DEF PassTouches, Same, Cancels, Rests, Closes, Replaces, Goes
  <2> QED BY <2>1 DEF LegCurrent
<1>8. Reads'
  BY <1>0, <1>1, <1>2, <1>3 DEF Reads, Goes
<1>9. StopSeen'
  <2> SUFFICES ASSUME faults \subseteq {"calls_fail"} PROVE StopSeen'
    BY <1>2 DEF StopSeen
  <2>1. awaiting = {}
    BY <1>0 DEF StopSeen
  <2>2. awaiting' = {}
    <3>1. ASSUME NEW s \in Symbols PROVE s \notin awaiting'
      BY <1>1, <2>1, <3>1 DEF PassTouches, Same, Cancels, Rests, Closes, Replaces
    <3>2. awaiting' \subseteq Symbols
      BY DEF TypeOK, Holding
    <3> QED BY <3>1, <3>2
  <2>3. ASSUME NEW s \in pass'.held, holding'[s] /\ stop'[s] = None
        PROVE  pass'.legOf[s] = pos'[s]
    <3>1. s \in Symbols /\ s \in pass.held /\ PassTouches(s)
      BY <1>1, <1>3 DEF Goes
    <3>2. CASE holding[s] /\ stop[s] = None
      BY <1>0, <1>1, <1>3, <3>1, <3>2 DEF StopSeen, Goes
    <3>3. CASE Cancels(s)
      BY <1>0, <1>1, <1>2, <1>3, <3>3 DEF Cancels, Reads, SameLeg, Goes
    <3> QED BY <2>3, <3>1, <3>2, <3>3 DEF PassTouches, Same, Cancels, Rests, Closes, Replaces
  <2> QED BY <2>2, <2>3 DEF StopSeen
<1>10. Counted'
  <2>1. ASSUME "orders_fail" \notin faults, NEW s \in Symbols
        PROVE  /\ pos'[s] = 0 => naked'[s] = 0
               /\ pos'[s] = 1 /\ holding'[s] => naked'[s] <= seen'[s]
    <3>1. PassTouches(s) /\ Counts(s) /\ pos'[s] = pos[s]
      BY <1>1 DEF Goes
    <3>2. /\ naked[s] \in 0..Grace /\ seen[s] \in 0..Grace /\ Grace \in Nat
          /\ seen'[s] \in 0..Grace
      BY <1>0, ExitAssumption DEF TypeOK
    <3>3. holding'[s] => holding[s]
      BY <3>1 DEF PassTouches, Same, Cancels, Rests, Closes, Replaces
    <3>4. s \in pass.held => pos[s] >= 1 /\ (pos[s] = 1 => pass.id[s] = 1)
      <4>1. pass.id[s] \in 0..MaxPositions /\ pos[s] \in 0..MaxPositions
        BY <1>0, PassFields DEF TypeOK
      <4> QED BY <1>0, <4>1, ExitAssumption DEF Snapped
    <3>5. pass.read
      BY <1>0, <1>3, <2>1 DEF Reads
    <3> QED BY <1>0, <2>1, <3>1, <3>2, <3>3, <3>4, <3>5 DEF Counts, Counted
  <2> QED BY <1>2, <2>1 DEF Counted
<1>11. ProtectionKept'
  <2>1. ASSUME faults \subseteq {"late_legs"}, NEW s \in Symbols, holding'[s], stop'[s] = None
        PROVE  s \in awaiting' \/ (pass'.pc = "close" /\ pass'.sym = s)
    <3>1. PassTouches(s)
      BY <1>1
    <3>2. CASE Same(s)
      <4>1. s \in awaiting \/ (pass.pc = "close" /\ pass.sym = s)
        BY <1>0, <2>1, <3>2 DEF Same, ProtectionKept
      <4>2. CASE pass.pc = "close" /\ pass.sym = s /\ pass' # pass
        <5>1. CloseRefused(s)
          BY <3>1, <4>2, <3>2, <2>1 DEF PassTouches, Same, Cancels, Rests, Closes, Replaces
        <5> QED BY <2>1, <3>2, <5>1 DEF CloseRefused, Same
      <4> QED BY <3>2, <4>1, <4>2 DEF Same
    <3> QED BY <2>1, <3>1, <3>2 DEF PassTouches, Cancels, Rests, Closes, Replaces
  <2> QED BY <1>2, <2>1 DEF ProtectionKept
<1> QED BY <1>4, <1>5, <1>6, <1>7, <1>8, <1>9, <1>10, <1>11 DEF ExitInv

\* So does the account.
LEMMA AccountKeeps ==
    ASSUME ExitInv, Account, TypeOK'
    PROVE  ExitInv'
<1>0. /\ TypeOK /\ Placed /\ Whole /\ Snapped /\ LegCurrent
      /\ Reads /\ StopSeen /\ Counted /\ ProtectionKept
  BY DEF ExitInv
<1>1. /\ pass' = pass /\ naked' = naked /\ faults' = faults
      /\ \A s \in Symbols : AccountTouches(s)
  BY <1>0, AccountMoves
<1>2. pass.held \subseteq Symbols
  BY <1>0 DEF TypeOK, PassType
<1> DEFINE Touch(s) ==
        /\ AccountTouches(s)
        /\ pos[s] \in 0..MaxPositions /\ MaxPositions \in Nat
        /\ BracketStop \in Stops /\ None \notin Stops
<1>3. ASSUME NEW s \in Symbols PROVE Touch(s)
  BY <1>0, <1>1, ExitAssumption DEF TypeOK
<1> HIDE DEF Touch
<1>4. ASSUME NEW s \in Symbols
      PROVE  /\ pos'[s] >= pos[s] /\ pos[s] \in Nat /\ pos'[s] \in Nat
             /\ holding'[s] => pos'[s] >= 1
             /\ ~holding'[s] => stop'[s] = None
             /\ s \in awaiting' => stop'[s] = None
             /\ pos'[s] = pos[s] => (holding'[s] => holding[s]) /\ (seen'[s] = seen[s])
             /\ pos'[s] = pos[s] /\ s \in awaiting' => s \in awaiting
             /\ pos'[s] = pos[s] /\ s \notin awaiting =>
                   stop'[s] = stop[s] \/ stop'[s] = None
             /\ faults \subseteq {"calls_fail"} =>
                   /\ s \in awaiting' => s \in awaiting
                   /\ holding'[s] /\ stop'[s] = None => Same(s) /\ pos'[s] = pos[s]
             /\ faults \subseteq {"late_legs"} /\ holding'[s] /\ stop'[s] = None =>
                   s \in awaiting' \/ (Same(s) /\ pos'[s] = pos[s])
  <2>1. /\ pos[s] \in 0..MaxPositions /\ MaxPositions \in Nat
        /\ BracketStop # None /\ holding \in [Symbols -> BOOLEAN] /\ seen \in [Symbols -> 0..Grace]
        /\ pos \in [Symbols -> 0..MaxPositions] /\ stop \in [Symbols -> Stops \cup {None}]
    BY <1>0, ExitAssumption DEF TypeOK
  <2>2. /\ holding[s] => pos[s] >= 1
        /\ ~holding[s] => stop[s] = None
        /\ s \in awaiting => stop[s] = None /\ holding[s]
    BY <1>0 DEF Whole, TypeOK, Holding
  <2>3. CASE Same(s) /\ pos'[s] = pos[s] /\ seen'[s] = seen[s]
    BY <1>0, <2>1, <2>2, <2>3 DEF Same, ProtectionKept
  <2>4. CASE EntryFills(s)
    BY <2>1, <2>2, <2>4 DEF EntryFills
  <2>5. CASE LegsAttach(s)
    BY <2>1, <2>2, <2>5 DEF LegsAttach
  <2>6. CASE StripLeg(s)
    BY <2>1, <2>2, <2>6 DEF StripLeg
  <2>7. CASE PositionEnds(s)
    BY <2>1, <2>2, <2>7 DEF PositionEnds
  <2> QED BY <1>1, <2>3, <2>4, <2>5, <2>6, <2>7 DEF AccountTouches
<1>5. Placed' /\ Reads'
  BY <1>0, <1>1 DEF Placed, Reads
<1>6. Whole'
  BY <1>4 DEF Whole
<1>7. Snapped'
  <2>1. ASSUME NEW s \in Symbols
        PROVE  /\ s \in pass.held => 1 <= pass.id[s] /\ pass.id[s] <= pos'[s]
               /\ pass.legOf[s] <= pos'[s]
    <3>1. pass.id[s] \in Int /\ pass.legOf[s] \in Int
      BY <1>0, PassFields, ExitAssumption
    <3> QED BY <1>0, <1>4, <3>1 DEF Snapped
  <2> QED BY <1>1, <2>1 DEF Snapped
<1>8. LegCurrent'
  <2>1. ASSUME pass.pc \in Past, NEW s \in pass.held, pass.leg[s] # None,
               pass.legOf[s] = pos'[s]
        PROVE  s \notin awaiting' /\ (stop'[s] # None => stop'[s] = pass.leg[s])
    <3>1. pos'[s] = pos[s]
      <4>1. pass.legOf[s] \in Int
        BY <1>0, <1>2, PassFields, ExitAssumption
      <4> QED BY <1>0, <1>2, <1>4, <2>1, <4>1 DEF Snapped
    <3> QED BY <1>0, <1>2, <1>4, <2>1, <3>1 DEF LegCurrent
  <2> QED BY <1>1, <2>1 DEF LegCurrent
<1>9. StopSeen'
  <2> SUFFICES ASSUME faults \subseteq {"calls_fail"} PROVE StopSeen'
    BY <1>1 DEF StopSeen
  <2>1. awaiting' = {}
    <3>1. awaiting = {} /\ awaiting' \subseteq Symbols
      BY <1>0 DEF StopSeen, TypeOK, Holding
    <3> QED BY <1>4, <3>1
  <2>2. ASSUME pass.pc \in Past, NEW s \in pass.held, holding'[s] /\ stop'[s] = None
        PROVE  pass.legOf[s] = pos'[s]
    BY <1>0, <1>2, <1>4, <2>2 DEF StopSeen, Same
  <2> QED BY <1>1, <2>1, <2>2 DEF StopSeen
<1>10. Counted'
  <2>1. ASSUME "orders_fail" \notin faults, NEW s \in Symbols
        PROVE  /\ pos'[s] = 0 => naked[s] = 0
               /\ pos'[s] = 1 /\ holding'[s] => naked[s] <= seen'[s]
    <3>1. CASE pos'[s] = pos[s]
      BY <1>0, <1>4, <2>1, <3>1 DEF Counted
    <3>2. CASE pos'[s] # pos[s]
      <4>1. pos'[s] = pos[s] + 1 /\ seen'[s] = 0 /\ pos[s] \in Nat
        BY <1>0, <1>3, <1>4, <3>2 DEF Touch, AccountTouches, EntryFills, LegsAttach, StripLeg,
           PositionEnds, TypeOK
      <4> QED BY <1>0, <2>1, <4>1 DEF Counted
    <3> QED BY <3>1, <3>2
  <2> QED BY <1>1, <2>1 DEF Counted
<1>11. ProtectionKept'
  BY <1>0, <1>1, <1>4 DEF ProtectionKept, Same
<1> QED BY <1>5, <1>6, <1>7, <1>8, <1>9, <1>10, <1>11 DEF ExitInv

\* The two reads and the end of a pass leave the account and the counters alone.
LEMMA ReadsKeep ==
    ASSUME ExitInv, Next, TypeOK',
           \/ \E cur \in [Symbols -> Prices] : ReadPositions(cur)
           \/ \E ok \in BOOLEAN : ReadOrders(ok)
           \/ PassDone
    PROVE  ExitInv'
<1>0. /\ TypeOK /\ Placed /\ Whole /\ Snapped /\ LegCurrent
      /\ Reads /\ StopSeen /\ Counted /\ ProtectionKept
  BY DEF ExitInv
<1>1. UNCHANGED <<holding, pos, stop, awaiting, naked, seen, faults>>
  BY DEF ReadPositions, ReadOrders, PassDone, brokerVars, managerVars
<1>2. pass.pc \notin Acting
  BY DEF ReadPositions, ReadOrders, PassDone, Acting
<1>3. Whole' /\ Counted'
  BY <1>0, <1>1 DEF Whole, Counted
<1>4. \A s \in Symbols : Grace > 0 => naked[s] # Grace
  BY <1>0, <1>2 DEF Placed, Acting
<1>5. (ProtectionKept' /\ Placed') \/ pass'.pc \in Acting
  BY <1>0, <1>1, <1>2, <1>4 DEF ProtectionKept, Placed, Acting
<1>6. CASE pass' = Idle
  <2>1. pass'.pc = "idle" /\ pass'.held = {} /\ pass'.legOf = [s \in Symbols |-> 0]
    BY <1>6 DEF Idle
  <2>2. \A s \in Symbols : 0 <= pos[s]
    BY <1>0, ExitAssumption DEF TypeOK
  <2>3. Snapped' /\ LegCurrent' /\ Reads' /\ StopSeen'
    BY <1>0, <1>1, <2>1, <2>2 DEF Snapped, LegCurrent, Reads, StopSeen, Past, Acting
  <2> QED BY <1>3, <1>5, <2>1, <2>3 DEF ExitInv, Acting
<1>7. CASE \E cur \in [Symbols -> Prices] : ReadPositions(cur)
  <2>1. PICK c : \/ pass' = Idle
                 \/ pass' = [Idle EXCEPT !.pc = "orders", !.held = Holding, !.id = pos, !.cur = c]
    BY <1>7 DEF ReadPositions
  <2>2. CASE pass' # Idle
    <3>1. /\ pass'.pc = "orders" /\ pass'.held = Holding /\ pass'.id = pos
          /\ pass'.legOf = [s \in Symbols |-> 0]
      BY <2>1, <2>2 DEF Idle
    <3>2. \A s \in Symbols : 0 <= pos[s] /\ pos[s] <= pos[s]
      BY <1>0, ExitAssumption DEF TypeOK
    <3>3. Snapped' /\ LegCurrent' /\ Reads' /\ StopSeen'
      BY <1>0, <1>1, <3>1, <3>2 DEF Snapped, LegCurrent, Reads, StopSeen, Past, Acting, Whole,
         Holding
    <3> QED BY <1>3, <1>5, <3>1, <3>3 DEF ExitInv, Acting
  <2> QED BY <1>6, <2>2
<1>8. CASE \E ok \in BOOLEAN : ReadOrders(ok)
  <2>1. PICK ok \in BOOLEAN : ReadOrders(ok)
    BY <1>8
  <2>2. PICK l, n : /\ l = [s \in Symbols |-> IF ok /\ s \in pass.held THEN stop[s] ELSE None]
                    /\ n = [s \in Symbols |-> IF ok /\ s \in pass.held THEN pos[s] ELSE 0]
    OBVIOUS
  <2>3. PICK m : m = (market = "open")
    OBVIOUS
  <2>4. pass' = [pass EXCEPT !.pc = "each", !.read = ok, !.open = m, !.leg = l, !.legOf = n]
    BY <2>1, <2>2, <2>3 DEF ReadOrders
  <2>5. /\ pass'.pc = "each" /\ pass'.held = pass.held /\ pass'.id = pass.id
        /\ pass'.read = ok /\ pass'.leg = l /\ pass'.legOf = n
    BY <1>0, <2>4 DEF TypeOK, PassType
  <2>6. pass.held \subseteq Symbols /\ \A s \in Symbols : 0 <= pos[s] /\ pos[s] <= pos[s]
    BY <1>0, ExitAssumption DEF TypeOK, PassType
  <2>7. Snapped' /\ LegCurrent'
    BY <1>0, <1>1, <2>2, <2>5, <2>6 DEF Snapped, LegCurrent, Past, Acting, Whole
  <2>8. Reads'
    BY <1>1, <2>1, <2>5 DEF Reads, ReadOrders
  <2>9. StopSeen'
    <3>1. faults \subseteq {"calls_fail"} => ok
      BY <2>1 DEF ReadOrders
    <3> QED BY <1>0, <1>1, <2>2, <2>5, <2>6, <3>1 DEF StopSeen, Past, Acting
  <2> QED BY <1>3, <1>5, <2>5, <2>7, <2>8, <2>9 DEF ExitInv, Acting
<1>9. CASE PassDone
  BY <1>6, <1>9 DEF PassDone
<1> QED BY <1>7, <1>8, <1>9

\* The invariant is inductive.
LEMMA ExitStep == ExitInv /\ [Next]_vars => ExitInv'
<1> SUFFICES ASSUME ExitInv, [Next]_vars PROVE ExitInv'
  OBVIOUS
<1>1. TypeOK'
  BY TypeKept
<1>2. CASE Next
  BY <1>1, <1>2, StepKinds, ReadsKeep, PassKeeps, AccountKeeps
<1>3. CASE UNCHANGED vars
  BY <1>3 DEF vars, ExitInv, TypeOK, Holding, Placed, Whole, Snapped, LegCurrent, Reads,
     StopSeen, Counted, ProtectionKept
<1> QED BY <1>2, <1>3

\* It holds always.
LEMMA ExitInvHolds == Spec => []ExitInv
  BY ExitInit, ExitStep, PTL DEF Spec

-----------------------------------------------------------------------------
(* What follows *)

\* Every variable of the exit manager has its type, and the pass that acts on a symbol
\* is tracking it (ExitManager._manage_one: every step works on the position at hand).
THEOREM ExitTypes == Spec => []TypeOK
  BY ExitInvHolds, PTL DEF ExitInv

\* While no call fails and nobody else strips a leg, a position whose legs have appeared
\* is without a stop only between the two calls of its flatten (replace_order is a PATCH).
THEOREM ProtectionHolds == Spec => []ProtectionKept
  BY ExitInvHolds, PTL DEF ExitInv

\* The stop of a position only rises (ExitManager._ratchet_stop), whatever fails: the leg
\* a replace is aimed at is the position's own, still at the price that was read.
THEOREM StopRises == Spec => StopOnlyRises
<1>1. ASSUME ExitInv, [Next]_vars
      PROVE  [\A s \in Symbols :
                pos'[s] = pos[s] /\ stop[s] # None /\ stop'[s] # None => stop'[s] >= stop[s]]_vars
  <2> SUFFICES ASSUME Next, NEW s \in Symbols, pos'[s] = pos[s], stop[s] # None, stop'[s] # None
               PROVE  stop'[s] >= stop[s]
    BY <1>1
  <2>1. /\ TypeOK /\ Whole /\ LegCurrent /\ pos \in [Symbols -> 0..MaxPositions]
        /\ stop[s] \in Int /\ stop \in [Symbols -> Stops \cup {None}]
    BY <1>1, ExitAssumption DEF ExitInv, TypeOK, Stops
  <2>2. ASSUME stop'[s] = stop[s] PROVE stop'[s] >= stop[s]
    BY <2>1, <2>2
  <2>3. CASE \/ \E cur \in [Symbols -> Prices] : ReadPositions(cur)
             \/ \E ok \in BOOLEAN : ReadOrders(ok)
             \/ PassDone
    BY <2>2, <2>3 DEF ReadPositions, ReadOrders, PassDone, brokerVars
  <2>4. CASE PassStep
    <3>1. PassTouches(s) /\ pass.pc \in Past
      BY <2>4 DEF PassStep, Goes
    <3>2. CASE Replaces(s)
      <4>1. stop[s] = pass.leg[s] /\ stop'[s] = pass.want /\ pass.want > pass.leg[s]
        BY <2>1, <3>1, <3>2 DEF Replaces, SameLeg, Raises, LegCurrent
      <4>2. pass.want \in Int
        BY <2>1, PassFields, ExitAssumption DEF Stops
      <4> QED BY <2>1, <4>1, <4>2
    <3> QED BY <2>2, <3>1, <3>2 DEF PassTouches, Same, Cancels, Rests, Closes
  <2>5. CASE Account
    <3>1. AccountTouches(s)
      BY <2>1, <2>5, AccountMoves
    <3> QED BY <2>1, <2>2, <3>1 DEF AccountTouches, Same, EntryFills, LegsAttach, StripLeg,
            PositionEnds, Whole
  <2> QED BY <1>1, <2>3, <2>4, <2>5, StepKinds
<1> QED BY <1>1, ExitInvHolds, PTL DEF Spec, StopOnlyRises

\* While only calls fail, a flatten closes the position whose orders the pass read
\* (cancel_protective_and_close): a position opened since is spared by its own legs.
THEOREM FlattensRightOne == Spec => FlattensWhatItSaw
<1>1. ASSUME ExitInv, [Next]_vars
      PROVE  [faults \subseteq {"calls_fail"} /\ pass.pc = "close" /\ holding' # holding
                /\ pass' # pass => pos[pass.sym] = pass.legOf[pass.sym]]_vars
  <2> SUFFICES ASSUME Next, faults \subseteq {"calls_fail"}, pass.pc = "close",
                      holding' # holding, pass' # pass
               PROVE  pos[pass.sym] = pass.legOf[pass.sym]
    BY <1>1
  <2>1. TypeOK /\ Placed /\ StopSeen
    BY <1>1 DEF ExitInv
  <2>2. CASE PassStep
    <3>1. holding \in [Symbols -> BOOLEAN] /\ holding' \in [Symbols -> BOOLEAN]
      BY <1>1, <2>1, TypeKept DEF TypeOK
    <3>2. PICK s \in Symbols : holding'[s] # holding[s]
      BY <3>1
    <3>3. Closes(s)
      BY <2>2, <3>2 DEF PassStep, PassTouches, Same, Cancels, Rests, Replaces
    <3> QED BY <2>1, <3>2, <3>3 DEF Closes, CloseTaken, StopSeen, Placed, Past, Acting
  <2>3. CASE Account
    BY <2>1, <2>3, AccountMoves
  <2>4. CASE \/ \E cur \in [Symbols -> Prices] : ReadPositions(cur)
             \/ \E ok \in BOOLEAN : ReadOrders(ok)
             \/ PassDone
    BY <2>4 DEF ReadPositions, ReadOrders, PassDone
  <2> QED BY <1>1, <2>2, <2>3, <2>4, StepKinds
<1> QED BY <1>1, ExitInvHolds, PTL DEF Spec, FlattensWhatItSaw

\* While the orders can be read, the first position of a symbol that is flattened for
\* want of a stop was seen without one in Grace passes (enforce_stop_grace_passes).
THEOREM GraceHolds == Spec => GraceKept
<1>1. ASSUME ExitInv, [Next]_vars
      PROVE  [\A s \in Symbols :
                /\ "orders_fail" \notin faults
                /\ NakedFlatten(s) /\ holding[s] /\ pos[s] = pass.id[s] /\ pos[s] = 1
                => seen'[s] >= Grace]_vars
  <2> SUFFICES ASSUME NEW s \in Symbols, "orders_fail" \notin faults, NakedFlatten(s),
                      holding[s], pos[s] = pass.id[s], pos[s] = 1
               PROVE  seen'[s] >= Grace
    BY <1>1
  <2>1. /\ naked[s] \in 0..Grace /\ seen[s] \in 0..Grace /\ Grace \in Nat
        /\ seen \in [Symbols -> 0..Grace]
    BY <1>1, ExitAssumption DEF ExitInv, TypeOK
  <2>2. naked[s] <= seen[s] /\ pass.read
    BY <1>1 DEF ExitInv, Counted, Reads, NakedFlatten, Naked, Examining, Past
  <2>3. naked[s] + 1 >= Grace /\ seen'[s] = (IF seen[s] < Grace THEN seen[s] + 1 ELSE seen[s])
    BY <2>1, <2>2 DEF NakedFlatten, See
  <2> QED BY <2>1, <2>2, <2>3
<1> QED BY <1>1, ExitInvHolds, PTL DEF Spec, GraceKept
==========================================================================

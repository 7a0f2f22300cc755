---------------------- MODULE TradingExecutionProofs ----------------------
(***************************************************************************)
(* Proofs about TradingExecution, for every set of symbols and orders and  *)
(* every setting.                                                          *)
(***************************************************************************)
EXTENDS TradingExecution, TLAPS

\* An order without events is unknown to the service and to the broker; any
\* other one has a symbol, and so has the one the guard is backing out.
KnownSymbol ==
    /\ \A o \in Orders :
        \/ sym[o] \in Symbols
        \/ log[o] = {} /\ broker[o] = "none" /\ armed[o] = "no"
    /\ main.pc \in BackOutPCs => sym[main.order] \in Symbols

\* Type correctness needs it: what is held is a set of symbols.
TypeInv == TypeOK /\ KnownSymbol

-----------------------------------------------------------------------------
(* Type correctness *)

\* A thread's records start well typed.
LEMMA IdleTypes ==
    /\ IdleMain \in MainType /\ IdleTrig \in TrigType /\ IdleFlat \in FlatType
    /\ IdleMain.pc = "idle" /\ IdleTrig.pc = "idle" /\ IdleFlat.by = "nobody"
    /\ IdleFlat.todo = {}
  BY DEF IdleMain, MainType, IdleTrig, TrigType, IdleFlat, FlatType, MainPCs

\* The write of the day's count is followed by the release of the symbol.
LEMMA ForgetNext ==
    ASSUME main \in MainType, ReleaseWrite
    PROVE  main' \in MainType /\ main'.pc = "forget" /\ main'.order = main.order
<1> DEFINE after(k) == [main EXCEPT !.pc = "forget", !.n = k]
<1>1. \A k \in Int : /\ after(k) \in MainType
                     /\ after(k).pc = "forget" /\ after(k).order = main.order
  BY DEF MainType, MainPCs, BackOutPCs
<1>2. main' = after(0) /\ 0 \in Int
  BY DEF ReleaseWrite
<1> HIDE DEF after
<1> QED BY <1>1, <1>2

\* A restart resets the threads and the counters to what they start with.
LEMMA RestartTypes ==
    ASSUME Restart
    PROVE  /\ main' \in MainType /\ trig' \in TrigType /\ flat' \in FlatType
           /\ main'.pc = "idle" /\ trig'.pc = "idle"
           /\ failures' \in 0..FailLimit /\ freshN' \in Int
           /\ backouts' \in [Symbols -> Nat]
           /\ cooldown' \in [Symbols -> {"clear", "timed", "session"}]
<1>1. main' = IdleMain /\ trig' = IdleTrig /\ flat' = IdleFlat
  BY DEF Restart
<1>2. /\ failures' \in 0..FailLimit /\ freshN' \in Int
      /\ backouts' \in [Symbols -> Nat]
      /\ cooldown' \in [Symbols -> {"clear", "timed", "session"}]
  BY ConstantsAssumption DEF Restart
<1> QED BY <1>1, <1>2, IdleTypes

\* The main thread's record, with what the guard's back-out relies on.
MainGood ==
    /\ main \in MainType
    /\ main.pc \in BackOutPCs => main.order \in Orders /\ sym[main.order] \in Symbols

\* The initial state is well typed.
LEMMA TypeInit == Init => TypeInv
<1> SUFFICES ASSUME Init PROVE TypeInv
  OBVIOUS
<1>1. main \in MainType /\ trig \in TrigType /\ flat \in FlatType
  BY IdleTypes DEF Init
<1>2. failures \in 0..FailLimit /\ freshN \in Int /\ backouts \in [Symbols -> Nat]
  BY ConstantsAssumption DEF Init
<1>3. /\ main.pc \in BackOutPCs => main.order \in Orders
      /\ trig.pc = "count" => trig.order \in Orders
  BY IdleTypes DEF Init, BackOutPCs
<1>4. TypeOK
  BY <1>1, <1>2, <1>3 DEF Init, TypeOK, BrokerStates, ArmedStates, EventKinds
<1>5. KnownSymbol
  BY IdleTypes DEF Init, KnownSymbol, BackOutPCs
<1> QED BY <1>4, <1>5 DEF TypeInv

\* What the account holds, what is pending and what is armed has its type.
LEMMA SetTypes ==
    ASSUME TypeInv
    PROVE  /\ Held \subseteq Symbols /\ PendingSymbols \subseteq Symbols
           /\ Armed \subseteq Orders
  BY DEF TypeInv, TypeOK, KnownSymbol, Held, HeldOrder, PendingSymbols, Pending, Armed

\* A cancel leaves the broker's view and the store well typed.
LEMMA CancelTypes ==
    ASSUME TypeOK, NEW o \in Orders, CancelEntry(o)
    PROVE  /\ broker' \in [Orders -> BrokerStates]
           /\ log' = [log EXCEPT ![o] = @ \cup {"cancelled"}]
           /\ log' \in [Orders -> SUBSET EventKinds]
           /\ \A q \in Orders : broker[q] = "none" => broker'[q] = "none"
<1> PICK b \in AfterCancel(o) : broker' = [broker EXCEPT ![o] = b]
  BY DEF CancelEntry
<1>1. b \in BrokerStates /\ (broker[o] = "none" => b = "none")
  BY DEF AfterCancel, TypeOK, BrokerStates
<1>2. log' = [log EXCEPT ![o] = @ \cup {"cancelled"}]
  BY DEF CancelEntry, Record
<1> QED BY <1>1, <1>2 DEF TypeOK, EventKinds

\* What a submit leaves, whatever the broker answered, is well typed.
LEMMA SubmitTypes ==
    ASSUME TypeOK, NEW o \in Orders, NEW out \in Outcomes,
           NEW kinds \in SUBSET EventKinds, Submit(o, out, kinds)
    PROVE  /\ broker' \in [Orders -> BrokerStates]
           /\ log' \in [Orders -> SUBSET EventKinds]
           /\ armed' \in [Orders -> ArmedStates]
           /\ \A q \in Orders \ {o} : /\ broker'[q] = broker[q] /\ log'[q] = log[q]
                                      /\ armed'[q] = armed[q]
<1>1. ExecuteLog(out) \subseteq EventKinds /\ ExecuteBroker(out) \in BrokerStates
  BY DEF Outcomes, ExecuteLog, ExecuteBroker, EventKinds, BrokerStates
<1> QED BY <1>1 DEF Submit, Record, TypeOK, ArmedStates

\* Closing symbols leaves the broker's view well typed and touches positions only.
LEMMA CloseTypes ==
    ASSUME TypeOK, NEW S, NEW F, CloseSymbols(S, F)
    PROVE  /\ broker' \in [Orders -> BrokerStates]
           /\ \A q \in Orders : broker[q] = "none" => broker'[q] = "none"
  BY DEF TypeOK, CloseSymbols, HeldOrder, BrokerStates

\* A back-out is counted and benched within the types.
LEMMA BackoutTypes ==
    ASSUME TypeOK, NEW s \in Symbols, RegisterBackout(s)
    PROVE  /\ backouts' \in [Symbols -> Nat]
           /\ cooldown' \in [Symbols -> {"clear", "timed", "session"}]
<1>1. backouts[s] + 1 \in Nat
  BY DEF TypeOK
<1>2. backouts' = [backouts EXCEPT ![s] = backouts[s] + 1]
  BY DEF RegisterBackout
<1>3. backouts' \in [Symbols -> Nat]
  BY <1>1, <1>2 DEF TypeOK
<1>4. cooldown' \in [Symbols -> {"clear", "timed", "session"}]
  BY DEF RegisterBackout, TypeOK
<1> QED BY <1>3, <1>4

\* A pass of the guard keeps every variable in its type.
LEMMA TypeGuard == TypeInv /\ ExpireStaleEntries => TypeInv'
<1> SUFFICES ASSUME TypeInv, ExpireStaleEntries PROVE TypeInv'
  OBVIOUS
<1>0. MainGood
  BY DEF TypeInv, TypeOK, KnownSymbol, MainGood
<1> USE ConstantsAssumption, SetTypes DEF TypeInv, KnownSymbol, TypeOK,
        OnlyMain, storeVars, guardVars, benchVars,
        breakerVars, threadVars, ArmedStates, EventKinds
<1>1. ASSUME NEW B \in SUBSET prevHeld, NoteExits(B) PROVE TypeInv'
  <2>1. MainGood'
    BY <1>0, <1>1 DEF MainGood, MainType, MainPCs, BackOutPCs, LockedPCs, IdleMain, NoteExits
  <2>2. TypeOK'
    BY <1>1, <2>1 DEF MainGood, NoteExits
  <2>3. KnownSymbol'
    BY <1>1, <2>1 DEF MainGood, NoteExits
  <2> QED BY <2>2, <2>3 DEF TypeInv
<1>2. ASSUME NoteExitsUnread PROVE TypeInv'
  <2>1. MainGood'
    BY <1>0, <1>2 DEF MainGood, MainType, MainPCs, BackOutPCs, LockedPCs, IdleMain, NoteExitsUnread
  <2>2. TypeOK'
    BY <1>2, <2>1 DEF MainGood, NoteExitsUnread
  <2>3. KnownSymbol'
    BY <1>2, <2>1 DEF MainGood, NoteExitsUnread
  <2> QED BY <2>2, <2>3 DEF TypeInv
<1>3. ASSUME NEW held \in {Held, snap}, ReadOrders(held) PROVE TypeInv'
  <2>1. MainGood'
    BY <1>0, <1>3 DEF MainGood, MainType, MainPCs, BackOutPCs, LockedPCs, IdleMain, ReadOrders
  <2>2. TypeOK'
    BY <1>3, <2>1 DEF MainGood, ReadOrders
  <2>3. KnownSymbol'
    BY <1>3, <2>1 DEF MainGood, ReadOrders
  <2> QED BY <2>2, <2>3 DEF TypeInv
<1>4. ASSUME ListArmed PROVE TypeInv'
  <2>1. MainGood'
    BY <1>0, <1>4 DEF MainGood, MainType, MainPCs, BackOutPCs, LockedPCs, IdleMain, ListArmed
  <2>2. TypeOK'
    BY <1>4, <2>1 DEF MainGood, ListArmed
  <2>3. KnownSymbol'
    BY <1>4, <2>1 DEF MainGood, ListArmed
  <2> QED BY <2>2, <2>3 DEF TypeInv
<1>5. ASSUME NEW o \in main.todo, ScanVanished(o) PROVE TypeInv'
  <2>1. MainGood'
    BY <1>0, <1>5 DEF MainGood, MainType, MainPCs, BackOutPCs, LockedPCs, IdleMain, ScanVanished
  <2>2. TypeOK'
    BY <1>5, <2>1 DEF MainGood, ScanVanished
  <2>3. KnownSymbol'
    BY <1>5, <2>1 DEF MainGood, ScanVanished
  <2> QED BY <2>2, <2>3 DEF TypeInv
<1>6. ASSUME NEW o \in main.todo, ScanFilled(o) PROVE TypeInv'
  <2>0. o \in Orders /\ Skip(o) \in MainType /\ Skip(o).pc = "scan" /\ Skip(o).order = main.order
    BY <1>6 DEF ScanFilled, Scanning, Skip, MainType
  <2>1. MainGood'
    BY <1>0, <1>6, <2>0 DEF MainGood, MainType, MainPCs, BackOutPCs, LockedPCs, IdleMain, ScanFilled
  <2>2. TypeOK'
    BY <1>6, <2>1, <2>0 DEF MainGood, ScanFilled, Disarm
  <2>3. KnownSymbol'
    BY <1>6, <2>1, <2>0 DEF MainGood, ScanFilled, Disarm
  <2> QED BY <2>2, <2>3 DEF TypeInv
<1>7. ASSUME NEW o \in main.todo, ScanCancelled(o) PROVE TypeInv'
  <2>0. o \in Orders /\ Skip(o) \in MainType /\ Skip(o).pc = "scan" /\ Skip(o).order = main.order
    BY <1>7 DEF ScanCancelled, Scanning, Skip, MainType
  <2>1. MainGood'
    BY <1>0, <1>7, <2>0 DEF MainGood, MainType, MainPCs, BackOutPCs, LockedPCs, IdleMain, ScanCancelled
  <2>2. TypeOK'
    BY <1>7, <2>1, <2>0 DEF MainGood, ScanCancelled, Disarm
  <2>3. KnownSymbol'
    BY <1>7, <2>1, <2>0 DEF MainGood, ScanCancelled, Disarm
  <2> QED BY <2>2, <2>3 DEF TypeInv
<1>8. ASSUME NEW o \in main.todo, ScanKeeps(o) PROVE TypeInv'
  <2>0. o \in Orders /\ Skip(o) \in MainType /\ Skip(o).pc = "scan" /\ Skip(o).order = main.order
    BY <1>8 DEF ScanKeeps, Scanning, Skip, MainType
  <2>1. MainGood'
    BY <1>0, <1>8, <2>0 DEF MainGood, MainType, MainPCs, BackOutPCs, LockedPCs, IdleMain, ScanKeeps
  <2>2. TypeOK'
    BY <1>8, <2>1, <2>0 DEF MainGood, ScanKeeps
  <2>3. KnownSymbol'
    BY <1>8, <2>1, <2>0 DEF MainGood, ScanKeeps
  <2> QED BY <2>2, <2>3 DEF TypeInv
<1>9. ASSUME NEW o \in main.todo, ScanStale(o) PROVE TypeInv'
  <2>0. o \in Orders /\ Skip(o) \in MainType /\ Skip(o).pc = "scan" /\ Skip(o).order = main.order
    BY <1>9 DEF ScanStale, Scanning, Skip, MainType
  <2>1. MainGood'
    BY <1>0, <1>9, <2>0 DEF MainGood, MainType, MainPCs, BackOutPCs, LockedPCs, IdleMain, ScanStale
  <2>2. TypeOK'
    BY <1>9, <2>1, <2>0 DEF MainGood, ScanStale
  <2>3. KnownSymbol'
    BY <1>9, <2>1, <2>0 DEF MainGood, ScanStale
  <2> QED BY <2>2, <2>3 DEF TypeInv
<1>10. ASSUME BackOutCancel PROVE TypeInv'
  <2>0. CancelEntry(main.order) /\ main.order \in Orders /\ sym[main.order] \in Symbols
    BY <1>0, <1>10 DEF BackOutCancel, MainGood, BackOutPCs
  <2>1. MainGood'
    BY <1>0, <1>10, <2>0, CancelTypes DEF MainGood, MainType, MainPCs, BackOutPCs, LockedPCs, IdleMain, BackOutCancel
  <2>2. TypeOK'
    BY <1>10, <2>1, <2>0, CancelTypes DEF MainGood, BackOutCancel
  <2>3. KnownSymbol'
    BY <1>10, <2>1, <2>0, CancelTypes DEF MainGood, BackOutCancel
  <2> QED BY <2>2, <2>3 DEF TypeInv
<1>11. ASSUME BackOutBench PROVE TypeInv'
  <2>0. RegisterBackout(sym[main.order]) /\ sym[main.order] \in Symbols
    BY <1>0, <1>11 DEF BackOutBench, MainGood, BackOutPCs
  <2>1. MainGood'
    BY <1>0, <1>11, <2>0, BackoutTypes DEF MainGood, MainType, MainPCs, BackOutPCs, LockedPCs, IdleMain, BackOutBench
  <2>2. TypeOK'
    BY <1>11, <2>1, <2>0, BackoutTypes DEF MainGood, BackOutBench
  <2>3. KnownSymbol'
    BY <1>11, <2>1, <2>0, BackoutTypes DEF MainGood, BackOutBench
  <2> QED BY <2>2, <2>3 DEF TypeInv
<1>12. ASSUME ReleaseRead PROVE TypeInv'
  <2>1. MainGood'
    BY <1>0, <1>12 DEF MainGood, MainType, MainPCs, BackOutPCs, LockedPCs, IdleMain, ReleaseRead
  <2>2. TypeOK'
    BY <1>12, <2>1 DEF MainGood, ReleaseRead
  <2>3. KnownSymbol'
    BY <1>12, <2>1 DEF MainGood, ReleaseRead
  <2> QED BY <2>2, <2>3 DEF TypeInv
<1>13. ASSUME ReleaseWrite PROVE TypeInv'
  <2>0. main.n \in Int /\ main' \in MainType /\ main'.pc = "forget" /\ main'.order = main.order
    BY <1>13, ForgetNext DEF MainType
  <2>1. MainGood'
    BY <1>0, <1>13, <2>0 DEF MainGood, MainType, MainPCs, BackOutPCs, LockedPCs, IdleMain, ReleaseWrite
  <2>2. TypeOK'
    BY <1>13, <2>1, <2>0 DEF MainGood, ReleaseWrite
  <2>3. KnownSymbol'
    BY <1>13, <2>1, <2>0 DEF MainGood, ReleaseWrite
  <2> QED BY <2>2, <2>3 DEF TypeInv
<1>14. ASSUME Forget PROVE TypeInv'
  <2>1. MainGood'
    BY <1>0, <1>14 DEF MainGood, MainType, MainPCs, BackOutPCs, LockedPCs, IdleMain, Forget
  <2>2. TypeOK'
    BY <1>14, <2>1 DEF MainGood, Forget, Disarm
  <2>3. KnownSymbol'
    BY <1>14, <2>1 DEF MainGood, Forget, Disarm
  <2> QED BY <2>2, <2>3 DEF TypeInv
<1>15. ASSUME ScanDone PROVE TypeInv'
  <2>1. MainGood'
    BY <1>0, <1>15 DEF MainGood, MainType, MainPCs, BackOutPCs, LockedPCs, IdleMain, ScanDone
  <2>2. TypeOK'
    BY <1>15, <2>1 DEF MainGood, ScanDone
  <2>3. KnownSymbol'
    BY <1>15, <2>1 DEF MainGood, ScanDone
  <2> QED BY <2>2, <2>3 DEF TypeInv
<1> QED BY <1>1, <1>2, <1>3, <1>4, <1>5, <1>6, <1>7, <1>8, <1>9, <1>10, <1>11, <1>12, <1>13, <1>14, <1>15 DEF ExpireStaleEntries

\* A call of submit_breakout_now keeps every variable in its type.
LEMMA TypeTrigger == TypeInv /\ Trigger => TypeInv'
<1> SUFFICES ASSUME TypeInv, Trigger PROVE TypeInv'
  OBVIOUS
<1>0. MainGood
  BY DEF TypeInv, TypeOK, KnownSymbol, MainGood
<1> USE ConstantsAssumption, SetTypes DEF TypeInv, KnownSymbol, TypeOK,
        OnlyMain, storeVars, guardVars, benchVars,
        breakerVars, threadVars, ArmedStates, EventKinds
<1>1. ASSUME NEW s \in Symbols, NEW o \in Orders, NEW r \in Reads, NEW out \in Outcomes, TriggerSubmit(s, o, r, out) PROVE TypeInv'
  <2>0. Submit(o, out, {"requested", "approved"}) /\ {"requested", "approved"} \in SUBSET EventKinds
    BY <1>1 DEF TriggerSubmit
  <2>1. MainGood'
    BY <1>0, <1>1, <2>0, SubmitTypes DEF MainGood, MainType, MainPCs, BackOutPCs, LockedPCs, IdleMain, TriggerSubmit
  <2>2. TypeOK'
    BY <1>1, <2>1, <2>0, SubmitTypes DEF MainGood, TriggerSubmit, ReadEquity, AfterRead, TrigType, IdleTrig, Unused
  <2>3. KnownSymbol'
    BY <1>1, <2>1, <2>0, SubmitTypes DEF MainGood, TriggerSubmit, ReadEquity, AfterRead, TrigType, IdleTrig, Unused
  <2> QED BY <2>2, <2>3 DEF TypeInv
<1>2. ASSUME TriggerCount PROVE TypeInv'
  <2>1. MainGood'
    BY <1>0, <1>2 DEF MainGood, MainType, MainPCs, BackOutPCs, LockedPCs, IdleMain, TriggerCount
  <2>2. TypeOK'
    BY <1>2, <2>1 DEF MainGood, TriggerCount, TrigType, FlatType, IdleTrig, IdleFlat
  <2>3. KnownSymbol'
    BY <1>2, <2>1 DEF MainGood, TriggerCount, TrigType, FlatType, IdleTrig, IdleFlat
  <2> QED BY <2>2, <2>3 DEF TypeInv
<1>3. ASSUME NEW r \in Reads, TriggerSkip(r) PROVE TypeInv'
  <2>1. MainGood'
    BY <1>0, <1>3 DEF MainGood, MainType, MainPCs, BackOutPCs, LockedPCs, IdleMain, TriggerSkip
  <2>2. TypeOK'
    BY <1>3, <2>1 DEF MainGood, TriggerSkip, ReadEquity, AfterRead
  <2>3. KnownSymbol'
    BY <1>3, <2>1 DEF MainGood, TriggerSkip, ReadEquity, AfterRead
  <2> QED BY <2>2, <2>3 DEF TypeInv
<1>4. ASSUME TriggerBreach PROVE TypeInv'
  <2>1. MainGood'
    BY <1>0, <1>4 DEF MainGood, MainType, MainPCs, BackOutPCs, LockedPCs, IdleMain, TriggerBreach
  <2>2. TypeOK'
    BY <1>4, <2>1 DEF MainGood, TriggerBreach, TrigType, FlatType, IdleTrig, IdleFlat
  <2>3. KnownSymbol'
    BY <1>4, <2>1 DEF MainGood, TriggerBreach, TrigType, FlatType, IdleTrig, IdleFlat
  <2> QED BY <2>2, <2>3 DEF TypeInv
<1> QED BY <1>1, <1>2, <1>3, <1>4 DEF Trigger

\* The execution tick keeps every variable in its type.
LEMMA TypeTick == TypeInv /\ Tick => TypeInv'
<1> SUFFICES ASSUME TypeInv, Tick PROVE TypeInv'
  OBVIOUS
<1>0. MainGood
  BY DEF TypeInv, TypeOK, KnownSymbol, MainGood
<1> USE ConstantsAssumption, SetTypes DEF TypeInv, KnownSymbol, TypeOK,
        OnlyMain, storeVars, guardVars, benchVars,
        breakerVars, threadVars, ArmedStates, EventKinds
<1>1. ASSUME TickStart PROVE TypeInv'
  <2>1. MainGood'
    BY <1>0, <1>1 DEF MainGood, MainType, MainPCs, BackOutPCs, LockedPCs, IdleMain, GoTo, TickStart
  <2>2. TypeOK'
    BY <1>1, <2>1 DEF MainGood, TickStart, GoTo
  <2>3. KnownSymbol'
    BY <1>1, <2>1 DEF MainGood, TickStart, GoTo
  <2> QED BY <2>2, <2>3 DEF TypeInv
<1>2. ASSUME NEW r \in Reads, TickOpen(r) PROVE TypeInv'
  <2>1. MainGood'
    BY <1>0, <1>2 DEF MainGood, MainType, MainPCs, BackOutPCs, LockedPCs, IdleMain, GoTo, TickOpen
  <2>2. TypeOK'
    BY <1>2, <2>1 DEF MainGood, TickOpen, ReadEquity, AfterRead
  <2>3. KnownSymbol'
    BY <1>2, <2>1 DEF MainGood, TickOpen, ReadEquity, AfterRead
  <2> QED BY <2>2, <2>3 DEF TypeInv
<1>3. ASSUME TickBreach PROVE TypeInv'
  <2>1. MainGood'
    BY <1>0, <1>3 DEF MainGood, MainType, MainPCs, BackOutPCs, LockedPCs, IdleMain, GoTo, TickBreach
  <2>2. TypeOK'
    BY <1>3, <2>1 DEF MainGood, TickBreach, GoTo, FlatType
  <2>3. KnownSymbol'
    BY <1>3, <2>1 DEF MainGood, TickBreach, GoTo, FlatType
  <2> QED BY <2>2, <2>3 DEF TypeInv
<1>4. ASSUME NEW s \in Symbols, NEW o \in Orders, TickRequest(s, o) PROVE TypeInv'
  <2>1. MainGood'
    BY <1>0, <1>4 DEF MainGood, MainType, MainPCs, BackOutPCs, LockedPCs, IdleMain, GoTo, TickRequest
  <2>2. TypeOK'
    BY <1>4, <2>1 DEF MainGood, TickRequest, Record, Unused
  <2>3. KnownSymbol'
    BY <1>4, <2>1 DEF MainGood, TickRequest, Record, Unused
  <2> QED BY <2>2, <2>3 DEF TypeInv
<1>5. ASSUME NEW s \in Symbols, TickSkip(s) PROVE TypeInv'
  <2>1. MainGood'
    BY <1>0, <1>5 DEF MainGood, MainType, MainPCs, BackOutPCs, LockedPCs, IdleMain, GoTo, TickSkip
  <2>2. TypeOK'
    BY <1>5, <2>1 DEF MainGood, TickSkip
  <2>3. KnownSymbol'
    BY <1>5, <2>1 DEF MainGood, TickSkip
  <2> QED BY <2>2, <2>3 DEF TypeInv
<1>6. ASSUME TickSignalsDone PROVE TypeInv'
  <2>1. MainGood'
    BY <1>0, <1>6 DEF MainGood, MainType, MainPCs, BackOutPCs, LockedPCs, IdleMain, GoTo, TickSignalsDone
  <2>2. TypeOK'
    BY <1>6, <2>1 DEF MainGood, TickSignalsDone
  <2>3. KnownSymbol'
    BY <1>6, <2>1 DEF MainGood, TickSignalsDone
  <2> QED BY <2>2, <2>3 DEF TypeInv
<1>7. ASSUME NEW o \in Orders, NEW out \in Outcomes, ApproveAuto(o, out) PROVE TypeInv'
  <2>0. Submit(o, out, {"approved"}) /\ {"approved"} \in SUBSET EventKinds
    BY <1>7 DEF ApproveAuto
  <2>1. MainGood'
    BY <1>0, <1>7, <2>0, SubmitTypes DEF MainGood, MainType, MainPCs, BackOutPCs, LockedPCs, IdleMain, GoTo, ApproveAuto
  <2>2. TypeOK'
    BY <1>7, <2>1, <2>0, SubmitTypes DEF MainGood, ApproveAuto, Approving, Pending
  <2>3. KnownSymbol'
    BY <1>7, <2>1, <2>0, SubmitTypes DEF MainGood, ApproveAuto, Approving, Pending
  <2> QED BY <2>2, <2>3 DEF TypeInv
<1>8. ASSUME NEW o \in Orders, RejectCapped(o) PROVE TypeInv'
  <2>1. MainGood'
    BY <1>0, <1>8 DEF MainGood, MainType, MainPCs, BackOutPCs, LockedPCs, IdleMain, GoTo, RejectCapped
  <2>2. TypeOK'
    BY <1>8, <2>1 DEF MainGood, RejectCapped, Approving, Reject, Record, Pending
  <2>3. KnownSymbol'
    BY <1>8, <2>1 DEF MainGood, RejectCapped, Approving, Reject, Record, Pending
  <2> QED BY <2>2, <2>3 DEF TypeInv
<1>9. ASSUME TickDone PROVE TypeInv'
  <2>1. MainGood'
    BY <1>0, <1>9 DEF MainGood, MainType, MainPCs, BackOutPCs, LockedPCs, IdleMain, GoTo, TickDone
  <2>2. TypeOK'
    BY <1>9, <2>1 DEF MainGood, TickDone
  <2>3. KnownSymbol'
    BY <1>9, <2>1 DEF MainGood, TickDone
  <2> QED BY <2>2, <2>3 DEF TypeInv
<1> QED BY <1>1, <1>2, <1>3, <1>4, <1>5, <1>6, <1>7, <1>8, <1>9 DEF Tick

\* The dashboard's requests keep every variable in its type.
LEMMA TypeDashboard == TypeInv /\ Dashboard => TypeInv'
<1> SUFFICES ASSUME TypeInv, Dashboard PROVE TypeInv'
  OBVIOUS
<1>0. MainGood
  BY DEF TypeInv, TypeOK, KnownSymbol, MainGood
<1> USE ConstantsAssumption, SetTypes DEF TypeInv, KnownSymbol, TypeOK,
        OnlyMain, storeVars, guardVars, benchVars,
        breakerVars, threadVars, ArmedStates, EventKinds
<1>1. ASSUME NEW o \in Orders, NEW out \in Outcomes, ManualApprove(o, out) PROVE TypeInv'
  <2>0. Submit(o, out, {"approved"}) /\ {"approved"} \in SUBSET EventKinds
    BY <1>1 DEF ManualApprove
  <2>1. MainGood'
    BY <1>0, <1>1, <2>0, SubmitTypes DEF MainGood, MainType, MainPCs, BackOutPCs, LockedPCs, IdleMain, ManualApprove
  <2>2. TypeOK'
    BY <1>1, <2>1, <2>0, SubmitTypes DEF MainGood, ManualApprove, Pending
  <2>3. KnownSymbol'
    BY <1>1, <2>1, <2>0, SubmitTypes DEF MainGood, ManualApprove, Pending
  <2> QED BY <2>2, <2>3 DEF TypeInv
<1>2. ASSUME NEW o \in Orders, ManualReject(o) PROVE TypeInv'
  <2>1. MainGood'
    BY <1>0, <1>2 DEF MainGood, MainType, MainPCs, BackOutPCs, LockedPCs, IdleMain, ManualReject
  <2>2. TypeOK'
    BY <1>2, <2>1 DEF MainGood, ManualReject, Reject, Record, Pending
  <2>3. KnownSymbol'
    BY <1>2, <2>1 DEF MainGood, ManualReject, Reject, Record, Pending
  <2> QED BY <2>2, <2>3 DEF TypeInv
<1>3. ASSUME NEW s \in Symbols, ManualExit(s) PROVE TypeInv'
  <2>1. MainGood'
    BY <1>0, <1>3, CloseTypes DEF MainGood, MainType, MainPCs, BackOutPCs, LockedPCs, IdleMain, ManualExit
  <2>2. TypeOK'
    BY <1>3, <2>1, CloseTypes DEF MainGood, ManualExit
  <2>3. KnownSymbol'
    BY <1>3, <2>1, CloseTypes DEF MainGood, ManualExit
  <2> QED BY <2>2, <2>3 DEF TypeInv
<1> QED BY <1>1, <1>2, <1>3 DEF Dashboard

\* Closing the session and flattening keep every variable in its type.
LEMMA TypeFlatten == TypeInv /\ Flatten => TypeInv'
<1> SUFFICES ASSUME TypeInv, Flatten PROVE TypeInv'
  OBVIOUS
<1>0. MainGood
  BY DEF TypeInv, TypeOK, KnownSymbol, MainGood
<1> USE ConstantsAssumption, SetTypes DEF TypeInv, KnownSymbol, TypeOK,
        OnlyMain, storeVars, guardVars, benchVars,
        breakerVars, threadVars, ArmedStates, EventKinds
<1>1. ASSUME CloseSession PROVE TypeInv'
  <2>1. MainGood'
    BY <1>0, <1>1 DEF MainGood, MainType, MainPCs, BackOutPCs, LockedPCs, IdleMain, GoTo, CloseSession
  <2>2. TypeOK'
    BY <1>1, <2>1 DEF MainGood, CloseSession, TrigType, FlatType, IdleTrig, IdleFlat
  <2>3. KnownSymbol'
    BY <1>1, <2>1 DEF MainGood, CloseSession, TrigType, FlatType, IdleTrig, IdleFlat
  <2> QED BY <2>2, <2>3 DEF TypeInv
<1>2. ASSUME NEW o \in flat.todo, FlattenEntry(o) PROVE TypeInv'
  <2>0. o \in Orders
    BY DEF FlatType
  <2>1. MainGood'
    BY <1>0, <1>2, <2>0, CancelTypes DEF MainGood, MainType, MainPCs, BackOutPCs, LockedPCs, IdleMain, GoTo, FlattenEntry
  <2>2. TypeOK'
    BY <1>2, <2>1, <2>0, CancelTypes DEF MainGood, FlattenEntry, TrigType, FlatType, IdleTrig, IdleFlat, Disarm
  <2>3. KnownSymbol'
    BY <1>2, <2>1, <2>0, CancelTypes DEF MainGood, FlattenEntry, TrigType, FlatType, IdleTrig, IdleFlat, Disarm
  <2> QED BY <2>2, <2>3 DEF TypeInv
<1>3. ASSUME NEW o \in flat.todo, FlattenVanished(o) PROVE TypeInv'
  <2>1. MainGood'
    BY <1>0, <1>3 DEF MainGood, MainType, MainPCs, BackOutPCs, LockedPCs, IdleMain, GoTo, FlattenVanished
  <2>2. TypeOK'
    BY <1>3, <2>1 DEF MainGood, FlattenVanished, TrigType, FlatType, IdleTrig, IdleFlat
  <2>3. KnownSymbol'
    BY <1>3, <2>1 DEF MainGood, FlattenVanished, TrigType, FlatType, IdleTrig, IdleFlat
  <2> QED BY <2>2, <2>3 DEF TypeInv
<1>4. ASSUME NEW F \in SUBSET snap, FlattenPositions(F) PROVE TypeInv'
  <2>1. MainGood'
    BY <1>0, <1>4, CloseTypes DEF MainGood, MainType, MainPCs, BackOutPCs, LockedPCs, IdleMain, GoTo, FlattenPositions
  <2>2. TypeOK'
    BY <1>4, <2>1, CloseTypes DEF MainGood, FlattenPositions, TrigType, FlatType, IdleTrig, IdleFlat, GoTo
  <2>3. KnownSymbol'
    BY <1>4, <2>1, CloseTypes DEF MainGood, FlattenPositions, TrigType, FlatType, IdleTrig, IdleFlat, GoTo
  <2> QED BY <2>2, <2>3 DEF TypeInv
<1>5. ASSUME NEW F \in SUBSET Held, Sweep(F) PROVE TypeInv'
  <2>1. MainGood'
    BY <1>0, <1>5, CloseTypes DEF MainGood, MainType, MainPCs, BackOutPCs, LockedPCs, IdleMain, GoTo, Sweep
  <2>2. TypeOK'
    BY <1>5, <2>1, CloseTypes DEF MainGood, Sweep
  <2>3. KnownSymbol'
    BY <1>5, <2>1, CloseTypes DEF MainGood, Sweep
  <2> QED BY <2>2, <2>3 DEF TypeInv
<1> QED BY <1>1, <1>2, <1>3, <1>4, <1>5 DEF Flatten

\* The sync, the broker, time and a restart keep every variable in its type.
LEMMA TypeEnvironment == TypeInv /\ Environment => TypeInv'
<1> SUFFICES ASSUME TypeInv, Environment PROVE TypeInv'
  OBVIOUS
<1>0. MainGood
  BY DEF TypeInv, TypeOK, KnownSymbol, MainGood
<1> USE ConstantsAssumption, SetTypes DEF TypeInv, KnownSymbol, TypeOK,
        OnlyMain, storeVars, guardVars, benchVars,
        breakerVars, threadVars, ArmedStates, EventKinds
<1>1. ASSUME SyncPositions PROVE TypeInv'
  <2>1. MainGood'
    BY <1>0, <1>1 DEF MainGood, MainType, MainPCs, BackOutPCs, LockedPCs, IdleMain, BrokerMoves, SyncPositions
  <2>2. TypeOK'
    BY <1>1, <2>1 DEF MainGood, SyncPositions
  <2>3. KnownSymbol'
    BY <1>1, <2>1 DEF MainGood, SyncPositions
  <2> QED BY <2>2, <2>3 DEF TypeInv
<1>2. ASSUME NEW o \in Orders, Fill(o) PROVE TypeInv'
  <2>1. MainGood'
    BY <1>0, <1>2 DEF MainGood, MainType, MainPCs, BackOutPCs, LockedPCs, IdleMain, BrokerMoves, Fill
  <2>2. TypeOK'
    BY <1>2, <2>1 DEF MainGood, Fill, BrokerMoves, BrokerStates
  <2>3. KnownSymbol'
    BY <1>2, <2>1 DEF MainGood, Fill, BrokerMoves, BrokerStates
  <2> QED BY <2>2, <2>3 DEF TypeInv
<1>3. ASSUME NEW o \in Orders, BracketExit(o) PROVE TypeInv'
  <2>1. MainGood'
    BY <1>0, <1>3 DEF MainGood, MainType, MainPCs, BackOutPCs, LockedPCs, IdleMain, BrokerMoves, BracketExit
  <2>2. TypeOK'
    BY <1>3, <2>1 DEF MainGood, BracketExit, BrokerMoves, BrokerStates
  <2>3. KnownSymbol'
    BY <1>3, <2>1 DEF MainGood, BracketExit, BrokerMoves, BrokerStates
  <2> QED BY <2>2, <2>3 DEF TypeInv
<1>4. ASSUME NEW o \in Orders, OrderEnds(o) PROVE TypeInv'
  <2>1. MainGood'
    BY <1>0, <1>4 DEF MainGood, MainType, MainPCs, BackOutPCs, LockedPCs, IdleMain, BrokerMoves, OrderEnds
  <2>2. TypeOK'
    BY <1>4, <2>1 DEF MainGood, OrderEnds, BrokerMoves, BrokerStates
  <2>3. KnownSymbol'
    BY <1>4, <2>1 DEF MainGood, OrderEnds, BrokerMoves, BrokerStates
  <2> QED BY <2>2, <2>3 DEF TypeInv
<1>5. ASSUME NEW o \in Orders, Age(o) PROVE TypeInv'
  <2>1. MainGood'
    BY <1>0, <1>5 DEF MainGood, MainType, MainPCs, BackOutPCs, LockedPCs, IdleMain, BrokerMoves, Age
  <2>2. TypeOK'
    BY <1>5, <2>1 DEF MainGood, Age
  <2>3. KnownSymbol'
    BY <1>5, <2>1 DEF MainGood, Age
  <2> QED BY <2>2, <2>3 DEF TypeInv
<1>6. ASSUME NEW s \in Symbols, CooldownElapses(s) PROVE TypeInv'
  <2>1. MainGood'
    BY <1>0, <1>6 DEF MainGood, MainType, MainPCs, BackOutPCs, LockedPCs, IdleMain, BrokerMoves, CooldownElapses
  <2>2. TypeOK'
    BY <1>6, <2>1 DEF MainGood, CooldownElapses
  <2>3. KnownSymbol'
    BY <1>6, <2>1 DEF MainGood, CooldownElapses
  <2> QED BY <2>2, <2>3 DEF TypeInv
<1>7. ASSUME NewDay PROVE TypeInv'
  <2>1. MainGood'
    BY <1>0, <1>7 DEF MainGood, MainType, MainPCs, BackOutPCs, LockedPCs, IdleMain, BrokerMoves, NewDay
  <2>2. TypeOK'
    BY <1>7, <2>1 DEF MainGood, NewDay
  <2>3. KnownSymbol'
    BY <1>7, <2>1 DEF MainGood, NewDay
  <2> QED BY <2>2, <2>3 DEF TypeInv
<1>8. ASSUME Restart PROVE TypeInv'
  <2>1. MainGood'
    BY <1>0, <1>8, RestartTypes DEF MainGood, MainType, MainPCs, BackOutPCs, LockedPCs, IdleMain, BrokerMoves, Restart
  <2>2. TypeOK'
    BY <1>8, <2>1, RestartTypes DEF MainGood, Restart, BackOutPCs
  <2>3. KnownSymbol'
    BY <1>8, <2>1, RestartTypes DEF MainGood, Restart, BackOutPCs
  <2> QED BY <2>2, <2>3 DEF TypeInv
<1> QED BY <1>1, <1>2, <1>3, <1>4, <1>5, <1>6, <1>7, <1>8 DEF Environment

\* Every step of the service, the broker and the environment is well typed.
LEMMA TypeNext == TypeInv /\ [Next]_vars => TypeInv'
<1> SUFFICES ASSUME TypeInv, [Next]_vars PROVE TypeInv'
  OBVIOUS
<1>1. CASE UNCHANGED vars
  BY <1>1 DEF vars, TypeInv, TypeOK, KnownSymbol
<1> QED BY <1>1, TypeGuard, TypeTick, TypeTrigger, TypeDashboard, TypeFlatten,
           TypeEnvironment DEF Next

\* The service's variables have their types in every reachable state.
THEOREM TypeCorrect == Spec => []TypeOK
<1>1. Spec => []TypeInv
  BY TypeInit, TypeNext, PTL DEF Spec
<1>2. TypeInv => TypeOK
  BY DEF TypeInv
<1> QED BY <1>1, <1>2, PTL

-----------------------------------------------------------------------------
(***************************************************************************)
(* OneEntryPerSymbol.  It is not inductive: a new request looks at the set *)
(* requested, not at the orders, and the guard drops a symbol from the set *)
(* several unlocked steps after it decided to.                             *)
(***************************************************************************)

\* a tracked entry's symbol is remembered, but for those a restart forgot
Remembered == \A o \in Orders : Tracked(o) => sym[o] \in requested \cup stale

\* what is armed was approved, and so is not pending
ArmedApproved == \A o \in Orders : armed[o] # "no" => "approved" \in log[o]

\* While the guard backs an order out, no other entry of its symbol comes up:
\* the symbol is remembered, or the flatten of a breach dropped it and entries
\* are halted for good.
BackOutAlone ==
    main.pc \in BackOutPCs =>
        /\ "approved" \in log[main.order]
        /\ halted \/ sym[main.order] \in requested \cup stale
        /\ \A q \in Orders \ {main.order} :
              Tracked(q) /\ sym[q] = sym[main.order] => sym[q] \in stale

\* a flatten with entries left to cancel is the breach's or the day's end
FlattenCause == flat.todo # {} => halted \/ main.pc = "eod"

EntryInv ==
    /\ TypeInv
    /\ Remembered
    /\ ArmedApproved
    /\ OneEntryPerSymbol
    /\ BackOutAlone
    /\ FlattenCause

\* The service starts with nothing tracked.
LEMMA EntryInit == Init => EntryInv
<1> SUFFICES ASSUME Init PROVE EntryInv
  OBVIOUS
<1>1. TypeInv
  BY TypeInit
<1>2. \A o \in Orders : ~Tracked(o) /\ armed[o] = "no"
  BY DEF Init, Tracked, Pending
<1>3. main.pc \notin BackOutPCs /\ flat.todo = {}
  BY IdleTypes DEF Init, BackOutPCs
<1> QED BY <1>1, <1>2, <1>3
        DEF EntryInv, Remembered, ArmedApproved, OneEntryPerSymbol, BackOutAlone, FlattenCause

\* What a step must do to the events, the armed entries and the remembered symbols
\* when it makes no new entry and forgets no symbol.
Calm ==
    /\ stale' = stale /\ sym' = sym /\ requested \subseteq requested'
    /\ halted => halted'
    /\ \A o \in Orders : Tracked(o)' => Tracked(o)
    /\ \A o \in Orders : log[o] \subseteq log'[o]
    /\ \A o \in Orders : armed'[o] # "no" => "approved" \in log'[o]

\* the guard backs out the order it was backing out, if any
SameBackOut ==
    main'.pc \in BackOutPCs => main.pc \in BackOutPCs /\ main'.order = main.order

\* Steps that only resolve entries keep the invariant.
LEMMA EntryKept ==
    ASSUME EntryInv, TypeInv', FlattenCause', Calm, SameBackOut
    PROVE  EntryInv'
<1>1. main'.pc \in BackOutPCs => main'.order \in Orders
  BY DEF TypeInv, TypeOK
<1>2. Remembered'
  BY DEF EntryInv, Remembered, Calm
<1>3. ArmedApproved'
  BY DEF ArmedApproved, Calm
<1>4. OneEntryPerSymbol'
  BY DEF EntryInv, OneEntryPerSymbol, Calm
<1>5. BackOutAlone'
  BY <1>1 DEF EntryInv, BackOutAlone, Calm, SameBackOut
<1> QED BY <1>2, <1>3, <1>4, <1>5 DEF EntryInv

\* A step that resolves the order o and forgets its symbol keeps the invariant, if
\* no other entry of the symbol is tracked.
LEMMA EntryDropped ==
    ASSUME EntryInv, TypeInv', FlattenCause', SameBackOut, NEW o \in Orders,
           stale' = stale, sym' = sym, requested' = requested \ {sym[o]},
           halted => halted', ~Tracked(o)',
           \A q \in Orders : Tracked(q)' => Tracked(q),
           \A q \in Orders : log[q] \subseteq log'[q],
           \A q \in Orders : armed'[q] # "no" => "approved" \in log'[q],
           \A q \in Orders \ {o} : Tracked(q) /\ sym[q] = sym[o] => sym[q] \in stale,
           main'.pc \in BackOutPCs =>
               halted \/ sym[main.order] # sym[o] \/ sym[main.order] \in stale
    PROVE  EntryInv'
<1>1. main'.pc \in BackOutPCs => main'.order \in Orders
  BY DEF TypeInv, TypeOK
<1>2. Remembered'
  BY DEF EntryInv, Remembered
<1>3. ArmedApproved'
  BY DEF ArmedApproved
<1>4. OneEntryPerSymbol'
  BY DEF EntryInv, OneEntryPerSymbol
<1>5. BackOutAlone'
  BY <1>1 DEF EntryInv, BackOutAlone, SameBackOut
<1> QED BY <1>2, <1>3, <1>4, <1>5 DEF EntryInv

\* A new request for a symbol that passed the dedup keeps the invariant: a tracked
\* entry of that symbol would be remembered, or stale.
LEMMA EntryRequested ==
    ASSUME EntryInv, TypeInv', FlattenCause', SameBackOut,
           NEW s \in Symbols, NEW o \in Orders, Eligible(s), Unused(o),
           stale' = stale, requested' = requested \cup {s}, halted' = halted,
           sym' = [sym EXCEPT ![o] = s],
           \A q \in Orders \ {o} : log'[q] = log[q] /\ armed'[q] = armed[q],
           armed'[o] # "no" => "approved" \in log'[o],
           main'.pc \in BackOutPCs => ~halted
    PROVE  EntryInv'
<1> USE DEF TypeInv, TypeOK
<1>1. \A q \in Orders \ {o} : /\ sym'[q] = sym[q]
                              /\ Tracked(q)' <=> Tracked(q)
  BY DEF Tracked, Pending
<1>2. sym'[o] = s /\ s \notin requested
  BY DEF Eligible
<1>3. \A q \in Orders \ {o} : Tracked(q) /\ sym[q] = s => s \in stale
  BY <1>2 DEF EntryInv, Remembered
<1>4. Remembered'
  BY <1>1, <1>2 DEF EntryInv, Remembered
<1>5. ArmedApproved'
  BY DEF EntryInv, ArmedApproved
<1>6. OneEntryPerSymbol'
  BY <1>1, <1>2, <1>3 DEF EntryInv, OneEntryPerSymbol
<1>7. BackOutAlone'
  <2> SUFFICES ASSUME main'.pc \in BackOutPCs PROVE BackOutAlone'
    BY DEF BackOutAlone
  <2>1. main'.order = main.order /\ main.order \in Orders \ {o}
    BY DEF SameBackOut, EntryInv, BackOutAlone, Unused
  <2>2. sym[main.order] \in requested \cup stale
    BY DEF SameBackOut, EntryInv, BackOutAlone
  <2>3. ASSUME sym'[main.order] = s PROVE s \in stale
    BY <1>1, <1>2, <2>1, <2>2, <2>3
  <2>4. "approved" \in log'[main.order] /\ sym'[main.order] \in requested' \cup stale'
    BY <1>1, <2>1, <2>2 DEF SameBackOut, EntryInv, BackOutAlone
  <2>5. ASSUME NEW q \in Orders \ {main.order}, Tracked(q)', sym'[q] = sym'[main.order]
        PROVE  sym'[q] \in stale'
    <3>1. CASE q = o
      BY <3>1, <1>2, <2>3, <2>5
    <3>2. CASE q # o
      BY <3>2, <1>1, <2>1, <2>5 DEF SameBackOut, EntryInv, BackOutAlone
    <3> QED BY <3>1, <3>2
  <2> QED BY <2>1, <2>4, <2>5 DEF BackOutAlone
<1> QED BY <1>4, <1>5, <1>6, <1>7 DEF EntryInv

\* A pass of the guard keeps the entries unique, its back-out included.
LEMMA EntryGuard == EntryInv /\ TypeInv' /\ ExpireStaleEntries => EntryInv'
<1> SUFFICES ASSUME EntryInv, TypeInv', ExpireStaleEntries PROVE EntryInv'
  OBVIOUS
<1>0. TypeOK /\ ArmedApproved /\ FlattenCause
  BY DEF EntryInv, TypeInv
<1> USE DEF OnlyMain, storeVars, guardVars, benchVars,
        breakerVars, threadVars
<1>1. ASSUME NEW B \in SUBSET prevHeld, NoteExits(B) PROVE EntryInv'
  <2>1. Calm
    BY <1>0, <1>1 DEF Calm, Tracked, Pending, ArmedApproved, TypeOK, NoteExits
  <2>2. SameBackOut /\ FlattenCause'
    BY <1>0, <1>1, IdleTypes DEF SameBackOut, FlattenCause, TypeOK,
       MainType, MainPCs, BackOutPCs, LockedPCs, IdleMain, GoTo, Skip, Scanning, NoteExits
  <2> QED BY <2>1, <2>2, EntryKept
<1>2. ASSUME NoteExitsUnread PROVE EntryInv'
  <2>1. Calm
    BY <1>0, <1>2 DEF Calm, Tracked, Pending, ArmedApproved, TypeOK, NoteExitsUnread
  <2>2. SameBackOut /\ FlattenCause'
    BY <1>0, <1>2, IdleTypes DEF SameBackOut, FlattenCause, TypeOK,
       MainType, MainPCs, BackOutPCs, LockedPCs, IdleMain, GoTo, Skip, Scanning, NoteExitsUnread
  <2> QED BY <2>1, <2>2, EntryKept
<1>3. ASSUME NEW held \in {Held, snap}, ReadOrders(held) PROVE EntryInv'
  <2>1. Calm
    BY <1>0, <1>3 DEF Calm, Tracked, Pending, ArmedApproved, TypeOK, ReadOrders
  <2>2. SameBackOut /\ FlattenCause'
    BY <1>0, <1>3, IdleTypes DEF SameBackOut, FlattenCause, TypeOK,
       MainType, MainPCs, BackOutPCs, LockedPCs, IdleMain, GoTo, Skip, Scanning, ReadOrders
  <2> QED BY <2>1, <2>2, EntryKept
<1>4. ASSUME ListArmed PROVE EntryInv'
  <2>1. Calm
    BY <1>0, <1>4 DEF Calm, Tracked, Pending, ArmedApproved, TypeOK, ListArmed
  <2>2. SameBackOut /\ FlattenCause'
    BY <1>0, <1>4, IdleTypes DEF SameBackOut, FlattenCause, TypeOK,
       MainType, MainPCs, BackOutPCs, LockedPCs, IdleMain, GoTo, Skip, Scanning, ListArmed
  <2> QED BY <2>1, <2>2, EntryKept
<1>5. ASSUME NEW o \in main.todo, ScanVanished(o) PROVE EntryInv'
  <2>1. Calm
    BY <1>0, <1>5 DEF Calm, Tracked, Pending, ArmedApproved, TypeOK, ScanVanished
  <2>2. SameBackOut /\ FlattenCause'
    BY <1>0, <1>5, IdleTypes DEF SameBackOut, FlattenCause, TypeOK,
       MainType, MainPCs, BackOutPCs, LockedPCs, IdleMain, GoTo, Skip, Scanning, ScanVanished
  <2> QED BY <2>1, <2>2, EntryKept
<1>6. ASSUME NEW o \in main.todo, ScanFilled(o) PROVE EntryInv'
  <2>1. Calm
    BY <1>0, <1>6 DEF Calm, Tracked, Pending, ArmedApproved, TypeOK, ScanFilled, Disarm
  <2>2. SameBackOut /\ FlattenCause'
    BY <1>0, <1>6, IdleTypes DEF SameBackOut, FlattenCause, TypeOK,
       MainType, MainPCs, BackOutPCs, LockedPCs, IdleMain, GoTo, Skip, Scanning, ScanFilled, Disarm
  <2> QED BY <2>1, <2>2, EntryKept
<1>7. ASSUME NEW o \in main.todo, ScanCancelled(o) PROVE EntryInv'
  <2>1. /\ o \in Orders /\ armed[o] # "no" /\ Tracked(o)
        /\ Skip(o) \in MainType /\ Skip(o).pc = "scan"
    BY <1>0, <1>7 DEF ScanCancelled, Scanning, Unresolved, Tracked, Skip, MainType, TypeOK
  <2>2. main'.pc \in BackOutPCs /\ main'.order = o /\ main'.pc # "eod"
    BY <1>7, <2>1 DEF ScanCancelled, MainType, BackOutPCs
  <2>3. Calm
    BY <1>0, <1>7 DEF Calm, Tracked, Pending, ArmedApproved, TypeOK, ScanCancelled, Disarm
  <2>4. FlattenCause'
    BY <1>0, <1>7, <2>1 DEF FlattenCause, ScanCancelled, Scanning
  <2>5. BackOutAlone'
    BY <1>0, <1>7, <2>1, <2>2, <2>3
    DEF BackOutAlone, EntryInv, Remembered, ArmedApproved, OneEntryPerSymbol, Calm, ScanCancelled
  <2>6. Remembered' /\ ArmedApproved' /\ OneEntryPerSymbol'
    BY <2>3 DEF Calm, EntryInv, Remembered, ArmedApproved, OneEntryPerSymbol
  <2> QED BY <2>4, <2>5, <2>6 DEF EntryInv
<1>8. ASSUME NEW o \in main.todo, ScanKeeps(o) PROVE EntryInv'
  <2>1. Calm
    BY <1>0, <1>8 DEF Calm, Tracked, Pending, ArmedApproved, TypeOK, ScanKeeps
  <2>2. SameBackOut /\ FlattenCause'
    BY <1>0, <1>8, IdleTypes DEF SameBackOut, FlattenCause, TypeOK,
       MainType, MainPCs, BackOutPCs, LockedPCs, IdleMain, GoTo, Skip, Scanning, ScanKeeps
  <2> QED BY <2>1, <2>2, EntryKept
<1>9. ASSUME NEW o \in main.todo, ScanStale(o) PROVE EntryInv'
  <2>1. /\ o \in Orders /\ armed[o] # "no" /\ Tracked(o)
        /\ Skip(o) \in MainType /\ Skip(o).pc = "scan"
    BY <1>0, <1>9 DEF ScanStale, Scanning, Unresolved, Tracked, Skip, MainType, TypeOK
  <2>2. main'.pc \in BackOutPCs /\ main'.order = o /\ main'.pc # "eod"
    BY <1>9, <2>1 DEF ScanStale, MainType, BackOutPCs
  <2>3. Calm
    BY <1>0, <1>9 DEF Calm, Tracked, Pending, ArmedApproved, TypeOK, ScanStale, Disarm
  <2>4. FlattenCause'
    BY <1>0, <1>9, <2>1 DEF FlattenCause, ScanStale, Scanning
  <2>5. BackOutAlone'
    BY <1>0, <1>9, <2>1, <2>2, <2>3
    DEF BackOutAlone, EntryInv, Remembered, ArmedApproved, OneEntryPerSymbol, Calm, ScanStale
  <2>6. Remembered' /\ ArmedApproved' /\ OneEntryPerSymbol'
    BY <2>3 DEF Calm, EntryInv, Remembered, ArmedApproved, OneEntryPerSymbol
  <2> QED BY <2>4, <2>5, <2>6 DEF EntryInv
<1>10. ASSUME BackOutCancel PROVE EntryInv'
  <2>1. Calm
    BY <1>0, <1>10 DEF Calm, Tracked, Pending, ArmedApproved, TypeOK, BackOutCancel, CancelEntry, Record
  <2>2. SameBackOut /\ FlattenCause'
    BY <1>0, <1>10, IdleTypes DEF SameBackOut, FlattenCause, TypeOK,
       MainType, MainPCs, BackOutPCs, LockedPCs, IdleMain, GoTo, Skip, Scanning, BackOutCancel, CancelEntry, Record
  <2> QED BY <2>1, <2>2, EntryKept
<1>11. ASSUME BackOutBench PROVE EntryInv'
  <2>1. Calm
    BY <1>0, <1>11 DEF Calm, Tracked, Pending, ArmedApproved, TypeOK, BackOutBench
  <2>2. SameBackOut /\ FlattenCause'
    BY <1>0, <1>11, IdleTypes DEF SameBackOut, FlattenCause, TypeOK,
       MainType, MainPCs, BackOutPCs, LockedPCs, IdleMain, GoTo, Skip, Scanning, BackOutBench
  <2> QED BY <2>1, <2>2, EntryKept
<1>12. ASSUME ReleaseRead PROVE EntryInv'
  <2>1. Calm
    BY <1>0, <1>12 DEF Calm, Tracked, Pending, ArmedApproved, TypeOK, ReleaseRead
  <2>2. SameBackOut /\ FlattenCause'
    BY <1>0, <1>12, IdleTypes DEF SameBackOut, FlattenCause, TypeOK,
       MainType, MainPCs, BackOutPCs, LockedPCs, IdleMain, GoTo, Skip, Scanning, ReleaseRead
  <2> QED BY <2>1, <2>2, EntryKept
<1>13. ASSUME ReleaseWrite PROVE EntryInv'
  <2>1. Calm
    BY <1>0, <1>13 DEF Calm, Tracked, Pending, ArmedApproved, TypeOK, ReleaseWrite
  <2>2. SameBackOut /\ FlattenCause'
    BY <1>0, <1>13, IdleTypes DEF SameBackOut, FlattenCause, TypeOK,
       MainType, MainPCs, BackOutPCs, LockedPCs, IdleMain, GoTo, Skip, Scanning, ReleaseWrite
  <2> QED BY <2>1, <2>2, EntryKept
<1>14. ASSUME Forget PROVE EntryInv'
  <2>1. /\ main.order \in Orders /\ "approved" \in log[main.order]
        /\ main'.pc = "scan" /\ main.pc = "forget"
    BY <1>0, <1>14 DEF Forget, EntryInv, BackOutAlone, BackOutPCs, TypeOK, MainType
  <2>2. SameBackOut /\ FlattenCause'
    BY <1>0, <1>14, <2>1 DEF SameBackOut, FlattenCause, BackOutPCs, Forget
  <2>3. \A q \in Orders : /\ Tracked(q)' => Tracked(q) /\ q # main.order
                          /\ armed'[q] # "no" => "approved" \in log'[q]
    BY <1>0, <1>14, <2>1 DEF Forget, Disarm, Tracked, Pending, ArmedApproved, TypeOK
  <2>4. \A q \in Orders \ {main.order} :
            Tracked(q) /\ sym[q] = sym[main.order] => sym[q] \in stale
    BY <2>1 DEF EntryInv, BackOutAlone, BackOutPCs
  <2>5. /\ stale' = stale /\ sym' = sym /\ requested' = requested \ {sym[main.order]}
        /\ halted' = halted /\ log' = log
    BY <1>14 DEF Forget
  <2> QED BY <2>1, <2>2, <2>3, <2>4, <2>5, EntryDropped DEF BackOutPCs
<1>15. ASSUME ScanDone PROVE EntryInv'
  <2>1. Calm
    BY <1>0, <1>15 DEF Calm, Tracked, Pending, ArmedApproved, TypeOK, ScanDone
  <2>2. SameBackOut /\ FlattenCause'
    BY <1>0, <1>15, IdleTypes DEF SameBackOut, FlattenCause, TypeOK,
       MainType, MainPCs, BackOutPCs, LockedPCs, IdleMain, GoTo, Skip, Scanning, ScanDone
  <2> QED BY <2>1, <2>2, EntryKept
<1> QED BY <1>1, <1>2, <1>3, <1>4, <1>5, <1>6, <1>7, <1>8, <1>9, <1>10, <1>11, <1>12, <1>13, <1>14, <1>15 DEF ExpireStaleEntries

\* The trigger thread never doubles an entry.
LEMMA EntryTrigger == EntryInv /\ TypeInv' /\ Trigger => EntryInv'
<1> SUFFICES ASSUME EntryInv, TypeInv', Trigger PROVE EntryInv'
  OBVIOUS
<1>0. TypeOK /\ ArmedApproved /\ FlattenCause
  BY DEF EntryInv, TypeInv
<1> USE DEF OnlyMain, storeVars, guardVars, benchVars,
        breakerVars, threadVars
<1>1. ASSUME NEW s \in Symbols, NEW o \in Orders, NEW r \in Reads, NEW out \in Outcomes, TriggerSubmit(s, o, r, out) PROVE EntryInv'
  <2>1. /\ Eligible(s) /\ Unused(o) /\ ~halted /\ main' = main /\ flat' = flat
        /\ stale' = stale /\ requested' = requested \cup {s} /\ halted' = halted
        /\ sym' = [sym EXCEPT ![o] = s]
        /\ Submit(o, out, {"requested", "approved"})
    BY <1>1 DEF TriggerSubmit, Blocked
  <2>2. SameBackOut /\ FlattenCause'
    BY <1>0, <2>1 DEF SameBackOut, FlattenCause
  <2>3. /\ "approved" \in log'[o]
        /\ \A q \in Orders \ {o} : log'[q] = log[q] /\ armed'[q] = armed[q]
    BY <1>0, <2>1 DEF Submit, Record, TypeOK
  <2> QED BY <2>1, <2>2, <2>3, EntryRequested
<1>2. ASSUME TriggerCount PROVE EntryInv'
  <2>1. Calm
    BY <1>0, <1>2 DEF Calm, Tracked, Pending, ArmedApproved, TypeOK, TriggerCount
  <2>2. SameBackOut /\ FlattenCause'
    BY <1>0, <1>2, IdleTypes DEF SameBackOut, FlattenCause, TypeOK,
       MainType, MainPCs, BackOutPCs, LockedPCs, IdleMain, GoTo, Skip, Scanning, TriggerCount
  <2> QED BY <2>1, <2>2, EntryKept
<1>3. ASSUME NEW r \in Reads, TriggerSkip(r) PROVE EntryInv'
  <2>1. Calm
    BY <1>0, <1>3 DEF Calm, Tracked, Pending, ArmedApproved, TypeOK, TriggerSkip
  <2>2. SameBackOut /\ FlattenCause'
    BY <1>0, <1>3, IdleTypes DEF SameBackOut, FlattenCause, TypeOK,
       MainType, MainPCs, BackOutPCs, LockedPCs, IdleMain, GoTo, Skip, Scanning, TriggerSkip
  <2> QED BY <2>1, <2>2, EntryKept
<1>4. ASSUME TriggerBreach PROVE EntryInv'
  <2>1. Calm
    BY <1>0, <1>4 DEF Calm, Tracked, Pending, ArmedApproved, TypeOK, TriggerBreach, FlatType, IdleFlat
  <2>2. SameBackOut /\ FlattenCause'
    BY <1>0, <1>4, IdleTypes DEF SameBackOut, FlattenCause, TypeOK,
       MainType, MainPCs, BackOutPCs, LockedPCs, IdleMain, GoTo, Skip, Scanning, TriggerBreach, FlatType, IdleFlat
  <2> QED BY <2>1, <2>2, EntryKept
<1> QED BY <1>1, <1>2, <1>3, <1>4 DEF Trigger

\* The execution tick never doubles an entry.
LEMMA EntryTick == EntryInv /\ TypeInv' /\ Tick => EntryInv'
<1> SUFFICES ASSUME EntryInv, TypeInv', Tick PROVE EntryInv'
  OBVIOUS
<1>0. TypeOK /\ ArmedApproved /\ FlattenCause
  BY DEF EntryInv, TypeInv
<1> USE DEF OnlyMain, storeVars, guardVars, benchVars,
        breakerVars, threadVars
<1>1. ASSUME TickStart PROVE EntryInv'
  <2>1. Calm
    BY <1>0, <1>1 DEF Calm, Tracked, Pending, ArmedApproved, TypeOK, TickStart
  <2>2. SameBackOut /\ FlattenCause'
    BY <1>0, <1>1, IdleTypes DEF SameBackOut, FlattenCause, TypeOK,
       MainType, MainPCs, BackOutPCs, LockedPCs, IdleMain, GoTo, Skip, Scanning, TickStart
  <2> QED BY <2>1, <2>2, EntryKept
<1>2. ASSUME NEW r \in Reads, TickOpen(r) PROVE EntryInv'
  <2>1. Calm
    BY <1>0, <1>2 DEF Calm, Tracked, Pending, ArmedApproved, TypeOK, TickOpen
  <2>2. SameBackOut /\ FlattenCause'
    BY <1>0, <1>2, IdleTypes DEF SameBackOut, FlattenCause, TypeOK,
       MainType, MainPCs, BackOutPCs, LockedPCs, IdleMain, GoTo, Skip, Scanning, TickOpen
  <2> QED BY <2>1, <2>2, EntryKept
<1>3. ASSUME TickBreach PROVE EntryInv'
  <2>1. Calm
    BY <1>0, <1>3 DEF Calm, Tracked, Pending, ArmedApproved, TypeOK, TickBreach, FlatType, IdleFlat
  <2>2. SameBackOut /\ FlattenCause'
    BY <1>0, <1>3, IdleTypes DEF SameBackOut, FlattenCause, TypeOK,
       MainType, MainPCs, BackOutPCs, LockedPCs, IdleMain, GoTo, Skip, Scanning, TickBreach, FlatType, IdleFlat
  <2> QED BY <2>1, <2>2, EntryKept
<1>4. ASSUME NEW s \in Symbols, NEW o \in Orders, TickRequest(s, o) PROVE EntryInv'
  <2>1. /\ Eligible(s) /\ Unused(o) /\ main.pc = "signals" /\ flat' = flat
        /\ stale' = stale /\ requested' = requested \cup {s} /\ halted' = halted
        /\ sym' = [sym EXCEPT ![o] = s] /\ armed' = armed
        /\ log' = [log EXCEPT ![o] = @ \cup {"requested"}]
    BY <1>4 DEF TickRequest, Record
  <2>2. main'.pc = "signals"
    BY <1>0, <1>4 DEF TickRequest, TypeOK, MainType
  <2>3. SameBackOut /\ FlattenCause'
    BY <1>0, <2>1, <2>2 DEF SameBackOut, FlattenCause, BackOutPCs
  <2>4. /\ armed'[o] # "no" => "approved" \in log'[o]
        /\ \A q \in Orders \ {o} : log'[q] = log[q] /\ armed'[q] = armed[q]
    BY <1>0, <2>1 DEF ArmedApproved, TypeOK
  <2> QED BY <2>1, <2>2, <2>3, <2>4, EntryRequested DEF BackOutPCs
<1>5. ASSUME NEW s \in Symbols, TickSkip(s) PROVE EntryInv'
  <2>1. Calm
    BY <1>0, <1>5 DEF Calm, Tracked, Pending, ArmedApproved, TypeOK, TickSkip
  <2>2. SameBackOut /\ FlattenCause'
    BY <1>0, <1>5, IdleTypes DEF SameBackOut, FlattenCause, TypeOK,
       MainType, MainPCs, BackOutPCs, LockedPCs, IdleMain, GoTo, Skip, Scanning, TickSkip
  <2> QED BY <2>1, <2>2, EntryKept
<1>6. ASSUME TickSignalsDone PROVE EntryInv'
  <2>1. Calm
    BY <1>0, <1>6 DEF Calm, Tracked, Pending, ArmedApproved, TypeOK, TickSignalsDone
  <2>2. SameBackOut /\ FlattenCause'
    BY <1>0, <1>6, IdleTypes DEF SameBackOut, FlattenCause, TypeOK,
       MainType, MainPCs, BackOutPCs, LockedPCs, IdleMain, GoTo, Skip, Scanning, TickSignalsDone
  <2> QED BY <2>1, <2>2, EntryKept
<1>7. ASSUME NEW o \in Orders, NEW out \in Outcomes, ApproveAuto(o, out) PROVE EntryInv'
  <2>1. Calm
    BY <1>0, <1>7 DEF Calm, Tracked, Pending, ArmedApproved, TypeOK, ApproveAuto, Approving, Submit, Record
  <2>2. SameBackOut /\ FlattenCause'
    BY <1>0, <1>7, IdleTypes DEF SameBackOut, FlattenCause, TypeOK,
       MainType, MainPCs, BackOutPCs, LockedPCs, IdleMain, GoTo, Skip, Scanning, ApproveAuto, Approving, Submit, Record
  <2> QED BY <2>1, <2>2, EntryKept
<1>8. ASSUME NEW o \in Orders, RejectCapped(o) PROVE EntryInv'
  <2>1. /\ Pending(o) /\ Tracked(o) /\ Reject(o) /\ armed' = armed /\ flat' = flat
        /\ main' = main /\ halted' = halted /\ stale' = stale /\ sym' = sym
    BY <1>8 DEF RejectCapped, Approving, Tracked
  <2>2. SameBackOut /\ FlattenCause'
    BY <1>0, <2>1 DEF SameBackOut, FlattenCause
  <2>3. /\ log' = [log EXCEPT ![o] = @ \cup {"rejected"}]
        /\ requested' = requested \ {sym[o]}
    BY <2>1 DEF Reject, Record
  <2>4. armed[o] = "no"
    BY <1>0, <2>1 DEF ArmedApproved, Pending
  <2>5. \A q \in Orders : /\ Tracked(q)' => Tracked(q) /\ q # o
                          /\ log[q] \subseteq log'[q]
                          /\ armed'[q] # "no" => "approved" \in log'[q]
    BY <1>0, <2>1, <2>3, <2>4 DEF Tracked, Pending, ArmedApproved, TypeOK
  <2>6. \A q \in Orders \ {o} : Tracked(q) /\ sym[q] = sym[o] => sym[q] \in stale
    BY <2>1 DEF EntryInv, OneEntryPerSymbol
  <2>7. main.pc \in BackOutPCs => sym[main.order] # sym[o] \/ sym[main.order] \in stale
    BY <2>1 DEF EntryInv, BackOutAlone, Pending
  <2> QED BY <2>1, <2>2, <2>3, <2>5, <2>6, <2>7, EntryDropped
<1>9. ASSUME TickDone PROVE EntryInv'
  <2>1. Calm
    BY <1>0, <1>9 DEF Calm, Tracked, Pending, ArmedApproved, TypeOK, TickDone
  <2>2. SameBackOut /\ FlattenCause'
    BY <1>0, <1>9, IdleTypes DEF SameBackOut, FlattenCause, TypeOK,
       MainType, MainPCs, BackOutPCs, LockedPCs, IdleMain, GoTo, Skip, Scanning, TickDone
  <2> QED BY <2>1, <2>2, EntryKept
<1> QED BY <1>1, <1>2, <1>3, <1>4, <1>5, <1>6, <1>7, <1>8, <1>9 DEF Tick

\* A decision taken on the dashboard never doubles an entry.
LEMMA EntryDashboard == EntryInv /\ TypeInv' /\ Dashboard => EntryInv'
<1> SUFFICES ASSUME EntryInv, TypeInv', Dashboard PROVE EntryInv'
  OBVIOUS
<1>0. TypeOK /\ ArmedApproved /\ FlattenCause
  BY DEF EntryInv, TypeInv
<1> USE DEF OnlyMain, storeVars, guardVars, benchVars,
        breakerVars, threadVars
<1>1. ASSUME NEW o \in Orders, NEW out \in Outcomes, ManualApprove(o, out) PROVE EntryInv'
  <2>1. Calm
    BY <1>0, <1>1 DEF Calm, Tracked, Pending, ArmedApproved, TypeOK, ManualApprove, Submit, Record
  <2>2. SameBackOut /\ FlattenCause'
    BY <1>0, <1>1, IdleTypes DEF SameBackOut, FlattenCause, TypeOK,
       MainType, MainPCs, BackOutPCs, LockedPCs, IdleMain, GoTo, Skip, Scanning, ManualApprove, Submit, Record
  <2> QED BY <2>1, <2>2, EntryKept
<1>2. ASSUME NEW o \in Orders, ManualReject(o) PROVE EntryInv'
  <2>1. /\ Pending(o) /\ Tracked(o) /\ Reject(o) /\ armed' = armed /\ flat' = flat
        /\ main' = main /\ halted' = halted /\ stale' = stale /\ sym' = sym
    BY <1>2 DEF ManualReject, Approving, Tracked
  <2>2. SameBackOut /\ FlattenCause'
    BY <1>0, <2>1 DEF SameBackOut, FlattenCause
  <2>3. /\ log' = [log EXCEPT ![o] = @ \cup {"rejected"}]
        /\ requested' = requested \ {sym[o]}
    BY <2>1 DEF Reject, Record
  <2>4. armed[o] = "no"
    BY <1>0, <2>1 DEF ArmedApproved, Pending
  <2>5. \A q \in Orders : /\ Tracked(q)' => Tracked(q) /\ q # o
                          /\ log[q] \subseteq log'[q]
                          /\ armed'[q] # "no" => "approved" \in log'[q]
    BY <1>0, <2>1, <2>3, <2>4 DEF Tracked, Pending, ArmedApproved, TypeOK
  <2>6. \A q \in Orders \ {o} : Tracked(q) /\ sym[q] = sym[o] => sym[q] \in stale
    BY <2>1 DEF EntryInv, OneEntryPerSymbol
  <2>7. main.pc \in BackOutPCs => sym[main.order] # sym[o] \/ sym[main.order] \in stale
    BY <2>1 DEF EntryInv, BackOutAlone, Pending
  <2> QED BY <2>1, <2>2, <2>3, <2>5, <2>6, <2>7, EntryDropped
<1>3. ASSUME NEW s \in Symbols, ManualExit(s) PROVE EntryInv'
  <2>1. Calm
    BY <1>0, <1>3 DEF Calm, Tracked, Pending, ArmedApproved, TypeOK, ManualExit
  <2>2. SameBackOut /\ FlattenCause'
    BY <1>0, <1>3, IdleTypes DEF SameBackOut, FlattenCause, TypeOK,
       MainType, MainPCs, BackOutPCs, LockedPCs, IdleMain, GoTo, Skip, Scanning, ManualExit
  <2> QED BY <2>1, <2>2, EntryKept
<1> QED BY <1>1, <1>2, <1>3 DEF Dashboard

\* A flatten forgets a symbol only with its entry.
LEMMA EntryFlatten == EntryInv /\ TypeInv' /\ Flatten => EntryInv'
<1> SUFFICES ASSUME EntryInv, TypeInv', Flatten PROVE EntryInv'
  OBVIOUS
<1>0. TypeOK /\ ArmedApproved /\ FlattenCause
  BY DEF EntryInv, TypeInv
<1> USE DEF OnlyMain, storeVars, guardVars, benchVars,
        breakerVars, threadVars
<1>1. ASSUME CloseSession PROVE EntryInv'
  <2>1. Calm
    BY <1>0, <1>1 DEF Calm, Tracked, Pending, ArmedApproved, TypeOK, CloseSession, FlatType, IdleFlat
  <2>2. SameBackOut /\ FlattenCause'
    BY <1>0, <1>1, IdleTypes DEF SameBackOut, FlattenCause, TypeOK,
       MainType, MainPCs, BackOutPCs, LockedPCs, IdleMain, GoTo, Skip, Scanning, CloseSession, FlatType, IdleFlat
  <2> QED BY <2>1, <2>2, EntryKept
<1>2. ASSUME NEW o \in flat.todo, FlattenEntry(o) PROVE EntryInv'
  <2>1. /\ o \in Orders /\ Tracked(o) /\ "approved" \in log[o] /\ flat.todo # {}
        /\ main' = main /\ halted' = halted /\ stale' = stale /\ sym' = sym
        /\ requested' = requested \ {sym[o]}
    BY <1>0, <1>2 DEF FlattenEntry, Tracked, ArmedApproved, TypeOK, FlatType
  <2>2. SameBackOut /\ FlattenCause'
    BY <1>0, <2>1 DEF SameBackOut, FlattenCause
  <2>3. /\ log' = [log EXCEPT ![o] = @ \cup {"cancelled"}]
        /\ armed' = [armed EXCEPT ![o] = "no"]
    BY <1>2 DEF FlattenEntry, CancelEntry, Record, Disarm
  <2>5. \A q \in Orders : /\ Tracked(q)' => Tracked(q) /\ q # o
                          /\ log[q] \subseteq log'[q]
                          /\ armed'[q] # "no" => "approved" \in log'[q]
    BY <1>0, <2>1, <2>3 DEF Tracked, Pending, ArmedApproved, TypeOK
  <2>6. \A q \in Orders \ {o} : Tracked(q) /\ sym[q] = sym[o] => sym[q] \in stale
    BY <2>1 DEF EntryInv, OneEntryPerSymbol
  <2>7. main.pc \in BackOutPCs => halted
    BY <1>0, <2>1 DEF FlattenCause, BackOutPCs
  <2> QED BY <2>1, <2>2, <2>3, <2>5, <2>6, <2>7, EntryDropped
<1>3. ASSUME NEW o \in flat.todo, FlattenVanished(o) PROVE EntryInv'
  <2>1. Calm
    BY <1>0, <1>3 DEF Calm, Tracked, Pending, ArmedApproved, TypeOK, FlattenVanished, FlatType, IdleFlat
  <2>2. SameBackOut /\ FlattenCause'
    BY <1>0, <1>3, IdleTypes DEF SameBackOut, FlattenCause, TypeOK,
       MainType, MainPCs, BackOutPCs, LockedPCs, IdleMain, GoTo, Skip, Scanning, FlattenVanished, FlatType, IdleFlat
  <2> QED BY <2>1, <2>2, EntryKept
<1>4. ASSUME NEW F \in SUBSET snap, FlattenPositions(F) PROVE EntryInv'
  <2>1. Calm
    BY <1>0, <1>4 DEF Calm, Tracked, Pending, ArmedApproved, TypeOK, FlattenPositions, FlatType, IdleFlat
  <2>2. SameBackOut /\ FlattenCause'
    BY <1>0, <1>4, IdleTypes DEF SameBackOut, FlattenCause, TypeOK,
       MainType, MainPCs, BackOutPCs, LockedPCs, IdleMain, GoTo, Skip, Scanning, FlattenPositions, FlatType, IdleFlat
  <2> QED BY <2>1, <2>2, EntryKept
<1>5. ASSUME NEW F \in SUBSET Held, Sweep(F) PROVE EntryInv'
  <2>1. Calm
    BY <1>0, <1>5 DEF Calm, Tracked, Pending, ArmedApproved, TypeOK, Sweep
  <2>2. SameBackOut /\ FlattenCause'
    BY <1>0, <1>5, IdleTypes DEF SameBackOut, FlattenCause, TypeOK,
       MainType, MainPCs, BackOutPCs, LockedPCs, IdleMain, GoTo, Skip, Scanning, Sweep
  <2> QED BY <2>1, <2>2, EntryKept
<1> QED BY <1>1, <1>2, <1>3, <1>4, <1>5 DEF Flatten

\* The sync, the broker, time and a restart keep the entries unique.
LEMMA EntryEnvironment == EntryInv /\ TypeInv' /\ Environment => EntryInv'
<1> SUFFICES ASSUME EntryInv, TypeInv', Environment PROVE EntryInv'
  OBVIOUS
<1>0. TypeOK /\ ArmedApproved /\ FlattenCause
  BY DEF EntryInv, TypeInv
<1> USE DEF OnlyMain, storeVars, guardVars, benchVars,
        breakerVars, threadVars
<1>1. ASSUME SyncPositions PROVE EntryInv'
  <2>1. Calm
    BY <1>0, <1>1 DEF Calm, Tracked, Pending, ArmedApproved, TypeOK, SyncPositions
  <2>2. SameBackOut /\ FlattenCause'
    BY <1>0, <1>1, IdleTypes DEF SameBackOut, FlattenCause, TypeOK,
       MainType, MainPCs, BackOutPCs, LockedPCs, IdleMain, GoTo, Skip, Scanning, SyncPositions
  <2> QED BY <2>1, <2>2, EntryKept
<1>2. ASSUME NEW o \in Orders, Fill(o) PROVE EntryInv'
  <2>1. Calm
    BY <1>0, <1>2 DEF Calm, Tracked, Pending, ArmedApproved, TypeOK, Fill, BrokerMoves
  <2>2. SameBackOut /\ FlattenCause'
    BY <1>0, <1>2, IdleTypes DEF SameBackOut, FlattenCause, TypeOK,
       MainType, MainPCs, BackOutPCs, LockedPCs, IdleMain, GoTo, Skip, Scanning, Fill, BrokerMoves
  <2> QED BY <2>1, <2>2, EntryKept
<1>3. ASSUME NEW o \in Orders, BracketExit(o) PROVE EntryInv'
  <2>1. Calm
    BY <1>0, <1>3 DEF Calm, Tracked, Pending, ArmedApproved, TypeOK, BracketExit, BrokerMoves
  <2>2. SameBackOut /\ FlattenCause'
    BY <1>0, <1>3, IdleTypes DEF SameBackOut, FlattenCause, TypeOK,
       MainType, MainPCs, BackOutPCs, LockedPCs, IdleMain, GoTo, Skip, Scanning, BracketExit, BrokerMoves
  <2> QED BY <2>1, <2>2, EntryKept
<1>4. ASSUME NEW o \in Orders, OrderEnds(o) PROVE EntryInv'
  <2>1. Calm
    BY <1>0, <1>4 DEF Calm, Tracked, Pending, ArmedApproved, TypeOK, OrderEnds, BrokerMoves
  <2>2. SameBackOut /\ FlattenCause'
    BY <1>0, <1>4, IdleTypes DEF SameBackOut, FlattenCause, TypeOK,
       MainType, MainPCs, BackOutPCs, LockedPCs, IdleMain, GoTo, Skip, Scanning, OrderEnds, BrokerMoves
  <2> QED BY <2>1, <2>2, EntryKept
<1>5. ASSUME NEW o \in Orders, Age(o) PROVE EntryInv'
  <2>1. Calm
    BY <1>0, <1>5 DEF Calm, Tracked, Pending, ArmedApproved, TypeOK, Age
  <2>2. SameBackOut /\ FlattenCause'
    BY <1>0, <1>5, IdleTypes DEF SameBackOut, FlattenCause, TypeOK,
       MainType, MainPCs, BackOutPCs, LockedPCs, IdleMain, GoTo, Skip, Scanning, Age
  <2> QED BY <2>1, <2>2, EntryKept
<1>6. ASSUME NEW s \in Symbols, CooldownElapses(s) PROVE EntryInv'
  <2>1. Calm
    BY <1>0, <1>6 DEF Calm, Tracked, Pending, ArmedApproved, TypeOK, CooldownElapses
  <2>2. SameBackOut /\ FlattenCause'
    BY <1>0, <1>6, IdleTypes DEF SameBackOut, FlattenCause, TypeOK,
       MainType, MainPCs, BackOutPCs, LockedPCs, IdleMain, GoTo, Skip, Scanning, CooldownElapses
  <2> QED BY <2>1, <2>2, EntryKept
<1>7. ASSUME NewDay PROVE EntryInv'
  <2>1. Calm
    BY <1>0, <1>7 DEF Calm, Tracked, Pending, ArmedApproved, TypeOK, NewDay
  <2>2. SameBackOut /\ FlattenCause'
    BY <1>0, <1>7, IdleTypes DEF SameBackOut, FlattenCause, TypeOK,
       MainType, MainPCs, BackOutPCs, LockedPCs, IdleMain, GoTo, Skip, Scanning, NewDay
  <2> QED BY <2>1, <2>2, EntryKept
<1>8. ASSUME Restart PROVE EntryInv'
  <2>1. /\ main' = IdleMain /\ flat' = IdleFlat /\ requested' = {} /\ log' = log
        /\ sym' = sym /\ stale' = stale \cup PendingSymbols
        /\ armed' = [q \in Orders |-> "no"]
    BY <1>8 DEF Restart
  <2>2. \A q \in Orders : Tracked(q)' => Pending(q) /\ sym'[q] \in stale'
    BY <2>1 DEF Tracked, Pending, PendingSymbols
  <2>3. Remembered' /\ ArmedApproved' /\ OneEntryPerSymbol'
    BY <2>1, <2>2 DEF Remembered, ArmedApproved, OneEntryPerSymbol
  <2>4. BackOutAlone' /\ FlattenCause'
    BY <2>1, IdleTypes DEF BackOutAlone, FlattenCause, BackOutPCs
  <2> QED BY <2>3, <2>4 DEF EntryInv
<1> QED BY <1>1, <1>2, <1>3, <1>4, <1>5, <1>6, <1>7, <1>8 DEF Environment

\* Every step keeps the inductive invariant.
LEMMA EntryNext == EntryInv /\ [Next]_vars => EntryInv'
<1> SUFFICES ASSUME EntryInv, [Next]_vars PROVE EntryInv'
  OBVIOUS
<1>1. TypeInv'
  BY TypeNext DEF EntryInv
<1>2. CASE UNCHANGED vars
  <2>1. Calm /\ SameBackOut /\ FlattenCause'
    BY <1>2 DEF vars, Calm, SameBackOut, FlattenCause, Tracked, Pending, EntryInv,
       ArmedApproved
  <2> QED BY <1>1, <2>1, EntryKept
<1> QED BY <1>1, <1>2, EntryGuard, EntryTick, EntryTrigger, EntryDashboard, EntryFlatten,
           EntryEnvironment DEF Next

\* A symbol has at most one entry that is pending or armed, in every reachable state,
\* but for the symbols whose requests a restart left pending.
THEOREM EntriesUnique == Spec => []OneEntryPerSymbol
<1>1. Spec => []EntryInv
  BY EntryInit, EntryNext, PTL DEF Spec
<1>2. EntryInv => OneEntryPerSymbol
  BY DEF EntryInv
<1> QED BY <1>1, <1>2, PTL
=============================================================================

----------------------------- MODULE LiveProofs -----------------------------
(***************************************************************************)
(* Proofs about the clocks of the live loop: the scheduler's days          *)
(* (TradingDays), the trigger thread with the book (TriggerBook), the      *)
(* broker client under its threads (BrokerClient) and its walk over the    *)
(* order history (OrderPages).  The theorems about the days are of their   *)
(* own Spec; the others are of LiveSpec, whose behaviours are those of one *)
(* part while the others stand still.                                      *)
(***************************************************************************)
EXTENDS MCLive, FiniteSetTheorems, SequenceTheorems, WellFoundedInduction, TLAPS

-----------------------------------------------------------------------------
(* The days of the scheduler: type correctness *)

\* What the assumption says of the constants one by one.
LEMMA Widths ==
    /\ Days \in Nat \ {0} /\ Open \in Nat \ {0} /\ Early \in Nat \ {0}
    /\ Full \in Nat \ {0} /\ NormalLead \in Nat \ {0} /\ PreLead \in Nat \ {0}
    /\ MaxEntries \in Nat /\ MaxBoots \in Nat /\ MaxErrors \in Nat
    /\ Early <= Full
    /\ NormalLead <= Early - Open /\ PreLead <= Early - Open
  BY DaysAssumption DEF DaysAssumption

\* A day and a slot are a moment.
LEMMA Moments ==
    ASSUME NEW d \in 0..Days, NEW t \in 0..Full
    PROVE  <<d, t>> \in (0..Days) \X (0..Full)
  OBVIOUS

\* The process starts well typed.
LEMMA TypeInit == Init => TypeOK
<1> SUFFICES ASSUME Init PROVE TypeOK
  OBVIOUS
<1>1. upSince \in (0..Days) \X (0..Full)
  <2>1. 0 \in 0..Days /\ 0 \in 0..Full
    BY Widths
  <2>2. <<0, 0>> \in (0..Days) \X (0..Full)
    BY <2>1, Moments
  <2> QED BY <2>2, Zenon DEF Init
<1>2. {up, eodDone, catchupDone, sessionClosed} \subseteq BOOLEAN
  BY DEF Init
<1>3. day \in 1..Days /\ slot \in 0..Full /\ closedOn \in 0..Days
  BY Widths DEF Init
<1>4. bought \in [Symbols -> 0..Days]
  BY Widths DEF Init
<1>5. entries \in 0..MaxEntries /\ boots \in 0..MaxBoots /\ errs \in 0..MaxErrors
  BY Widths DEF Init
<1> QED BY <1>1, <1>2, <1>3, <1>4, <1>5 DEF Init, TypeOK

\* A pass of one of the steps puts in exits of held positions only.
LEMMA ClosingTypes ==
    ASSUME TypeOK, NEW T, T \subseteq held, NEW C, Closing(T, C)
    PROVE  exits' \subseteq held /\ errs' \in 0..MaxErrors
<1>1. CASE C = T
  BY <1>1, Widths DEF Closing, TypeOK
<1>2. CASE C # T
  BY <1>2, Widths DEF Closing, TypeOK
<1> QED BY <1>1, <1>2

\* Every step is well typed.
LEMMA TypeNext == TypeOK /\ [Next]_vars => TypeOK'
<1> SUFFICES ASSUME TypeOK, [Next]_vars PROVE TypeOK'
  OBVIOUS
<1>1. CASE Tick
  BY <1>1, Widths DEF Tick, TypeOK, holdings, flags, Steps
<1>2. ASSUME NEW s \in Symbols, Enters(s) PROVE TypeOK'
  BY <1>2, Widths DEF Enters, TypeOK, calendar, flags
<1>3. ASSUME NEW s \in Symbols, Exits(s) PROVE TypeOK'
  BY <1>3 DEF Exits, TypeOK, calendar, flags
<1>4. CASE StepEod
  <2>1. exits' \subseteq held /\ errs' \in 0..MaxErrors
    BY <1>4, ClosingTypes DEF StepEod
  <2>2. closedOn' \in 0..Days /\ eodDone' \in BOOLEAN
    BY <1>4, Widths DEF StepEod, TypeOK
  <2> QED BY <1>4, <2>1, <2>2 DEF StepEod, TypeOK, calendar, Steps
<1>5. CASE StepCatchup
  <2>1. Carries \subseteq held
    BY DEF Carries
  <2>2. exits' \subseteq held /\ errs' \in 0..MaxErrors /\ catchupDone' \in BOOLEAN
    BY <1>5, <2>1, ClosingTypes DEF StepCatchup
  <2> QED BY <1>5, <2>2 DEF StepCatchup, TypeOK, calendar, Steps
<1>6. CASE StepEodIdle \/ StepCatchupIdle
  BY <1>6 DEF StepEodIdle, StepCatchupIdle, TypeOK, calendar, holdings, flags, Steps
<1>7. CASE Boot
  <2>1. <<day, slot>> \in (0..Days) \X (0..Full)
    <3>1. day \in 0..Days /\ slot \in 0..Full
      BY Widths DEF TypeOK
    <3> QED BY <3>1, Moments
  <2>2. upSince' \in (0..Days) \X (0..Full)
    BY <1>7, <2>1, Zenon DEF Boot
  <2>3. {up', eodDone', catchupDone', sessionClosed'} \subseteq BOOLEAN
    BY <1>7 DEF Boot
  <2>4. boots' \in 0..MaxBoots /\ closedOn' \in 0..Days
    BY <1>7, Widths DEF Boot, TypeOK
  <2> QED BY <1>7, <2>2, <2>3, <2>4 DEF Boot, TypeOK, calendar, holdings
<1>8. CASE Crash
  BY <1>8 DEF Crash, TypeOK, calendar, holdings, flags
<1>9. CASE UNCHANGED vars
  BY <1>9 DEF vars, TypeOK, calendar, holdings, flags
<1> QED BY <1>1, <1>2, <1>3, <1>4, <1>5, <1>6, <1>7, <1>8, <1>9 DEF Next

\* Every variable has its type in every reachable state.
THEOREM DaysTyped == Spec => []TypeOK
  BY TypeInit, TypeNext, PTL DEF Spec

-----------------------------------------------------------------------------
(***************************************************************************)
(* DoneLeavesNone is not inductive: what keeps an entry from coming in     *)
(* behind the flatten is that the session was closed before it.            *)
(***************************************************************************)

DoneInv ==
    /\ TypeOK
    /\ eodDone => sessionClosed
    /\ DoneLeavesNone

\* No flatten is done at the start.
LEMMA DoneInit == Init => DoneInv
  BY TypeInit DEF Init, DoneInv, DoneLeavesNone

\* The flatten closes the session, and no later step undoes its exits.
LEMMA DoneNext == DoneInv /\ [Next]_vars => DoneInv'
<1> SUFFICES ASSUME DoneInv, [Next]_vars PROVE DoneInv'
  OBVIOUS
<1> USE DEF DoneInv, DoneLeavesNone
<1>0. TypeOK'
  BY TypeNext
<1>1. CASE Tick
  BY <1>0, <1>1 DEF Tick, holdings, flags
<1>2. ASSUME NEW s \in Symbols, Enters(s) PROVE DoneInv'
  BY <1>0, <1>2 DEF Enters, flags
<1>3. ASSUME NEW s \in Symbols, Exits(s) PROVE DoneInv'
  BY <1>0, <1>3 DEF Exits, flags
<1>4. CASE StepEod
  BY <1>0, <1>4 DEF StepEod, Closing
<1>5. CASE StepCatchup
  BY <1>0, <1>5 DEF StepCatchup, Closing
<1>6. CASE StepEodIdle \/ StepCatchupIdle
  BY <1>0, <1>6 DEF StepEodIdle, StepCatchupIdle, holdings, flags
<1>7. CASE Boot \/ Crash
  BY <1>0, <1>7 DEF Boot, Crash, holdings, flags
<1>8. CASE UNCHANGED vars
  BY <1>0, <1>8 DEF vars, holdings, flags
<1> QED BY <1>1, <1>2, <1>3, <1>4, <1>5, <1>6, <1>7, <1>8 DEF Next

\* Once step_eod_flatten is done, every position has its exit order for as long as
\* the process lives.
THEOREM DoneFlat == Spec => []DoneLeavesNone
<1>1. Spec => []DoneInv
  BY DoneInit, DoneNext, PTL DEF Spec
<1>2. DoneInv => DoneLeavesNone
  BY DEF DoneInv
<1> QED BY <1>1, <1>2, PTL

-----------------------------------------------------------------------------
(* What a step may do *)

\* The window of the flatten lies within regular hours, whatever its width.
LEMMA WindowOpen == TypeOK /\ close \in Calendars /\ FlattenDue => IsRegularHours
<1> SUFFICES ASSUME TypeOK, FlattenDue PROVE IsRegularHours
  OBVIOUS
<1>1. close[day] \in {0, Early, Full} /\ close[day] > 0
  BY Widths DEF TypeOK, FlattenDue, IsTradingDay, Calendars
<1>2. Lead(day) \in {PreLead, NormalLead}
  BY DEF Lead
<1>3. Lead(day) <= close[day] - Open
  BY <1>1, <1>2, Widths
<1> QED BY <1>1, <1>2, <1>3, Widths
        DEF FlattenDue, IsRegularHours, IsTradingDay, WindowEnd, TypeOK

\* A step that puts an exit in finds the market open.
LEMMA ExitStep == TypeOK /\ [Next]_vars => exits' \subseteq exits \/ IsRegularHours
<1> SUFFICES ASSUME TypeOK, [Next]_vars, ~IsRegularHours PROVE exits' \subseteq exits
  OBVIOUS
<1>1. ~StepEod
  BY WindowOpen DEF StepEod, TypeOK
<1>2. ~StepCatchup
  BY DEF StepCatchup
<1>3. CASE Tick \/ StepEodIdle \/ StepCatchupIdle \/ Boot \/ Crash
  BY <1>3 DEF Tick, StepEodIdle, StepCatchupIdle, Boot, Crash, holdings
<1>4. ASSUME NEW s \in Symbols, Enters(s) \/ Exits(s) PROVE exits' \subseteq exits
  BY <1>4 DEF Enters, Exits
<1>5. CASE UNCHANGED vars
  BY <1>5 DEF vars, holdings
<1> QED BY <1>1, <1>2, <1>3, <1>4, <1>5 DEF Next

\* A step that puts an exit in for a position of the day has closed the session.
LEMMA TodayStep ==
    TypeOK /\ [Next]_vars => \A s \in exits' \ exits : bought[s] = day => sessionClosed'
<1> SUFFICES ASSUME TypeOK, [Next]_vars, NEW s \in exits' \ exits, bought[s] = day
             PROVE  sessionClosed'
  OBVIOUS
<1>1. CASE StepEod
  BY <1>1 DEF StepEod
<1>2. CASE StepCatchup
  BY <1>2 DEF StepCatchup, Closing, Carries
<1>3. CASE Tick \/ StepEodIdle \/ StepCatchupIdle \/ Boot \/ Crash
  BY <1>3 DEF Tick, StepEodIdle, StepCatchupIdle, Boot, Crash, holdings
<1>4. ASSUME NEW t \in Symbols, Enters(t) \/ Exits(t) PROVE FALSE
  BY <1>4 DEF Enters, Exits
<1>5. CASE UNCHANGED vars
  BY <1>5 DEF vars, holdings
<1> QED BY <1>1, <1>2, <1>3, <1>4, <1>5 DEF Next

\* No flatten puts an exit in while the market is shut, for any calendar and any
\* windows that fit between the open and an early close.
THEOREM ExitsOpen == Spec => ExitsInSession
<1>1. TypeOK /\ [Next]_vars => [exits' \subseteq exits \/ IsRegularHours]_vars
  BY ExitStep
<1> QED BY <1>1, DaysTyped, PTL DEF Spec, ExitsInSession

\* The catch-up of the open never closes a position of the day.
THEOREM TodayHeld == Spec => TodayKept
<1>1. TypeOK /\ [Next]_vars
        => [\A s \in exits' \ exits : bought[s] = day => sessionClosed']_vars
  BY TodayStep
<1> QED BY <1>1, DaysTyped, PTL DEF Spec, TodayKept

-----------------------------------------------------------------------------
(***************************************************************************)
(* In time.  What the properties need of a pass is counted slot by slot:   *)
(* time passes only when each step ran, so each slot of the window that a  *)
(* process has lived through without finishing its flatten cost an error.  *)
(***************************************************************************)

\* A process was started today or earlier.
Since == upSince[1] <= day

\* Of the last n slots of the window, each that is over, and the present one once its
\* pass ran, was an error, unless the flatten is done or the process is younger.
Missed ==
    \A n \in 1..Full :
        /\ up /\ IsTradingDay(day) /\ n <= Lead(day) /\ ~eodDone
        /\ upSince[1] < day \/ upSince[2] <= close[day] - n
        => /\ slot >= close[day] => errs >= n
           /\ slot < close[day] /\ slot >= close[day] - n =>
                /\ errs >= slot - (close[day] - n)
                /\ "eod" \in ran => errs >= slot - (close[day] - n) + 1

\* A process started today has an exit for every carry when its catch-up is done, or
\* when its pass of the open is over and nothing failed.
Caught ==
    up /\ upSince[1] = day /\ IsTradingDay(day) =>
        /\ catchupDone => Carries \subseteq exits
        /\ /\ upSince[2] <= Open /\ errs = 0
           /\ slot > Open \/ (slot = Open /\ "catchup" \in ran)
           => Carries \subseteq exits

TimeInv == DoneInv /\ Since /\ Missed /\ Caught

\* The window lies between the open and the close of its day, at least a slot wide.
Fits ==
    /\ Lead(day) \in Nat /\ Lead(day) >= 1 /\ close[day] \in Nat
    /\ slot \in Nat /\ errs \in Nat /\ day \in Nat
    /\ upSince[1] \in Nat /\ upSince[2] \in Nat
    /\ IsTradingDay(day) =>
        /\ Lead(day) <= close[day] - Open
        /\ close[day] <= Full
        /\ PreClosure(day) => PreLead <= Lead(day)

\* So the assumption on the constants has it.
LEMMA LeadFits == TypeOK => Fits
<1> SUFFICES ASSUME TypeOK PROVE Fits
  OBVIOUS
<1>1. close[day] \in {0, Early, Full}
  BY Widths DEF TypeOK, Calendars
<1>2. Lead(day) \in {PreLead, NormalLead} /\ (PreClosure(day) => PreLead <= Lead(day))
  BY Widths DEF Lead
<1>3. /\ slot \in Nat /\ errs \in Nat /\ day \in Nat
      /\ upSince[1] \in Nat /\ upSince[2] \in Nat
  BY Widths DEF TypeOK
<1> QED BY <1>1, <1>2, <1>3, Widths DEF Fits, IsTradingDay

\* The calendar is set once.
LEMMA SameDay ==
    ASSUME UNCHANGED <<close, day>>
    PROVE  /\ Lead(day)' = Lead(day) /\ IsTradingDay(day)' = IsTradingDay(day)
           /\ PreClosure(day)' = PreClosure(day)
  BY DEF Lead, IsTradingDay, PreClosure, DaysToNextSession, NextTradingDay

\* No process runs at the start.
LEMMA TimeInit == Init => TimeInv
  BY DoneInit DEF Init, TimeInv, Since, Missed, Caught

\* Time passes after each step ran.
LEMMA TickKeeps == TimeInv /\ TypeOK' /\ Tick => Since' /\ Missed' /\ Caught'
<1> SUFFICES ASSUME TimeInv, TypeOK', Tick PROVE Since' /\ Missed' /\ Caught'
  OBVIOUS
<1>0. TypeOK /\ Since /\ Missed /\ Caught
  BY DEF TimeInv, DoneInv
<1>1. /\ ran' = {} /\ close' = close
      /\ UNCHANGED <<up, eodDone, catchupDone, upSince, held, bought, exits>>
      /\ up => ran = Steps
  BY DEF Tick, flags, holdings
<1>2. CASE slot < Full
  <2>1. slot' = slot + 1 /\ day' = day /\ errs' = errs
    BY <1>2 DEF Tick
  <2>2. /\ Lead(day)' = Lead(day) /\ IsTradingDay(day)' = IsTradingDay(day)
        /\ Carries' = Carries
    BY <1>1, <2>1, SameDay DEF Carries
  <2>3. Missed'
    <3>1. ASSUME NEW n \in 1..Full, up, IsTradingDay(day), n <= Lead(day), ~eodDone,
                 upSince[1] < day \/ upSince[2] <= close[day] - n
          PROVE  /\ slot + 1 >= close[day] => errs >= n
                 /\ slot + 1 < close[day] /\ slot + 1 >= close[day] - n =>
                        errs >= slot + 1 - (close[day] - n)
      <4>1. "eod" \in ran
        BY <1>1, <3>1 DEF Steps
      <4>2. /\ slot >= close[day] => errs >= n
            /\ slot < close[day] /\ slot >= close[day] - n =>
                  errs >= slot - (close[day] - n) + 1
        BY <1>0, <3>1, <4>1 DEF Missed
      <4>3. /\ slot \in Nat /\ errs \in Nat /\ close[day] \in Nat /\ Lead(day) \in Nat
            /\ n \in Nat /\ n >= 1
        BY <1>0, LeadFits, Widths DEF Fits
      <4> QED BY <4>2, <4>3
    <3>2. day' = day /\ close'[day'] = close[day] /\ "eod" \notin ran'
      BY <1>1, <2>1
    <3>3. ASSUME NEW n \in 1..Full, up', IsTradingDay(day)', n <= Lead(day)', ~eodDone',
                 upSince'[1] < day' \/ upSince'[2] <= close'[day'] - n
          PROVE  /\ slot' >= close'[day'] => errs' >= n
                 /\ slot' < close'[day'] /\ slot' >= close'[day'] - n =>
                        errs' >= slot' - (close'[day'] - n)
      <4>1. /\ up /\ IsTradingDay(day) /\ n <= Lead(day) /\ ~eodDone
            /\ upSince[1] < day \/ upSince[2] <= close[day] - n
        BY <1>1, <2>1, <2>2, <3>2, <3>3
      <4>2. /\ slot + 1 >= close[day] => errs >= n
            /\ slot + 1 < close[day] /\ slot + 1 >= close[day] - n =>
                   errs >= slot + 1 - (close[day] - n)
        BY <3>1, <4>1
      <4>3. slot \in Nat /\ errs \in Nat /\ close[day] \in Nat /\ n \in Nat
        BY <1>0, LeadFits, Widths DEF Fits
      <4>4. slot' = slot + 1 /\ errs' = errs /\ close'[day'] = close[day]
        BY <2>1, <3>2
      <4> QED BY <4>2, <4>3, <4>4
    <3> QED BY <3>2, <3>3 DEF Missed
  <2>4. Caught'
    <3>1. ASSUME up, upSince[1] = day, IsTradingDay(day), upSince[2] <= Open, errs = 0,
                 slot + 1 > Open
          PROVE  Carries \subseteq exits
      <4>1. "catchup" \in ran /\ (slot > Open \/ slot = Open)
        BY <1>0, <1>1, <3>1, LeadFits, Widths DEF Steps, Fits
      <4> QED BY <1>0, <3>1, <4>1 DEF Caught
    <3>2. "catchup" \notin ran'
      BY <1>1
    <3> QED BY <1>0, <1>1, <2>1, <2>2, <3>1, <3>2 DEF Caught
  <2> QED BY <1>0, <1>1, <2>1, <2>3, <2>4 DEF Since
<1>3. CASE ~(slot < Full)
  <2>1. slot' = 0 /\ day' = day + 1 /\ errs' = 0 /\ upSince' = upSince /\ upSince[1] < day'
    BY <1>0, <1>1, <1>3, LeadFits DEF Tick, Since, Fits
  <2>2. /\ Lead(day)' \in Nat /\ close'[day'] \in Nat /\ upSince[1] \in Nat /\ day \in Nat
        /\ IsTradingDay(day)' => Lead(day)' <= close'[day'] - Open
    <3>1. Fits'
      BY LeadFits, PTL
    <3> QED BY <3>1, <1>0, LeadFits DEF Fits
  <2>3. Missed'
    <3>1. ASSUME NEW n \in 1..Full, IsTradingDay(day)', n <= Lead(day)'
          PROVE  slot' < close'[day'] /\ ~(slot' >= close'[day'] - n)
      <4>1. n \in Nat
        BY Widths
      <4> QED BY <2>1, <2>2, <3>1, <4>1, Widths
    <3> QED BY <3>1, <2>1, <2>2 DEF Missed
  <2>4. Caught'
    BY <2>1, <2>2 DEF Caught
  <2> QED BY <2>1, <2>2, <2>3, <2>4 DEF Since
<1> QED BY <1>2, <1>3

\* The flatten of the window: done, or an error.
LEMMA EodKeeps ==
    TimeInv /\ TypeOK' /\ (StepEod \/ StepEodIdle) => Since' /\ Missed' /\ Caught'
<1> SUFFICES ASSUME TimeInv, TypeOK', StepEod \/ StepEodIdle PROVE Since' /\ Missed' /\ Caught'
  OBVIOUS
<1>0. TypeOK /\ Since /\ Missed /\ Caught /\ Fits
  BY LeadFits DEF TimeInv, DoneInv
<1>1. /\ UNCHANGED <<close, day, slot, up, catchupDone, upSince, held, bought>>
      /\ ran' = ran \cup {"eod"} /\ "eod" \notin ran
  BY DEF StepEod, StepEodIdle, calendar, holdings, flags
<1>2. /\ Lead(day)' = Lead(day) /\ IsTradingDay(day)' = IsTradingDay(day)
      /\ Carries' = Carries
  BY <1>1, SameDay DEF Carries
<1>3. exits \subseteq exits' /\ errs' \in Nat /\ (errs' = errs \/ errs' = errs + 1)
  BY <1>0, Widths DEF StepEod, StepEodIdle, Closing, holdings, TypeOK
<1>4. ~eodDone' => ~eodDone /\ (FlattenDue => errs' = errs + 1)
  <2>1. CASE StepEod
    <3>1. PICK C : Closing(held, C) /\ eodDone' = (C = held) /\ ~eodDone
      BY <2>1 DEF StepEod
    <3> QED BY <3>1 DEF Closing
  <2>2. CASE StepEodIdle
    <3>1. eodDone' = eodDone /\ (eodDone \/ ~FlattenDue)
      BY <2>2 DEF StepEodIdle, flags
    <3> QED BY <3>1
  <2> QED BY <2>1, <2>2
<1>5. Missed'
  <2>1. ASSUME NEW n \in 1..Full, up, IsTradingDay(day), n <= Lead(day), ~eodDone',
               upSince[1] < day \/ upSince[2] <= close[day] - n
        PROVE  /\ slot >= close[day] => errs' >= n
               /\ slot < close[day] /\ slot >= close[day] - n =>
                    errs' >= slot - (close[day] - n) /\ errs' >= slot - (close[day] - n) + 1
    <3>1. /\ slot >= close[day] => errs >= n
          /\ slot < close[day] /\ slot >= close[day] - n => errs >= slot - (close[day] - n)
      BY <1>0, <1>4, <2>1 DEF Missed
    <3>2. /\ slot \in Nat /\ errs \in Nat /\ close[day] \in Nat /\ Lead(day) \in Nat
          /\ n \in Nat
      BY <1>0, Widths DEF Fits
    <3>3. slot < close[day] /\ slot >= close[day] - n => FlattenDue
      BY <2>1, <3>2 DEF FlattenDue, WindowEnd
    <3> QED BY <1>3, <1>4, <2>1, <3>1, <3>2, <3>3
  <2> QED BY <1>1, <1>2, <2>1 DEF Missed
<1>6. Caught'
  <2>1. errs' = 0 => errs = 0
    BY <1>0, <1>3 DEF Fits
  <2>2. "catchup" \in ran' => "catchup" \in ran
    BY <1>1
  <2> QED BY <1>0, <1>1, <1>2, <1>3, <2>1, <2>2 DEF Caught
<1> QED BY <1>0, <1>1, <1>5, <1>6 DEF Since

\* The catch-up: every carry gets its exit, or the pass is an error.
LEMMA CatchupKeeps ==
    TimeInv /\ TypeOK' /\ (StepCatchup \/ StepCatchupIdle) => Since' /\ Missed' /\ Caught'
<1> SUFFICES ASSUME TimeInv, TypeOK', StepCatchup \/ StepCatchupIdle
             PROVE  Since' /\ Missed' /\ Caught'
  OBVIOUS
<1>0. TypeOK /\ Since /\ Missed /\ Caught /\ Fits
  BY LeadFits DEF TimeInv, DoneInv
<1>1. /\ UNCHANGED <<close, day, slot, up, eodDone, upSince, held, bought>>
      /\ ran' = ran \cup {"catchup"}
  BY DEF StepCatchup, StepCatchupIdle, calendar, holdings, flags
<1>2. /\ Lead(day)' = Lead(day) /\ IsTradingDay(day)' = IsTradingDay(day)
      /\ Carries' = Carries
  BY <1>1, SameDay DEF Carries
<1>3. exits \subseteq exits' /\ errs' \in Nat /\ errs' >= errs
  BY <1>0, Widths DEF StepCatchup, StepCatchupIdle, Closing, holdings, TypeOK
<1>4. Missed'
  <2>1. ASSUME NEW n \in 1..Full, up, IsTradingDay(day), n <= Lead(day), ~eodDone,
               upSince[1] < day \/ upSince[2] <= close[day] - n
        PROVE  /\ slot >= close[day] => errs' >= n
               /\ slot < close[day] /\ slot >= close[day] - n =>
                    /\ errs' >= slot - (close[day] - n)
                    /\ "eod" \in ran' => errs' >= slot - (close[day] - n) + 1
    <3>1. /\ slot >= close[day] => errs >= n
          /\ slot < close[day] /\ slot >= close[day] - n =>
                /\ errs >= slot - (close[day] - n)
                /\ "eod" \in ran => errs >= slot - (close[day] - n) + 1
      BY <1>0, <2>1 DEF Missed
    <3>2. slot \in Nat /\ errs \in Nat /\ close[day] \in Nat /\ n \in Nat
      BY <1>0, Widths DEF Fits
    <3>3. "eod" \in ran' => "eod" \in ran
      BY <1>1
    <3> QED BY <1>3, <3>1, <3>2, <3>3
  <2> QED BY <1>1, <1>2, <2>1 DEF Missed
<1>5. Caught'
  <2>1. IsTradingDay(day) /\ slot = Open => IsRegularHours
    BY <1>0, Widths DEF Fits, IsRegularHours
  <2>2. \/ Carries \subseteq exits'
        \/ ~catchupDone' /\ errs' # 0
        \/ catchupDone' = catchupDone /\ errs' = errs /\ (catchupDone \/ ~IsRegularHours)
    BY <1>0, Widths DEF StepCatchup, StepCatchupIdle, Closing, flags, TypeOK
  <2> QED BY <1>0, <1>1, <1>2, <1>3, <2>1, <2>2 DEF Caught
<1> QED BY <1>0, <1>1, <1>4, <1>5 DEF Since

\* Entries and exits, and the process that starts or dies.
LEMMA OthersKeep ==
    TimeInv /\ TypeOK' /\ ((\E s \in Symbols : Enters(s) \/ Exits(s)) \/ Boot \/ Crash)
        => Since' /\ Missed' /\ Caught'
<1> SUFFICES ASSUME TimeInv, TypeOK', (\E s \in Symbols : Enters(s) \/ Exits(s)) \/ Boot \/ Crash
             PROVE  Since' /\ Missed' /\ Caught'
  OBVIOUS
<1>0. TypeOK /\ Since /\ Missed /\ Caught /\ Fits
  BY LeadFits DEF TimeInv, DoneInv
<1>1. UNCHANGED <<close, day, slot, errs>>
  BY DEF Enters, Exits, Boot, Crash, calendar
<1>2. /\ Lead(day)' = Lead(day) /\ IsTradingDay(day)' = IsTradingDay(day)
  BY <1>1, SameDay
<1>3. ASSUME NEW s \in Symbols, Enters(s) \/ Exits(s) PROVE Since' /\ Missed' /\ Caught'
  <2>1. UNCHANGED <<up, ran, upSince, eodDone, catchupDone>>
    BY <1>3 DEF Enters, Exits, flags
  <2>2. Carries \subseteq exits => Carries' \subseteq exits'
    BY <1>0, <1>1, <1>3 DEF Enters, Exits, Carries, calendar, TypeOK
  <2> QED BY <1>0, <1>1, <1>2, <2>1, <2>2 DEF Since, Missed, Caught
<1>4. CASE Boot
  <2>1. /\ up' /\ ran' = {} /\ ~catchupDone' /\ upSince' = <<day, slot>>
    BY <1>4 DEF Boot
  <2>2. Since' /\ Caught'
    BY <1>0, <1>1, <2>1, Widths DEF Since, Caught, Fits
  <2>3. Missed'
    <3>1. ASSUME NEW n \in 1..Full, slot <= close[day] - n
          PROVE  /\ ~(slot >= close[day])
                 /\ slot >= close[day] - n => errs >= slot - (close[day] - n)
      <4>1. slot \in Nat /\ errs \in Nat /\ close[day] \in Nat /\ n \in Nat /\ n >= 1
        BY <1>0, Widths DEF Fits
      <4> QED BY <3>1, <4>1
    <3>2. ~(day < day)
      BY <1>0 DEF Fits
    <3> QED BY <1>1, <2>1, <3>1, <3>2 DEF Missed
  <2> QED BY <2>2, <2>3
<1>5. CASE Crash
  BY <1>0, <1>1, <1>5 DEF Crash, Since, Missed, Caught
<1> QED BY <1>3, <1>4, <1>5

\* Every step keeps the invariant.
LEMMA TimeNext == TimeInv /\ [Next]_vars => TimeInv'
<1> SUFFICES ASSUME TimeInv, [Next]_vars PROVE TimeInv'
  OBVIOUS
<1>1. DoneInv' /\ TypeOK'
  <2>1. DoneInv'
    BY DoneNext DEF TimeInv
  <2> QED BY <2>1 DEF DoneInv
<1>2. CASE Next
  <2>1. Since' /\ Missed' /\ Caught'
    BY <1>1, <1>2, TickKeeps, EodKeeps, CatchupKeeps, OthersKeep DEF Next
  <2> QED BY <1>1, <2>1 DEF TimeInv
<1>3. CASE UNCHANGED vars
  <2>1. /\ Lead(day)' = Lead(day) /\ IsTradingDay(day)' = IsTradingDay(day)
        /\ Carries' = Carries
    BY <1>3, SameDay DEF vars, calendar, holdings, Carries
  <2>2. Since' /\ Missed' /\ Caught'
    BY <1>3, <2>1 DEF TimeInv, Since, Missed, Caught, vars, calendar, holdings, flags
  <2> QED BY <1>1, <2>2 DEF TimeInv
<1> QED BY <1>2, <1>3

\* At the close of every day every position has its exit order when no pass failed, before
\* a closure of several days also after fewer failed passes than the wider window has
\* slots (eod_flatten_status), and what was carried has one after the first pass of the
\* open (step_open_catchup_flatten): for any calendar and any width of the windows.
THEOREM FlatOnTime == Spec => []FlatInTime
<1>1. Spec => []TimeInv
  BY TimeInit, TimeNext, PTL DEF Spec
<1>2. TimeInv => FlatInTime
  <2> SUFFICES ASSUME TimeInv PROVE FlatInTime
    OBVIOUS
  <2>0. TypeOK /\ DoneLeavesNone /\ Missed /\ Caught /\ Fits
    BY LeadFits DEF TimeInv, DoneInv
  <2>1. FlatAtClose
    <3> SUFFICES ASSUME UpForWindow, errs = 0, ~eodDone PROVE FALSE
      BY <2>0 DEF FlatAtClose, DoneLeavesNone, UpForWindow
    <3>1. 1 \in 1..Full /\ 1 <= Lead(day) /\ (upSince[1] < day \/ upSince[2] <= close[day] - 1)
      BY <2>0, Widths DEF Fits, UpForWindow
    <3> QED BY <2>0, <3>1 DEF Missed, UpForWindow
  <2>2. FlatBeforeClosure
    <3> SUFFICES ASSUME UpForWindow, PreClosure(day), errs < PreLead, ~eodDone,
                        upSince[1] < day \/ upSince[2] <= close[day] - PreLead
                 PROVE  FALSE
      BY <2>0 DEF FlatBeforeClosure, DoneLeavesNone, UpForWindow
    <3>1. PreLead \in 1..Full /\ PreLead <= Lead(day)
      BY <2>0, Widths DEF Fits, UpForWindow
    <3>2. errs >= PreLead
      BY <2>0, <3>1 DEF Missed, UpForWindow
    <3> QED BY <2>0, <3>2, Widths DEF Fits
  <2>3. CarriesCaught
    BY <2>0 DEF CarriesCaught, Caught, Carries
  <2> QED BY <2>1, <2>2, <2>3 DEF FlatInTime
<1> QED BY <1>1, <1>2, PTL

-----------------------------------------------------------------------------
(* The trigger book *)

\* The instances' own operators on finite sets are those of FiniteSets.
LEMMA SameFinite == \A S : Triggers!IsFiniteSet(S) <=> IsFiniteSet(S)
  BY Zenon DEF Triggers!IsFiniteSet, IsFiniteSet

\* The same of the number of a set's members.
LEMMA SameCardinality == \A S : Triggers!Cardinality(S) = Cardinality(S)
  BY Zenon DEF Triggers!Cardinality, Cardinality

\* What the assumption says of the constants one by one.
LEMMA BookConstants ==
    /\ MaxPrice \in Nat /\ MaxArmed \in Nat /\ MaxAge \in Nat /\ MaxArms \in Nat
    /\ Ranges \subseteq 2..MaxPrice /\ IsFiniteSet(Symbols)
    /\ None \notin Symbols /\ None \notin 0..MaxPrice /\ None \notin Triggers!Trigger
<1>1. Triggers!BookAssumption
  BY LiveAssumption DEF LiveAssumption
<1>2. IsFiniteSet(Symbols)
  BY <1>1, SameFinite, Zenon DEF Triggers!BookAssumption
<1> QED BY <1>1, <1>2 DEF Triggers!BookAssumption

Quiet == {"idle", "prices", "filled", "fires"}
Locals == {"pc", "syms", "todo", "kept", "sym", "trigger", "state", "late"}

\* The trigger thread holds a symbol only while it has some left to send; the
\* object of one that left the book is kept.
Walking ==
    /\ DOMAIN pass = Locals
    /\ pass.pc \in Quiet \cup {"pick", "send", "mark"}
    /\ pass.todo \subseteq Symbols
    /\ pass.pc \in Quiet => pass.todo = {}
    /\ pass.pc = "send" => pass.sym \in pass.todo
    /\ pass.pc = "mark" => pass.sym \in Symbols
    /\ pass.syms \subseteq Symbols
    /\ pass.kept \in [pass.todo -> Triggers!Trigger \cup {None}]
    /\ \A s \in pass.todo : Triggers!Seen(s) # None

\* The objects the trigger thread holds have a price, and one that was young when
\* fires() looked: no price grows old between two polls.
Priced ==
    \A s \in pass.todo :
        Triggers!Seen(s).price # None /\ (MaxAge > 0 => Triggers!Seen(s).age <= MaxAge)

\* While ranges stay, each object has its symbol's range or none, and one the
\* trigger thread holds has it and is above it, re-armed or not.
Ranged ==
    ~Revisable =>
        /\ \A s \in Symbols : book[s] # None /\ book[s].trigger # None =>
              book[s].trigger = range[s] /\ book[s].stop = range[s] - 2
        /\ \A s \in pass.todo :
              /\ range[s] # None
              /\ Triggers!Seen(s).trigger = range[s] /\ Triggers!Seen(s).stop = range[s] - 2
              /\ Triggers!Seen(s).price >= range[s]
        /\ pass.pc = "send" => pass.trigger = range[pass.sym]

BookTypes ==
    /\ book \in [Symbols -> Triggers!Trigger \cup {None}]
    /\ range \in [Symbols -> Triggers!High]
    /\ account \in [Symbols -> {"none", "working", "held", "exited"}]
    /\ arms \in 0..MaxArms
    /\ Walking

BookInv ==
    /\ BookTypes /\ Priced /\ Ranged
    /\ Triggers!Bounded /\ Triggers!SentFresh
    /\ ~Revisable => Triggers!SentBreakout

\* The book starts empty and the trigger thread idle.
LEMMA BookStarts == Triggers!Init => BookInv
<1> SUFFICES ASSUME Triggers!Init PROVE BookInv
  OBVIOUS
<1> USE BookConstants
<1>1. \A s \in Symbols : book[s] = None /\ range[s] = None
  BY DEF Triggers!Init
<1>2. BookTypes
  <2>1. pass.pc = "idle" /\ pass.todo = {} /\ pass.syms = {} /\ DOMAIN pass = Locals
    BY DEF Triggers!Init, Triggers!Idle, Locals
  <2>2. pass.kept \in [pass.todo -> Triggers!Trigger \cup {None}]
    BY <2>1 DEF Triggers!Init, Triggers!Idle
  <2>3. Walking
    BY <2>1, <2>2 DEF Walking, Quiet
  <2> QED BY <2>3 DEF Triggers!Init, BookTypes, Triggers!High
<1>3. Priced /\ Ranged
  BY <1>1 DEF Triggers!Init, Triggers!Idle, Priced, Ranged
<1>4. Triggers!Bounded
  <2>1. Triggers!Tracked \ Triggers!Pinned = {}
    BY <1>1 DEF Triggers!Tracked
  <2> QED BY <2>1, SameCardinality, FS_EmptySet DEF Triggers!Bounded
<1>5. Triggers!SentFresh /\ Triggers!SentBreakout
  BY DEF Triggers!Init, Triggers!SentFresh, Triggers!SentBreakout
<1> QED BY <1>2, <1>3, <1>4, <1>5 DEF BookInv

\* The fields of an object.
LEMMA Fields ==
    ASSUME NEW t \in Triggers!Trigger
    PROVE  /\ t.state \in Triggers!States
           /\ t.trigger \in Triggers!High /\ t.stop \in Triggers!Stops
           /\ t.price \in (0..MaxPrice) \cup {None} /\ t.age \in 0..(MaxAge + 1)
  BY DEF Triggers!Trigger

\* A range has a stop two below it.
LEMMA Below == \A r \in Ranges : r - 2 \in Triggers!Stops /\ r \in 0..MaxPrice /\ r \in Triggers!High
  BY BookConstants DEF Triggers!Stops, Triggers!High

\* What arm() makes of the object of a candidate.
LEMMA Rearmed ==
    ASSUME BookTypes, NEW s \in Symbols, NEW e \in BOOLEAN
    PROVE  LET t == Triggers!Armed(s, e) IN
           /\ t \in Triggers!Trigger /\ t.state \in {"waiting", "armed", "weak"}
           /\ t.trigger = range[s]
           /\ range[s] # None => t.stop = range[s] - 2
           /\ book[s] # None => t.price = book[s].price /\ t.age = book[s].age
<1> DEFINE old == IF book[s] = None THEN Triggers!Fresh ELSE book[s]
<1>1. Triggers!Fresh \in Triggers!Trigger
  BY BookConstants DEF Triggers!Fresh, Triggers!Trigger, Triggers!States, Triggers!High, Triggers!Stops
<1>2. old \in Triggers!Trigger
  BY <1>1 DEF BookTypes
<1>3. PICK st : st = (IF range[s] = None THEN None ELSE range[s] - 2)
  OBVIOUS
<1>4. st \in Triggers!Stops /\ (range[s] # None => st = range[s] - 2)
  BY <1>3, Below DEF BookTypes, Triggers!High, Triggers!Stops
<1>5. PICK k : k = Triggers!Classified(s, e)
  OBVIOUS
<1>6. k \in {"waiting", "armed", "weak"}
  BY <1>5 DEF Triggers!Classified
<1>7. range[s] \in Triggers!High
  BY DEF BookTypes
<1>8. Triggers!Armed(s, e) = [old EXCEPT !.trigger = range[s], !.stop = st, !.state = k]
  BY <1>3, <1>5 DEF Triggers!Armed
<1> HIDE DEF old
<1>9. [old EXCEPT !.trigger = range[s], !.stop = st, !.state = k] \in Triggers!Trigger
  BY <1>2, <1>4, <1>6, <1>7 DEF Triggers!Trigger, Triggers!States
<1>10. /\ Triggers!Armed(s, e).state = k /\ Triggers!Armed(s, e).trigger = range[s]
       /\ Triggers!Armed(s, e).stop = st
       /\ Triggers!Armed(s, e).price = old.price /\ Triggers!Armed(s, e).age = old.age
  BY <1>2, <1>8 DEF Triggers!Trigger
<1> QED BY <1>4, <1>6, <1>8, <1>9, <1>10 DEF old

\* arm(): what the trigger thread holds keeps its price and age, and has its
\* symbol's range when it was armed anew.
LEMMA ArmHolds ==
    ASSUME BookTypes, Triggers!Arm
    PROVE  /\ BookTypes'
           /\ \A s \in pass.todo :
                LET t == Triggers!Seen(s)'
                    u == Triggers!Seen(s)
                IN  /\ t.price = u.price /\ t.age = u.age
                    /\ t = u \/ (t.trigger = range[s] /\ (range[s] # None => t.stop = range[s] - 2))
           /\ \A s \in Symbols : book'[s] # None =>
                \/ book'[s] = book[s]
                \/ book'[s].trigger = range[s] /\ (range[s] # None => book'[s].stop = range[s] - 2)
           /\ (Triggers!Tracked \ Triggers!Pinned)' \subseteq Symbols
           /\ \E top \in SUBSET Symbols : Cardinality(top) <= MaxArmed
                 /\ (Triggers!Tracked \ Triggers!Pinned)' \subseteq top
           /\ Triggers!Pinned \subseteq Triggers!Pinned'
<1> USE BookConstants
<1>1. PICK top \in SUBSET (Symbols \ Triggers!Kept), eligible \in SUBSET Symbols :
        /\ Triggers!Cardinality(top) <= MaxArmed
        /\ book' = [s \in Symbols |->
                      IF s \in top THEN Triggers!Armed(s, s \in eligible)
                      ELSE IF s \in Triggers!Kept THEN book[s] ELSE None]
        /\ pass' = [pass EXCEPT !.kept =
                      [s \in pass.todo |->
                         IF pass.kept[s] = None /\ s \notin top \cup Triggers!Kept
                         THEN book[s] ELSE pass.kept[s]]]
  BY Zenon DEF Triggers!Arm
<1>2. range' = range /\ account' = account /\ arms' \in 0..MaxArms
  BY DEF Triggers!Arm, BookTypes
<1>3. Triggers!Kept = Triggers!Pinned
  BY DEF Triggers!Kept
<1> DEFINE A(s) == Triggers!Armed(s, s \in eligible)
<1>4. ASSUME NEW s \in Symbols
      PROVE  /\ A(s) \in Triggers!Trigger /\ A(s).state \in {"waiting", "armed", "weak"}
             /\ A(s).trigger = range[s]
             /\ range[s] # None => A(s).stop = range[s] - 2
             /\ book[s] # None => A(s).price = book[s].price /\ A(s).age = book[s].age
  <2>1. (s \in eligible) \in BOOLEAN
    OBVIOUS
  <2>2. PICK e \in BOOLEAN : e = (s \in eligible)
    BY <2>1, Zenon
  <2> QED BY <2>2, Rearmed
<1>5. \A s \in Symbols : book'[s] =
        IF s \in top THEN A(s) ELSE IF s \in Triggers!Pinned THEN book[s] ELSE None
  BY <1>1, <1>3
<1>6. book' \in [Symbols -> Triggers!Trigger \cup {None}]
  <2>1. \A s \in Symbols : A(s) \in Triggers!Trigger
    BY <1>4
  <2> HIDE DEF A
  <2>2. \A s \in Symbols : book'[s] \in Triggers!Trigger \cup {None}
    BY <2>1, <1>5 DEF BookTypes
  <2>3. book' = [s \in Symbols |-> book'[s]]
    BY <1>1
  <2> QED BY <2>2, <2>3
<1> HIDE DEF A
<1>7. /\ DOMAIN pass' = Locals
      /\ pass'.pc = pass.pc /\ pass'.todo = pass.todo /\ pass'.syms = pass.syms
      /\ pass'.sym = pass.sym
      /\ \A s \in pass.todo : pass'.kept[s] =
            IF pass.kept[s] = None /\ s \notin top /\ s \notin Triggers!Pinned
            THEN book[s] ELSE pass.kept[s]
      /\ DOMAIN pass'.kept = pass.todo
      /\ pass'.kept = [s \in pass.todo |-> pass'.kept[s]]
  BY <1>1, <1>3 DEF BookTypes, Walking, Locals
<1>8. pass'.kept \in [pass.todo -> Triggers!Trigger \cup {None}]
  <2>1. \A s \in pass.todo : pass'.kept[s] \in Triggers!Trigger \cup {None}
    BY <1>7 DEF BookTypes, Walking
  <2> QED BY <2>1, <1>7
<1>9. ASSUME NEW s \in pass.todo
      PROVE  /\ Triggers!Seen(s)' # None
             /\ \/ Triggers!Seen(s)' = Triggers!Seen(s)
                \/ Triggers!Seen(s) = book[s] /\ book[s] # None /\ Triggers!Seen(s)' = A(s)
  <2>0. s \in Symbols
    BY DEF BookTypes, Walking
  <2>1. Triggers!Seen(s) # None
    BY DEF BookTypes, Walking
  <2>2. CASE pass.kept[s] # None
    BY <2>1, <2>2, <1>7 DEF Triggers!Seen
  <2>3. CASE pass.kept[s] = None
    <3>1. Triggers!Seen(s) = book[s] /\ book[s] # None
      BY <2>1, <2>3 DEF Triggers!Seen
    <3>2. CASE s \in top
      <4>1. Triggers!Seen(s)' = A(s)
        BY <2>0, <2>3, <3>2, <1>5, <1>7 DEF Triggers!Seen
      <4> QED BY <4>1, <3>1, <2>0, <1>4
    <3>3. CASE s \notin top
      BY <2>0, <2>3, <3>1, <3>3, <1>5, <1>7 DEF Triggers!Seen
    <3> QED BY <3>2, <3>3
  <2> QED BY <2>2, <2>3
<1>10. BookTypes'
  <2>1. Walking'
    BY <1>7, <1>8, <1>9 DEF BookTypes, Walking
  <2> QED BY <2>1, <1>2, <1>6 DEF BookTypes
<1>11. \A s \in Symbols : A(s).state \notin Triggers!Committed
  BY <1>4 DEF Triggers!Committed
<1>12. (Triggers!Tracked \ Triggers!Pinned)' \subseteq top
  <2> SUFFICES ASSUME NEW s \in Symbols, book'[s] # None, s \notin Triggers!Pinned'
               PROVE  s \in top
    BY DEF Triggers!Tracked, Triggers!Pinned
  <2>1. book'[s].state \notin Triggers!Committed
    BY DEF Triggers!Tracked, Triggers!Pinned
  <2>2. CASE s \notin top
    <3>1. s \in Triggers!Pinned /\ book'[s] = book[s]
      BY <2>2, <1>5
    <3> QED BY <3>1, <2>1 DEF Triggers!Pinned
  <2> QED BY <2>2
<1>13. Triggers!Pinned \subseteq Triggers!Pinned'
  <2> SUFFICES ASSUME NEW s \in Triggers!Pinned PROVE s \in Triggers!Pinned'
    OBVIOUS
  <2>1. s \in Symbols /\ book[s] # None /\ book[s].state \in Triggers!Committed
    BY DEF Triggers!Pinned, Triggers!Tracked
  <2>2. s \notin top
    BY <1>3
  <2>3. book'[s] = book[s]
    BY <2>1, <2>2, <1>5
  <2> QED BY <2>1, <2>3 DEF Triggers!Pinned, Triggers!Tracked
<1>14. ASSUME NEW s \in pass.todo
       PROVE  LET t == Triggers!Seen(s)'
                  u == Triggers!Seen(s)
              IN  /\ t.price = u.price /\ t.age = u.age
                  /\ t = u \/ (t.trigger = range[s] /\ (range[s] # None => t.stop = range[s] - 2))
  <2>1. s \in Symbols /\ Triggers!Seen(s) # None
    BY DEF BookTypes, Walking
  <2> QED BY <2>1, <1>4, <1>9
<1>15. \A s \in Symbols : book'[s] # None =>
         \/ book'[s] = book[s]
         \/ book'[s].trigger = range[s] /\ (range[s] # None => book'[s].stop = range[s] - 2)
  BY <1>4, <1>5
<1>16. (Triggers!Tracked \ Triggers!Pinned)' \subseteq Symbols
  BY DEF Triggers!Tracked
<1> QED BY <1>1, <1>10, <1>12, <1>13, <1>14, <1>15, <1>16, SameCardinality

\* Some steps leave book and ranges alone, and the objects the trigger thread holds.
LEMMA QuietHolds ==
    ASSUME BookTypes,
           \/ \E s \in Symbols : Triggers!Fills(s) \/ Triggers!Leaves(s) \/ Triggers!ReadTrigger(s)
           \/ Triggers!PassStart \/ Triggers!PassEnds
    PROVE  /\ BookTypes' /\ book' = book /\ range' = range /\ sent' = sent
           /\ pass'.todo \subseteq pass.todo
           /\ \A s \in pass'.todo : Triggers!Seen(s)' = Triggers!Seen(s)
           /\ pass'.pc = "send" =>
                 \/ pass' = pass
                 \/ pass'.trigger = Triggers!Seen(pass'.sym).trigger
<1>1. CASE \E s \in Symbols : Triggers!Fills(s) \/ Triggers!Leaves(s)
  BY <1>1 DEF Triggers!Fills, Triggers!Leaves, BookTypes, Walking, Triggers!Seen
<1>2. ASSUME NEW s \in Symbols, Triggers!ReadTrigger(s)
      PROVE  /\ BookTypes' /\ book' = book /\ range' = range /\ sent' = sent
             /\ pass'.todo = pass.todo /\ pass'.kept = pass.kept
             /\ pass'.trigger = Triggers!Seen(pass'.sym).trigger
  <2>1. /\ DOMAIN pass' = Locals /\ pass'.pc = "send" /\ pass'.sym = s
        /\ pass'.todo = pass.todo /\ pass'.kept = pass.kept /\ pass'.syms = pass.syms
        /\ pass'.trigger = Triggers!Seen(s).trigger
        /\ s \in pass.todo
    BY <1>2 DEF Triggers!ReadTrigger, BookTypes, Walking, Locals
  <2>2. book' = book /\ range' = range /\ sent' = sent /\ account' = account /\ arms' = arms
    BY <1>2 DEF Triggers!ReadTrigger
  <2> QED BY <2>1, <2>2 DEF BookTypes, Walking, Quiet, Triggers!Seen
<1>3. CASE Triggers!PassStart
  <2>1. /\ DOMAIN pass' = Locals /\ pass'.pc = "prices" /\ pass.pc = "idle"
        /\ pass'.todo = pass.todo /\ pass'.kept = pass.kept
        /\ pass'.syms = Triggers!Tracked
    BY <1>3 DEF Triggers!PassStart, BookTypes, Walking, Locals
  <2>2. book' = book /\ range' = range /\ sent' = sent /\ account' = account /\ arms' = arms
    BY <1>3 DEF Triggers!PassStart
  <2>3. Triggers!Tracked \subseteq Symbols
    BY DEF Triggers!Tracked
  <2> QED BY <2>1, <2>2, <2>3 DEF BookTypes, Walking, Quiet, Triggers!Seen
<1>4. CASE Triggers!PassEnds
  <2>1. /\ DOMAIN pass' = Locals /\ pass'.pc = "idle" /\ pass'.todo = {} /\ pass'.syms = {}
        /\ pass'.kept = <<>>
    BY <1>4 DEF Triggers!PassEnds, Triggers!Idle, Locals
  <2>2. pass'.kept \in [pass'.todo -> Triggers!Trigger \cup {None}]
    BY <2>1
  <2>3. book' = book /\ range' = range /\ sent' = sent /\ account' = account /\ arms' = arms
    BY <1>4 DEF Triggers!PassEnds
  <2> QED BY <2>1, <2>2, <2>3 DEF BookTypes, Walking, Quiet
<1> QED BY <1>1, <1>2, <1>3, <1>4 DEF Triggers!Seen

\* A range is formed, or corrected where that may be.
LEMMA RangeHolds ==
    ASSUME BookTypes, NEW s \in Symbols, Triggers!RangeForms(s)
    PROVE  /\ BookTypes' /\ book' = book /\ pass' = pass /\ sent' = sent
           /\ ~Revisable => \A u \in Symbols : range[u] # None => range'[u] = range[u]
<1>1. PICK r \in Ranges : range' = [range EXCEPT ![s] = r]
  BY DEF Triggers!RangeForms
<1>2. range' \in [Symbols -> Triggers!High]
  BY <1>1, Below DEF BookTypes
<1>3. /\ book' = book /\ pass' = pass /\ sent' = sent /\ account' = account /\ arms' = arms
      /\ range[s] = None \/ Revisable
  BY DEF Triggers!RangeForms
<1> QED BY <1>1, <1>2, <1>3 DEF BookTypes, Walking, Triggers!Seen

\* The object after an answer (ArmedTriggerBook.update_price).
Polled(t, v) == [t EXCEPT !.price = v, !.age = 0]

\* The poll: prices come in while the trigger thread holds nothing.
LEMMA PollHolds ==
    ASSUME BookTypes, Triggers!PassPrices \/ Triggers!PassFilled
    PROVE  /\ BookTypes' /\ range' = range /\ sent' = sent
           /\ pass'.todo = {} /\ pass'.pc \in Quiet
           /\ \A s \in Symbols :
                IF book[s] = None THEN book'[s] = None
                ELSE /\ book'[s] # None
                     /\ book'[s].trigger = book[s].trigger /\ book'[s].stop = book[s].stop
                     /\ book'[s].state \in {book[s].state, "filled"}
<1> USE BookConstants
<1>1. CASE Triggers!PassPrices
  <2>1. PICK answered \in SUBSET (pass.syms \cap Triggers!Tracked) :
          /\ \E p \in [answered -> 0..MaxPrice] :
                book' = [s \in Symbols |->
                            IF s \in answered
                            THEN [book[s] EXCEPT !.price = p[s], !.age = 0]
                            ELSE IF s \in Triggers!Tracked
                                 THEN Triggers!Older(book[s]) ELSE None]
          /\ pass' = [pass EXCEPT !.pc = "filled", !.late = pass.syms \ answered]
    BY <1>1, Zenon DEF Triggers!PassPrices
  <2>2. PICK p \in [answered -> 0..MaxPrice] :
          book' = [s \in Symbols |->
                      IF s \in answered
                      THEN [book[s] EXCEPT !.price = p[s], !.age = 0]
                      ELSE IF s \in Triggers!Tracked
                           THEN Triggers!Older(book[s]) ELSE None]
    BY <2>1
  <2>3. /\ range' = range /\ sent' = sent /\ account' = account /\ arms' = arms
        /\ pass.pc = "prices" /\ pass.todo = {}
    BY <1>1 DEF Triggers!PassPrices, BookTypes, Walking, Quiet
  <2>4. /\ DOMAIN pass' = Locals /\ pass'.pc = "filled"
        /\ pass'.todo = {} /\ pass'.kept = pass.kept /\ pass'.syms = pass.syms
    BY <2>1, <2>3 DEF BookTypes, Walking, Locals
  <2>5. ASSUME NEW t \in Triggers!Trigger
        PROVE  /\ Triggers!Older(t) \in Triggers!Trigger
               /\ Triggers!Older(t).trigger = t.trigger /\ Triggers!Older(t).stop = t.stop
               /\ Triggers!Older(t).state = t.state
    <3>1. PICK n : n = (IF t.age > MaxAge THEN t.age ELSE t.age + 1)
      OBVIOUS
    <3>2. n \in 0..(MaxAge + 1)
      BY <3>1, Fields
    <3>3. Triggers!Older(t) = [t EXCEPT !.age = n]
      BY <3>1 DEF Triggers!Older
    <3> QED BY <3>2, <3>3 DEF Triggers!Trigger
  <2>6. ASSUME NEW t \in Triggers!Trigger, NEW v \in 0..MaxPrice
        PROVE  /\ Polled(t, v) \in Triggers!Trigger
               /\ Polled(t, v).trigger = t.trigger
               /\ Polled(t, v).stop = t.stop
               /\ Polled(t, v).state = t.state
    <3>1. 0 \in 0..(MaxAge + 1) /\ v \in (0..MaxPrice) \cup {None}
      OBVIOUS
    <3>2. Polled(t, v) \in Triggers!Trigger
      BY <3>1 DEF Triggers!Trigger, Polled
    <3> QED BY <3>2 DEF Triggers!Trigger, Polled
  <2>7. ASSUME NEW s \in Symbols
        PROVE  /\ book'[s] \in Triggers!Trigger \cup {None}
               /\ IF book[s] = None THEN book'[s] = None
                  ELSE /\ book'[s] # None
                       /\ book'[s].trigger = book[s].trigger /\ book'[s].stop = book[s].stop
                       /\ book'[s].state \in {book[s].state, "filled"}
    <3>1. CASE book[s] = None
      <4>1. s \notin answered /\ s \notin Triggers!Tracked
        BY <3>1 DEF Triggers!Tracked
      <4> QED BY <4>1, <3>1, <2>2
    <3>2. CASE book[s] # None
      <4>1. book[s] \in Triggers!Trigger /\ s \in Triggers!Tracked
        BY <3>2 DEF BookTypes, Triggers!Tracked
      <4>2. CASE s \in answered
        <5>1. PICK v \in 0..MaxPrice : book'[s] = Polled(book[s], v)
          BY <4>2, <2>2 DEF Polled
        <5>2. book'[s] \in Triggers!Trigger
          BY <5>1, <4>1, <2>6, Zenon
        <5>3. /\ book'[s].trigger = book[s].trigger /\ book'[s].stop = book[s].stop
              /\ book'[s].state = book[s].state
          BY <5>1, <4>1, <2>6
        <5> QED BY <5>2, <5>3, <3>2
      <4>3. CASE s \notin answered
        <5>1. book'[s] = Triggers!Older(book[s])
          BY <4>1, <4>3, <2>2
        <5> QED BY <5>1, <4>1, <3>2, <2>5
      <4> QED BY <4>2, <4>3
    <3> QED BY <3>1, <3>2
  <2>8. book' \in [Symbols -> Triggers!Trigger \cup {None}]
    <3>1. book' = [s \in Symbols |-> book'[s]]
      BY <2>2
    <3> QED BY <3>1, <2>7
  <2>9. BookTypes'
    BY <2>3, <2>4, <2>8 DEF BookTypes, Walking, Quiet
  <2> QED BY <2>3, <2>4, <2>7, <2>9 DEF Quiet
<1>2. CASE Triggers!PassFilled
  <2>1. PICK held1 \in {{s \in Symbols : account[s] = "held"}, {}} :
          book' = [s \in Symbols |->
                      IF s \in held1 \cap Triggers!Tracked
                      THEN [book[s] EXCEPT !.state = "filled"] ELSE book[s]]
    BY <1>2 DEF Triggers!PassFilled
  <2>2. /\ range' = range /\ sent' = sent /\ account' = account /\ arms' = arms
        /\ pass.pc = "filled" /\ pass.todo = {}
        /\ DOMAIN pass' = Locals /\ pass'.pc = "fires"
        /\ pass'.todo = {} /\ pass'.kept = pass.kept /\ pass'.syms = pass.syms
    BY <1>2 DEF Triggers!PassFilled, BookTypes, Walking, Quiet, Locals
  <2>3. ASSUME NEW t \in Triggers!Trigger
        PROVE  LET u == [t EXCEPT !.state = "filled"] IN
               /\ u \in Triggers!Trigger
               /\ u.trigger = t.trigger /\ u.stop = t.stop /\ u.state = "filled"
    BY DEF Triggers!Trigger, Triggers!States
  <2>4. ASSUME NEW s \in Symbols
        PROVE  /\ book'[s] \in Triggers!Trigger \cup {None}
               /\ IF book[s] = None THEN book'[s] = None
                  ELSE /\ book'[s] # None
                       /\ book'[s].trigger = book[s].trigger /\ book'[s].stop = book[s].stop
                       /\ book'[s].state \in {book[s].state, "filled"}
    <3>1. book'[s] = IF s \in held1 /\ s \in Triggers!Tracked
                     THEN [book[s] EXCEPT !.state = "filled"] ELSE book[s]
      BY <2>1
    <3>2. s \in Triggers!Tracked <=> book[s] # None
      BY DEF Triggers!Tracked
    <3>3. book[s] \in Triggers!Trigger \cup {None}
      BY DEF BookTypes
    <3> QED BY <3>1, <3>2, <3>3, <2>3
  <2>5. book' \in [Symbols -> Triggers!Trigger \cup {None}]
    <3>1. book' = [s \in Symbols |-> book'[s]]
      BY <2>1
    <3> QED BY <3>1, <2>4
  <2>6. BookTypes'
    BY <2>2, <2>5 DEF BookTypes, Walking, Quiet
  <2> QED BY <2>2, <2>4, <2>6 DEF Quiet
<1> QED BY <1>1, <1>2

\* fires(): the trigger thread now holds what has crossed, as the book has it.
LEMMA FiresHolds ==
    ASSUME BookTypes, Triggers!PassFires
    PROVE  /\ BookTypes' /\ book' = book /\ range' = range /\ sent' = sent
           /\ pass'.pc = "pick"
           /\ \A s \in pass'.todo :
                /\ s \in Symbols /\ book[s] # None /\ Triggers!Crossed(book[s])
                /\ Triggers!Seen(s)' = book[s]
<1> DEFINE todo == {s \in Triggers!Tracked : Triggers!Crossed(book[s])}
<1>1. /\ pass' = [pass EXCEPT !.pc = "pick", !.todo = todo, !.kept = [s \in todo |-> None]]
      /\ book' = book /\ range' = range /\ sent' = sent /\ account' = account /\ arms' = arms
  BY DEF Triggers!PassFires
<1>2. \A s \in todo : s \in Symbols /\ book[s] # None /\ Triggers!Crossed(book[s])
  BY DEF Triggers!Tracked
<1> HIDE DEF todo
<1>3. /\ DOMAIN pass' = Locals /\ pass'.pc = "pick" /\ pass'.todo = todo
      /\ pass'.kept = [s \in todo |-> None] /\ pass'.syms = pass.syms
  BY <1>1 DEF BookTypes, Walking, Locals
<1>4. \A s \in todo : Triggers!Seen(s)' = book[s]
  BY <1>1, <1>3 DEF Triggers!Seen
<1>5. pass'.kept \in [pass'.todo -> Triggers!Trigger \cup {None}]
  BY <1>3
<1>6. Walking'
  BY <1>2, <1>3, <1>4, <1>5 DEF BookTypes, Walking, Quiet
<1> QED BY <1>1, <1>2, <1>3, <1>4, <1>6 DEF BookTypes

\* submit_breakout_now: what is sent is the object as it is then, with the trigger
\* that was read before.
LEMMA SubmitHolds ==
    ASSUME BookTypes, Triggers!Submit
    PROVE  /\ BookTypes' /\ book' = book /\ range' = range
           /\ pass.pc = "send" /\ pass.sym \in pass.todo
           /\ pass'.todo \subseteq pass.todo /\ pass'.pc \in {"pick", "mark"}
           /\ \A s \in pass'.todo : Triggers!Seen(s)' = Triggers!Seen(s)
           /\ \A o \in sent' \ sent :
                LET t == Triggers!Seen(pass.sym)
                IN  /\ o.trigger = pass.trigger /\ o.stop = t.stop
                    /\ o.price = t.price /\ o.age = t.age
<1> DEFINE s == pass.sym
           t == Triggers!Seen(s)
           left == pass.todo \ {s}
           sending == [sym |-> s, trigger |-> pass.trigger, stop |-> t.stop,
                       price |-> t.price, age |-> t.age, state |-> t.state,
                       late |-> s \in pass.late]
           rest == [pass EXCEPT !.pc = "pick", !.sym = None, !.trigger = None,
                       !.todo = left, !.kept = [u \in left |-> pass.kept[u]]]
<1>1. pass.pc = "send" /\ s \in pass.todo /\ s \in Symbols
  BY DEF Triggers!Submit, BookTypes, Walking
<1>2. /\ book' = book /\ range' = range /\ arms' = arms
      /\ \/ /\ account' = [account EXCEPT ![s] = "working"]
            /\ sent' = sent \cup {sending}
            /\ pass' = [rest EXCEPT !.pc = "mark", !.sym = s]
         \/ pass' = rest /\ account' = account /\ sent' = sent
  <2>1. [pass EXCEPT !.pc = "pick", !.sym = None, !.trigger = None, !.todo = @ \ {s},
           !.kept = [u \in pass.todo \ {s} |-> pass.kept[u]]] = rest
    BY DEF BookTypes, Walking, Locals
  <2> QED BY <2>1, Zenon DEF Triggers!Submit
<1>3. account' \in [Symbols -> {"none", "working", "held", "exited"}]
  BY <1>1, <1>2 DEF BookTypes
<1>4. /\ DOMAIN pass' = Locals /\ pass'.todo = left
      /\ pass'.kept = [u \in left |-> pass.kept[u]] /\ pass'.syms = pass.syms
      /\ pass'.pc = "pick" \/ (pass'.pc = "mark" /\ pass'.sym = s)
  BY <1>2 DEF BookTypes, Walking, Locals
<1>5. \A o \in sent' \ sent :
        o.trigger = pass.trigger /\ o.stop = t.stop /\ o.price = t.price /\ o.age = t.age
  BY <1>2
<1> HIDE DEF t, rest, sending
<1>6. \A u \in left : Triggers!Seen(u)' = Triggers!Seen(u)
  BY <1>2, <1>4 DEF Triggers!Seen
<1>7. pass'.kept \in [pass'.todo -> Triggers!Trigger \cup {None}]
  BY <1>4 DEF BookTypes, Walking
<1>8. Walking'
  BY <1>1, <1>4, <1>6, <1>7 DEF BookTypes, Walking, Quiet
<1> QED BY <1>1, <1>2, <1>3, <1>4, <1>5, <1>6, <1>8 DEF BookTypes, t

\* mark_fired() changes a state and nothing else of an object.
LEMMA MarkHolds ==
    ASSUME BookTypes, Triggers!MarkFired
    PROVE  /\ BookTypes' /\ range' = range /\ sent' = sent
           /\ pass'.todo = pass.todo /\ pass'.pc = "pick"
           /\ \A u \in Symbols :
                IF book[u] = None THEN book'[u] = None
                ELSE /\ book'[u] # None
                     /\ book'[u].trigger = book[u].trigger /\ book'[u].stop = book[u].stop
                     /\ book'[u].price = book[u].price /\ book'[u].age = book[u].age
                     /\ book'[u].state \in {book[u].state, "fired"}
           /\ pass'.kept = pass.kept
<1> USE BookConstants
<1>1. /\ book' = [u \in Symbols |->
                    IF u = pass.sym /\ u \in Triggers!Tracked
                    THEN [book[u] EXCEPT !.state = "fired"] ELSE book[u]]
      /\ range' = range /\ sent' = sent /\ account' = account /\ arms' = arms
      /\ DOMAIN pass' = Locals /\ pass'.pc = "pick" /\ pass'.todo = pass.todo
      /\ pass'.kept = pass.kept /\ pass'.syms = pass.syms
  BY DEF Triggers!MarkFired, BookTypes, Walking, Locals
<1>2. ASSUME NEW t \in Triggers!Trigger
      PROVE  LET u == [t EXCEPT !.state = "fired"] IN
             /\ u \in Triggers!Trigger
             /\ u.trigger = t.trigger /\ u.stop = t.stop /\ u.state = "fired"
             /\ u.price = t.price /\ u.age = t.age
  BY DEF Triggers!Trigger, Triggers!States
<1>3. ASSUME NEW u \in Symbols
      PROVE  /\ book'[u] \in Triggers!Trigger \cup {None}
             /\ IF book[u] = None THEN book'[u] = None
                ELSE /\ book'[u] # None
                     /\ book'[u].trigger = book[u].trigger /\ book'[u].stop = book[u].stop
                     /\ book'[u].price = book[u].price /\ book'[u].age = book[u].age
                     /\ book'[u].state \in {book[u].state, "fired"}
  <2>1. book'[u] = IF u = pass.sym /\ u \in Triggers!Tracked
                   THEN [book[u] EXCEPT !.state = "fired"] ELSE book[u]
    BY <1>1
  <2>2. u \in Triggers!Tracked <=> book[u] # None
    BY DEF Triggers!Tracked
  <2>3. book[u] \in Triggers!Trigger \cup {None}
    BY DEF BookTypes
  <2> QED BY <2>1, <2>2, <2>3, <1>2
<1>4. book' \in [Symbols -> Triggers!Trigger \cup {None}]
  <2>1. book' = [u \in Symbols |-> book'[u]]
    BY <1>1
  <2> QED BY <2>1, <1>3
<1>5. \A u \in pass'.todo : u \in Symbols /\ Triggers!Seen(u)' # None
  BY <1>1, <1>3 DEF Triggers!Seen, BookTypes, Walking
<1>6. Walking'
  BY <1>1, <1>5 DEF BookTypes, Walking, Quiet
<1> QED BY <1>1, <1>3, <1>4, <1>6 DEF BookTypes

\* The symbols that wait only leave the book or are committed: the bound stays.
LEMMA FewerWait ==
    ASSUME Triggers!Bounded,
           (Triggers!Tracked \ Triggers!Pinned)' \subseteq Triggers!Tracked \ Triggers!Pinned
    PROVE  Triggers!Bounded'
<1> DEFINE T == Triggers!Tracked \ Triggers!Pinned
           U == (Triggers!Tracked \ Triggers!Pinned)'
<1>1. T \subseteq Symbols
  BY DEF Triggers!Tracked
<1>2. IsFiniteSet(T)
  BY <1>1, BookConstants, FS_Subset
<1>3. IsFiniteSet(U) /\ Cardinality(U) <= Cardinality(T)
  BY <1>2, FS_Subset
<1>4. Cardinality(T) <= MaxArmed
  BY SameCardinality DEF Triggers!Bounded
<1>5. Cardinality(T) \in Nat /\ Cardinality(U) \in Nat
  BY <1>2, <1>3, FS_CardinalityType
<1>6. Cardinality(U) <= MaxArmed
  BY <1>3, <1>4, <1>5, BookConstants
<1> QED BY <1>6, SameCardinality DEF Triggers!Bounded

\* A step that keeps the book's objects but for prices, or commits some.
LEMMA Committing ==
    ASSUME \A s \in Symbols :
              IF book[s] = None THEN book'[s] = None
              ELSE book'[s] # None /\ book'[s].state \in {book[s].state, "fired", "filled"}
    PROVE  /\ Triggers!Pinned \subseteq Triggers!Pinned'
           /\ (Triggers!Tracked \ Triggers!Pinned)' \subseteq Triggers!Tracked \ Triggers!Pinned
  BY DEF Triggers!Tracked, Triggers!Pinned, Triggers!Committed

\* Every step of the book and its threads keeps the invariant and drops no trigger
\* that fired.
LEMMA BookNext ==
    ASSUME BookInv, Triggers!Next
    PROVE  BookInv' /\ Triggers!Pinned \subseteq Triggers!Pinned'
<1> USE DEF BookInv
<1> USE BookConstants
<1>1. CASE Triggers!Arm
  <2>1. /\ range' = range /\ sent' = sent
        /\ pass'.todo = pass.todo /\ pass'.pc = pass.pc
        /\ pass'.sym = pass.sym /\ pass'.trigger = pass.trigger
    BY <1>1 DEF Triggers!Arm, BookTypes, Walking, Locals
  <2>2. BookTypes' /\ Triggers!Pinned \subseteq Triggers!Pinned'
    BY <1>1, ArmHolds
  <2>3. /\ \A s \in pass.todo :
             LET t == Triggers!Seen(s)'
                 u == Triggers!Seen(s)
             IN  /\ t.price = u.price /\ t.age = u.age
                 /\ t = u \/ (t.trigger = range[s] /\ (range[s] # None => t.stop = range[s] - 2))
        /\ \A s \in Symbols : book'[s] # None =>
             \/ book'[s] = book[s]
             \/ book'[s].trigger = range[s] /\ (range[s] # None => book'[s].stop = range[s] - 2)
    BY <1>1, ArmHolds
  <2>4. Priced'
    BY <2>1, <2>3 DEF Priced
  <2>5. Ranged'
    BY <2>1, <2>3 DEF Ranged
  <2>6. Triggers!Bounded'
    <3>1. PICK top \in SUBSET Symbols : Cardinality(top) <= MaxArmed
             /\ (Triggers!Tracked \ Triggers!Pinned)' \subseteq top
      BY <1>1, ArmHolds
    <3>2. IsFiniteSet(top)
      BY FS_Subset
    <3> DEFINE U == (Triggers!Tracked \ Triggers!Pinned)'
    <3>3. IsFiniteSet(U) /\ Cardinality(U) <= Cardinality(top)
      BY <3>1, <3>2, FS_Subset
    <3>4. Cardinality(top) \in Nat /\ Cardinality(U) \in Nat
      BY <3>2, <3>3, FS_CardinalityType
    <3>5. Cardinality(U) <= MaxArmed
      BY <3>1, <3>3, <3>4
    <3> QED BY <3>5, SameCardinality DEF Triggers!Bounded
  <2> QED BY <2>1, <2>2, <2>4, <2>5, <2>6 DEF Triggers!SentFresh, Triggers!SentBreakout
<1>2. ASSUME NEW s \in Symbols, Triggers!RangeForms(s)
      PROVE  BookInv' /\ Triggers!Pinned \subseteq Triggers!Pinned'
  <2>1. /\ BookTypes' /\ book' = book /\ pass' = pass /\ sent' = sent
        /\ ~Revisable => \A u \in Symbols : range[u] # None => range'[u] = range[u]
    BY <1>2, RangeHolds
  <2>2. Priced'
    BY <2>1 DEF Priced, Triggers!Seen
  <2>3. Ranged'
    <3> SUFFICES ASSUME ~Revisable
                 PROVE  /\ \A u \in Symbols : book[u] # None /\ book[u].trigger # None =>
                              book[u].trigger = range'[u] /\ book[u].stop = range'[u] - 2
                        /\ \A u \in pass.todo :
                              /\ range'[u] # None
                              /\ Triggers!Seen(u).trigger = range'[u]
                              /\ Triggers!Seen(u).stop = range'[u] - 2
                              /\ Triggers!Seen(u).price >= range'[u]
                        /\ pass.pc = "send" => pass.trigger = range'[pass.sym]
      BY <2>1 DEF Ranged, Triggers!Seen
    <3>1. \A u \in Symbols : range[u] # None => range'[u] = range[u]
      BY <2>1
    <3>2. pass.todo \subseteq Symbols /\ (pass.pc = "send" => pass.sym \in pass.todo)
      BY DEF BookTypes, Walking
    <3>3. \A u \in Symbols : book[u] # None /\ book[u].trigger # None =>
             book[u].trigger = range[u] /\ book[u].stop = range[u] - 2 /\ range[u] # None
      BY DEF Ranged
    <3> QED BY <3>1, <3>2, <3>3 DEF Ranged
  <2>4. Triggers!Pinned' = Triggers!Pinned /\ Triggers!Tracked' = Triggers!Tracked
    BY <2>1 DEF Triggers!Pinned, Triggers!Tracked
  <2>5. Triggers!Bounded'
    BY <2>4, FewerWait
  <2> QED BY <2>1, <2>2, <2>3, <2>4, <2>5 DEF Triggers!SentFresh, Triggers!SentBreakout
<1>3. CASE \/ \E s \in Symbols : Triggers!Fills(s) \/ Triggers!Leaves(s) \/ Triggers!ReadTrigger(s)
           \/ Triggers!PassStart \/ Triggers!PassEnds
  <2>1. /\ BookTypes' /\ book' = book /\ range' = range /\ sent' = sent
        /\ pass'.todo \subseteq pass.todo
        /\ \A s \in pass'.todo : Triggers!Seen(s)' = Triggers!Seen(s)
        /\ pass'.pc = "send" =>
              \/ pass' = pass
              \/ pass'.trigger = Triggers!Seen(pass'.sym).trigger
    BY <1>3, QuietHolds
  <2>2. Priced'
    BY <2>1 DEF Priced
  <2>3. Ranged'
    BY <2>1 DEF Ranged, BookTypes, Walking
  <2>4. Triggers!Pinned' = Triggers!Pinned /\ Triggers!Tracked' = Triggers!Tracked
    BY <2>1 DEF Triggers!Pinned, Triggers!Tracked
  <2>5. Triggers!Bounded'
    BY <2>4, FewerWait
  <2> QED BY <2>1, <2>2, <2>3, <2>4, <2>5 DEF Triggers!SentFresh, Triggers!SentBreakout
<1>4. CASE Triggers!PassPrices \/ Triggers!PassFilled
  <2>1. /\ BookTypes' /\ range' = range /\ sent' = sent
        /\ pass'.todo = {} /\ pass'.pc \in Quiet
        /\ \A s \in Symbols :
             IF book[s] = None THEN book'[s] = None
             ELSE /\ book'[s] # None
                  /\ book'[s].trigger = book[s].trigger /\ book'[s].stop = book[s].stop
                  /\ book'[s].state \in {book[s].state, "filled"}
    BY <1>4, PollHolds
  <2>2. Priced' /\ Ranged'
    BY <2>1 DEF Priced, Ranged, Quiet
  <2>3. /\ Triggers!Pinned \subseteq Triggers!Pinned'
        /\ (Triggers!Tracked \ Triggers!Pinned)' \subseteq Triggers!Tracked \ Triggers!Pinned
    BY <2>1, Committing
  <2>4. Triggers!Bounded'
    BY <2>3, FewerWait
  <2> QED BY <2>1, <2>2, <2>3, <2>4 DEF Triggers!SentFresh, Triggers!SentBreakout
<1>5. CASE Triggers!PassFires
  <2>1. /\ BookTypes' /\ book' = book /\ range' = range /\ sent' = sent
        /\ pass'.pc = "pick"
        /\ \A s \in pass'.todo :
             /\ s \in Symbols /\ book[s] # None /\ Triggers!Crossed(book[s])
             /\ Triggers!Seen(s)' = book[s]
    BY <1>5, FiresHolds
  <2>2. Priced'
    BY <2>1 DEF Priced, Triggers!Crossed
  <2>3. Ranged'
    BY <2>1 DEF Ranged, Triggers!Crossed
  <2>4. Triggers!Pinned' = Triggers!Pinned /\ Triggers!Tracked' = Triggers!Tracked
    BY <2>1 DEF Triggers!Pinned, Triggers!Tracked
  <2>5. Triggers!Bounded'
    BY <2>4, FewerWait
  <2> QED BY <2>1, <2>2, <2>3, <2>4, <2>5 DEF Triggers!SentFresh, Triggers!SentBreakout
<1>6. CASE Triggers!Submit
  <2>1. /\ BookTypes' /\ book' = book /\ range' = range
        /\ pass.pc = "send" /\ pass.sym \in pass.todo
        /\ pass'.todo \subseteq pass.todo /\ pass'.pc \in {"pick", "mark"}
        /\ \A s \in pass'.todo : Triggers!Seen(s)' = Triggers!Seen(s)
    BY <1>6, SubmitHolds
  <2>2. \A o \in sent' \ sent :
             LET t == Triggers!Seen(pass.sym)
             IN  /\ o.trigger = pass.trigger /\ o.stop = t.stop
                 /\ o.price = t.price /\ o.age = t.age
    BY <1>6, SubmitHolds
  <2>3. Priced' /\ Ranged'
    BY <2>1 DEF Priced, Ranged
  <2>4. Triggers!SentFresh'
    BY <2>1, <2>2 DEF Triggers!SentFresh, Priced
  <2>5. ~Revisable => Triggers!SentBreakout'
    BY <2>1, <2>2 DEF Triggers!SentBreakout, Ranged
  <2>6. Triggers!Pinned' = Triggers!Pinned /\ Triggers!Tracked' = Triggers!Tracked
    BY <2>1 DEF Triggers!Pinned, Triggers!Tracked
  <2>7. Triggers!Bounded'
    BY <2>6, FewerWait
  <2> QED BY <2>1, <2>3, <2>4, <2>5, <2>6, <2>7
<1>7. CASE Triggers!MarkFired
  <2>1. /\ BookTypes' /\ range' = range /\ sent' = sent
        /\ pass'.todo = pass.todo /\ pass'.pc = "pick" /\ pass'.kept = pass.kept
        /\ \A u \in Symbols :
             IF book[u] = None THEN book'[u] = None
             ELSE /\ book'[u] # None
                  /\ book'[u].trigger = book[u].trigger /\ book'[u].stop = book[u].stop
                  /\ book'[u].price = book[u].price /\ book'[u].age = book[u].age
                  /\ book'[u].state \in {book[u].state, "fired"}
    BY <1>7, MarkHolds
  <2>2. ASSUME NEW s \in pass.todo
        PROVE  /\ Triggers!Seen(s)'.price = Triggers!Seen(s).price
               /\ Triggers!Seen(s)'.age = Triggers!Seen(s).age
               /\ Triggers!Seen(s)'.trigger = Triggers!Seen(s).trigger
               /\ Triggers!Seen(s)'.stop = Triggers!Seen(s).stop
    BY <2>1, Zenon DEF Triggers!Seen, BookTypes, Walking
  <2>3. Priced'
    BY <2>1, <2>2 DEF Priced
  <2>4. Ranged'
    BY <2>1, <2>2 DEF Ranged
  <2>5. /\ Triggers!Pinned \subseteq Triggers!Pinned'
        /\ (Triggers!Tracked \ Triggers!Pinned)' \subseteq Triggers!Tracked \ Triggers!Pinned
    BY <2>1, Committing
  <2>6. Triggers!Bounded'
    BY <2>5, FewerWait
  <2> QED BY <2>1, <2>3, <2>4, <2>5, <2>6 DEF Triggers!SentFresh, Triggers!SentBreakout
<1> QED BY <1>1, <1>2, <1>3, <1>4, <1>5, <1>6, <1>7, Zenon DEF Triggers!Next

liveVars == <<part, vars, bookVars, clientVars, pageVars>>

\* In each step of the loop the book moves or stands still.
LEMMA BookMoves ==
    [LiveNext]_liveVars => Triggers!Next \/ UNCHANGED bookVars
  BY Zenon DEF LiveNext, Scheduler, TriggerThread, Requests, Walk, liveVars

\* While another part moves the book's invariant stays.
LEMMA BookStill == BookInv /\ UNCHANGED bookVars => BookInv'
  BY DEF BookInv, bookVars, BookTypes, Walking, Priced, Ranged, Triggers!Seen,
         Triggers!Bounded, Triggers!Tracked, Triggers!Pinned, Triggers!SentFresh,
         Triggers!SentBreakout

\* The trigger book's invariant holds at the start and after each step of the loop.
LEMMA BookInvHolds == LiveSpec => []BookInv
<1>1. LiveInit => BookInv
  BY BookStarts DEF LiveInit
<1>2. BookInv /\ [LiveNext]_liveVars => BookInv'
  BY BookMoves, BookNext, BookStill
<1> QED BY <1>1, <1>2, PTL DEF LiveSpec, liveVars

\* An order goes out on a price within the age limit, at one range's trigger and stop,
\* above its trigger, and at most max_armed triggers wait (submit_breakout_now as
\* run_live_paper's trigger thread calls it), while opening ranges do not change.
THEOREM OrdersSound ==
    ASSUME ~Revisable
    PROVE  LiveSpec => []SentSound
<1>1. BookInv => SentSound
  BY DEF BookInv, SentSound
<1> QED BY <1>1, BookInvHolds, PTL

\* Whatever the ranges do, no order goes out on a price beyond the age limit and at
\* most max_armed triggers wait (fires() asks for the age, arm() cuts the ranking).
THEOREM OrdersFresh == LiveSpec => [](Triggers!SentFresh /\ Triggers!Bounded)
<1>1. BookInv => Triggers!SentFresh /\ Triggers!Bounded
  BY DEF BookInv
<1> QED BY <1>1, BookInvHolds, PTL

\* arm() never drops or re-arms a trigger that fired or filled
\* (ArmedTriggerBook.arm, "pinned across re-ranking").
THEOREM FiredStay == LiveSpec => PinnedStays
<1>1. BookInv /\ [LiveNext]_liveVars =>
        [\A s \in Triggers!Pinned : s \in Triggers!Pinned']_(Triggers!vars)
  <2>1. UNCHANGED bookVars => UNCHANGED Triggers!vars
    BY DEF bookVars, Triggers!vars
  <2> QED BY <2>1, BookMoves, BookNext
<1> QED BY <1>1, BookInvHolds, PTL DEF LiveSpec, liveVars, PinnedStays, Triggers!PinnedStays

-----------------------------------------------------------------------------
(* The broker client *)

CallType == [op : {"none", "read", "fresh", "write"}, pc : {"none", "send", "store"},
             attempt : 0..MaxRetries, val : 0..MaxChanges, since : 0..MaxChanges,
             write : 0..MaxWrites, answered : BOOLEAN]
DoneType == [op : {"none", "read", "fresh"}, stale : BOOLEAN, missed : BOOLEAN]

ClientTypes ==
    /\ acct \in 0..MaxChanges /\ now \in 0..MaxTime /\ writes \in 0..MaxWrites
    /\ placed \in [1..MaxWrites -> Nat]
    /\ call \in [Threads -> CallType] /\ done \in [Threads -> DoneType]
    /\ wrote \in [Threads -> 0..MaxChanges]
    /\ named \subseteq 1..writes
    /\ faults \in FaultSets /\ callers \in SUBSET Threads
    /\ cache # None => cache.val \in 0..acct /\ cache.at \in 0..now

\* A call has what it needs at the place it is in; what it read is not newer than the
\* account, and what it waits to store not older than the call.
Shaped(t) ==
    /\ call[t].pc = "none" <=> call[t].op = "none"
    /\ call[t].op = "write" => call[t].pc = "send" /\ call[t].write \in 1..writes
    /\ call[t].val <= acct /\ call[t].since <= acct /\ wrote[t] <= acct
    /\ call[t].pc = "store" => call[t].since <= call[t].val
    /\ t \notin callers => call[t].pc = "none"
    /\ done[t].op = "fresh" => ~done[t].stale

\* A thread alone: nothing older than its last write is cached or waits to be.
Own(t) ==
    callers = {t} =>
        /\ cache # None => wrote[t] <= cache.val
        /\ call[t].pc = "store" => wrote[t] <= call[t].val
        /\ call[t].op = "write" => cache = None
        /\ ~done[t].missed

\* Each write under way is its thread's own, and while the broker has no server errors
\* it has had no effect yet.
OwnWrites ==
    /\ \A t, u \in Threads :
          t # u /\ call[t].op = "write" /\ call[u].op = "write" => call[t].write # call[u].write
    /\ \A w \in 1..MaxWrites : w > writes => placed[w] = 0
    /\ \A w \in named : placed[w] <= 1
    /\ "server" \notin faults =>
          /\ \A w \in 1..MaxWrites : placed[w] <= 1
          /\ \A t \in Threads : call[t].op = "write" => placed[call[t].write] = 0

ClientInv ==
    /\ ClientTypes /\ OwnWrites
    /\ \A t \in Threads : Shaped(t) /\ Own(t)

\* What the assumption says of the client's constants one by one.
LEMMA ClientConstants ==
    /\ MaxRetries \in Nat /\ TTL \in Nat /\ MaxTime \in Nat /\ MaxChanges \in Nat
    /\ MaxWrites \in Nat
  BY LiveAssumption DEF LiveAssumption, Client!ClientAssumption

\* A thread that makes no call, and one that has just begun.
LEMMA NoCallType ==
    /\ Client!NoCall \in CallType
    /\ Client!NoCall.op = "none" /\ Client!NoCall.pc = "none"
    /\ Client!NoCall.val = 0 /\ Client!NoCall.since = 0 /\ Client!NoCall.write = 0
  BY ClientConstants DEF Client!NoCall, CallType

\* A thread with nothing answered has a type.
LEMMA NothingType ==
    /\ Client!Nothing \in DoneType
    /\ Client!Nothing.op = "none" /\ ~Client!Nothing.stale /\ ~Client!Nothing.missed
  BY DEF Client!Nothing, DoneType

Asking(o, v) == [Client!NoCall EXCEPT !.op = o, !.pc = "send", !.since = v]
Sending(v, w) == [Client!NoCall EXCEPT !.op = "write", !.pc = "send", !.since = v, !.write = w]

\* A thread that asks the broker has a type,
LEMMA AskingType ==
    ASSUME NEW o \in {"read", "fresh"}, NEW v \in 0..MaxChanges
    PROVE  /\ Asking(o, v) \in CallType
           /\ Asking(o, v).op = o /\ Asking(o, v).pc = "send" /\ Asking(o, v).since = v
           /\ Asking(o, v).val = 0
<1>1. Asking(o, v) \in CallType
  BY NoCallType DEF Asking, CallType
<1> QED BY <1>1, NoCallType DEF Asking, CallType

\* and one that sends a write.
LEMMA SendingType ==
    ASSUME NEW v \in 0..MaxChanges, NEW w \in 1..MaxWrites
    PROVE  /\ Sending(v, w) \in CallType
           /\ Sending(v, w).op = "write" /\ Sending(v, w).pc = "send"
           /\ Sending(v, w).since = v /\ Sending(v, w).val = 0 /\ Sending(v, w).write = w
<1>0. w \in 0..MaxWrites
  BY ClientConstants
<1>1. Sending(v, w) \in CallType
  BY <1>0, NoCallType DEF Sending, CallType
<1> QED BY <1>1, NoCallType DEF Sending, CallType

\* The client starts with no call and nothing written.
LEMMA ClientStarts == Client!Init => ClientInv
<1> SUFFICES ASSUME Client!Init PROVE ClientInv
  OBVIOUS
<1> USE ClientConstants
<1>1. /\ acct = 0 /\ now = 0 /\ writes = 0 /\ named = {} /\ cache = None
      /\ placed = [w \in 1..MaxWrites |-> 0]
      /\ call = [t \in Threads |-> Client!NoCall]
      /\ done = [t \in Threads |-> Client!Nothing]
      /\ wrote = [t \in Threads |-> 0]
      /\ faults \in FaultSets /\ callers \in SUBSET Threads
  BY DEF Client!Init, Client!Writes
<1>2. ClientTypes
  BY <1>1, NoCallType, NothingType DEF ClientTypes
<1>3. \A t \in Threads : Shaped(t) /\ Own(t)
  BY <1>1, NoCallType, NothingType DEF Shaped, Own
<1>4. OwnWrites
  BY <1>1, NoCallType DEF OwnWrites
<1> QED BY <1>2, <1>3, <1>4 DEF ClientInv

\* What one thread's step leaves of the others' and of the account.
Alone(t) ==
    /\ \A u \in Threads \ {t} :
          call'[u] = call[u] /\ done'[u] = done[u] /\ wrote'[u] = wrote[u]
    /\ now' = now /\ faults' = faults /\ callers' = callers

StoreStill == /\ acct' = acct /\ placed' = placed /\ writes' = writes /\ named' = named
              /\ wrote' = wrote

\* A read begins: it is answered by the cache, or it asks.
Begins(t) ==
    /\ call[t].pc = "none" /\ StoreStill /\ cache' = cache
    /\ \/ /\ call'[t].op \in {"read", "fresh"} /\ call'[t].pc = "send"
          /\ call'[t].since = acct /\ call'[t].val = 0
          /\ done' = done
       \/ /\ cache # None /\ call' = call
          /\ done'[t].op = "read"
          /\ done'[t].missed => cache.val < wrote[t]

\* A read begins.
LEMMA BeginSteps ==
    ASSUME ClientInv, NEW t \in Threads, Client!ReadStart(t) \/ Client!FreshStart(t)
    PROVE  ClientTypes' /\ Alone(t) /\ Begins(t)
<1> USE ClientConstants DEF ClientInv
<1>1. /\ call[t] = Client!NoCall
      /\ StoreStill /\ cache' = cache /\ now' = now /\ faults' = faults /\ callers' = callers
  BY DEF Client!ReadStart, Client!FreshStart, Client!setting, StoreStill
<1>2. call[t].pc = "none"
  BY <1>1, NoCallType
<1>3. ASSUME NEW o \in {"read", "fresh"}, done' = done,
             call' = [call EXCEPT ![t] = Asking(o, acct)]
      PROVE  ClientTypes' /\ Alone(t) /\ Begins(t)
  <2>1. Asking(o, acct) \in CallType /\ Asking(o, acct).op = o
        /\ Asking(o, acct).pc = "send" /\ Asking(o, acct).since = acct /\ Asking(o, acct).val = 0
    BY AskingType DEF ClientTypes
  <2>2. call' \in [Threads -> CallType] /\ call'[t] = Asking(o, acct)
    BY <1>3, <2>1 DEF ClientTypes
  <2>3. \A u \in Threads \ {t} : call'[u] = call[u]
    BY <1>3 DEF ClientTypes
  <2>4. ClientTypes'
    BY <1>1, <1>3, <2>2 DEF ClientTypes, StoreStill
  <2> QED BY <1>1, <1>2, <1>3, <2>1, <2>2, <2>3, <2>4 DEF Alone, Begins, StoreStill
<1>4. CASE call' = call /\ cache # None /\ Client!Returned(t, "read", cache.val, acct)
  <2>0. (cache.val < acct) \in BOOLEAN /\ (cache.val < wrote[t]) \in BOOLEAN
    OBVIOUS
  <2>1. PICK a \in BOOLEAN, b \in BOOLEAN :
          a = (cache.val < acct) /\ b = (cache.val < wrote[t])
    BY <2>0, Zenon
  <2>2. done' = [done EXCEPT ![t] = [op |-> "read", stale |-> a, missed |-> b]]
    BY <1>4, <2>1 DEF Client!Returned
  <2>3. done' \in [Threads -> DoneType] /\ done'[t].op = "read" /\ done'[t].missed = b
    BY <2>2 DEF ClientTypes, DoneType
  <2>4. \A u \in Threads \ {t} : done'[u] = done[u]
    BY <2>2 DEF ClientTypes
  <2>5. ClientTypes'
    BY <1>1, <1>4, <2>3 DEF ClientTypes, StoreStill
  <2>6. Begins(t)
    BY <1>1, <1>2, <1>4, <2>1, <2>3 DEF Begins
  <2> QED BY <1>1, <1>4, <2>4, <2>5, <2>6 DEF Alone, StoreStill
<1>5. CASE Client!FreshStart(t)
  <2>1. done' = done /\ call' = [call EXCEPT ![t] = Asking("fresh", acct)]
    BY <1>5 DEF Client!FreshStart, Asking
  <2> QED BY <2>1, <1>3
<1>6. CASE Client!ReadStart(t)
  <2>1. CASE Client!Hit
    <3>1. call' = call /\ cache # None /\ Client!Returned(t, "read", cache.val, acct)
      BY <1>6, <2>1 DEF Client!ReadStart, Client!Hit
    <3> QED BY <3>1, <1>4
  <2>2. CASE ~Client!Hit
    <3>1. done' = done /\ call' = [call EXCEPT ![t] = Asking("read", acct)]
      BY <1>6, <2>2 DEF Client!ReadStart, Asking
    <3> QED BY <3>1, <1>3
  <2> QED BY <2>1, <2>2
<1> QED BY <1>5, <1>6

\* The broker answers a read, and the value is stored.
Answers(t) ==
    /\ call[t].op \in {"read", "fresh"} /\ call[t].pc = "send"
    /\ StoreStill /\ cache' = cache /\ done' = done
    /\ call'[t].op = call[t].op /\ call'[t].pc = "store" /\ call'[t].val = acct
    /\ call'[t].since = call[t].since

Saves(t) ==
    /\ call[t].pc = "store" /\ StoreStill
    /\ cache'.val = call[t].val
    /\ call'[t] = Client!NoCall
    /\ done'[t].stale => call[t].val < call[t].since
    /\ done'[t].missed => call[t].val < wrote[t]

\* The broker answers a read.
LEMMA AnswerSteps ==
    ASSUME ClientInv, NEW t \in Threads, Client!Answer(t)
    PROVE  ClientTypes' /\ Alone(t) /\ Answers(t)
<1> USE ClientConstants DEF ClientInv
<1>1. /\ call[t].op \in {"read", "fresh"} /\ call[t].pc = "send"
      /\ call' = [call EXCEPT ![t].pc = "store", ![t].val = acct]
      /\ StoreStill /\ cache' = cache /\ done' = done
      /\ now' = now /\ faults' = faults /\ callers' = callers
  BY DEF Client!Answer, Client!setting, StoreStill
<1>2. call[t] \in CallType /\ acct \in 0..MaxChanges
  BY DEF ClientTypes
<1>3. PICK c : c = [call[t] EXCEPT !.pc = "store", !.val = acct]
  OBVIOUS
<1>4. c \in CallType /\ c.op = call[t].op /\ c.pc = "store" /\ c.val = acct
      /\ c.since = call[t].since
  BY <1>2, <1>3 DEF CallType
<1>5. call' = [call EXCEPT ![t] = c]
  BY <1>1, <1>3 DEF ClientTypes
<1>6. call' \in [Threads -> CallType] /\ call'[t] = c /\ \A u \in Threads \ {t} : call'[u] = call[u]
  BY <1>4, <1>5 DEF ClientTypes
<1>7. ClientTypes'
  BY <1>1, <1>6 DEF ClientTypes, StoreStill
<1> QED BY <1>1, <1>4, <1>6, <1>7 DEF Alone, Answers, StoreStill

\* What was read is stored in the cache and returned.
LEMMA StoreSteps ==
    ASSUME ClientInv, NEW t \in Threads, Client!Store(t)
    PROVE  ClientTypes' /\ Alone(t) /\ Saves(t)
<1> USE ClientConstants DEF ClientInv
<1>1. /\ call[t].pc = "store" /\ cache' = [val |-> call[t].val, at |-> now]
      /\ Client!Returned(t, call[t].op, call[t].val, call[t].since)
      /\ call' = [call EXCEPT ![t] = Client!NoCall]
      /\ StoreStill /\ now' = now /\ faults' = faults /\ callers' = callers
  BY DEF Client!Store, Client!setting, StoreStill
<1>2. /\ call[t] \in CallType /\ call[t].val \in 0..acct /\ call[t].op \in {"read", "fresh"}
  BY <1>1 DEF ClientTypes, CallType, Shaped
<1>3. call' \in [Threads -> CallType] /\ call'[t] = Client!NoCall
      /\ \A u \in Threads \ {t} : call'[u] = call[u]
  BY <1>1, NoCallType DEF ClientTypes
<1>4. (call[t].val < call[t].since) \in BOOLEAN /\ (call[t].val < wrote[t]) \in BOOLEAN
  OBVIOUS
<1>5. PICK a \in BOOLEAN, b \in BOOLEAN :
        a = (call[t].val < call[t].since) /\ b = (call[t].val < wrote[t])
  BY <1>4, Zenon
<1>6. done' = [done EXCEPT ![t] = [op |-> call[t].op, stale |-> a, missed |-> b]]
  BY <1>1, <1>5 DEF Client!Returned
<1>7. done' \in [Threads -> DoneType] /\ done'[t].stale = a /\ done'[t].missed = b
      /\ \A u \in Threads \ {t} : done'[u] = done[u]
  BY <1>2, <1>6 DEF ClientTypes, DoneType
<1>8. cache'.val = call[t].val /\ cache'.at = now
  BY <1>1
<1>9. ClientTypes'
  BY <1>1, <1>2, <1>3, <1>7, <1>8 DEF ClientTypes, StoreStill
<1>10. Alone(t)
  BY <1>1, <1>3, <1>7 DEF Alone, StoreStill
<1>11. Saves(t)
  BY <1>1, <1>3, <1>5, <1>7, <1>8 DEF Saves
<1> QED BY <1>9, <1>10, <1>11

\* A write begins: the cache is emptied, and the write is a new one.
Opens(t) ==
    /\ call[t].pc = "none" /\ cache' = None
    /\ acct' = acct /\ placed' = placed /\ wrote' = wrote /\ done' = done
    /\ writes' = writes + 1 /\ writes' \in 1..MaxWrites
    /\ named' \subseteq named \cup {writes'}
    /\ call'[t].op = "write" /\ call'[t].pc = "send" /\ call'[t].write = writes'
    /\ call'[t].val = 0 /\ call'[t].since = acct

\* A write begins: the cache is emptied.
LEMMA OpenSteps ==
    ASSUME ClientInv, NEW t \in Threads, Client!WriteStart(t)
    PROVE  ClientTypes' /\ Alone(t) /\ Opens(t)
<1> USE ClientConstants DEF ClientInv
<1>1. /\ call[t] = Client!NoCall /\ writes < MaxWrites /\ writes' = writes + 1
      /\ named' \in {named, named \cup {writes + 1}}
      /\ call' = [call EXCEPT ![t] = Sending(acct, writes + 1)]
      /\ cache' = None
      /\ acct' = acct /\ placed' = placed /\ wrote' = wrote /\ done' = done
      /\ now' = now /\ faults' = faults /\ callers' = callers
  BY DEF Client!WriteStart, Client!Emptied, Client!setting, Sending
<1>2. writes + 1 \in 1..MaxWrites /\ acct \in 0..MaxChanges
  BY <1>1 DEF ClientTypes
<1>3. PICK w \in 1..MaxWrites : w = writes + 1
  BY <1>2
<1>4. /\ Sending(acct, w) \in CallType
      /\ Sending(acct, w).op = "write" /\ Sending(acct, w).pc = "send"
      /\ Sending(acct, w).since = acct /\ Sending(acct, w).val = 0 /\ Sending(acct, w).write = w
  BY <1>2, SendingType
<1>5. call' = [call EXCEPT ![t] = Sending(acct, w)]
  BY <1>1, <1>3
<1>6. call' \in [Threads -> CallType] /\ call'[t] = Sending(acct, w)
      /\ \A u \in Threads \ {t} : call'[u] = call[u]
  BY <1>4, <1>5 DEF ClientTypes
<1>7. writes' \in 0..MaxWrites /\ named' \subseteq 1..writes'
  BY <1>1, <1>2 DEF ClientTypes
<1>8. ClientTypes'
  BY <1>1, <1>6, <1>7 DEF ClientTypes
<1>9. Alone(t)
  BY <1>1, <1>6 DEF Alone
<1>10. Opens(t)
  BY <1>1, <1>2, <1>3, <1>4, <1>6, NoCallType DEF Opens
<1> QED BY <1>8, <1>9, <1>10

\* A request that was sent: it has an effect or none, and is over or sent again.  With
\* no server errors it is over when it had one.
Effect(t) ==
    /\ call[t].op = "write" /\ acct' = acct + 1
    /\ call[t].write \in named => placed[call[t].write] = 0
    /\ placed' = [placed EXCEPT ![call[t].write] = @ + 1]

Sends(t) ==
    /\ call[t].pc = "send" /\ cache' = cache /\ writes' = writes /\ named' = named
    /\ \/ Effect(t) /\ ("server" \notin faults => call'[t] = Client!NoCall)
       \/ acct' = acct /\ placed' = placed
    /\ \/ call'[t] = Client!NoCall /\ done'[t] = Client!Nothing
          /\ (wrote' = wrote \/ (call[t].op = "write" /\ wrote'[t] = acct'))
       \/ /\ call'[t].op = call[t].op /\ call'[t].pc = call[t].pc
          /\ call'[t].val = call[t].val /\ call'[t].since = call[t].since
          /\ call'[t].write = call[t].write
          /\ done' = done /\ wrote' = wrote

\* What TakesEffect does to the account.
LEMMA EffectTypes ==
    ASSUME ClientInv, NEW t \in Threads, call[t].op = "write", Client!TakesEffect(t)
    PROVE  /\ Effect(t) /\ acct' \in 0..MaxChanges
           /\ placed' \in [1..MaxWrites -> Nat]
<1> USE ClientConstants DEF ClientInv
<1>1. call[t].write \in 1..MaxWrites
  BY DEF Shaped, ClientTypes
<1>2. /\ acct < MaxChanges /\ acct' = acct + 1
      /\ placed' = [placed EXCEPT ![call[t].write] = @ + 1]
      /\ call[t].write \in named => ~(placed[call[t].write] > 0)
  BY DEF Client!TakesEffect, Client!Refused
<1>3. placed[call[t].write] \in Nat
  BY <1>1 DEF ClientTypes
<1>4. acct' \in 0..MaxChanges /\ placed' \in [1..MaxWrites -> Nat]
  BY <1>1, <1>2, <1>3 DEF ClientTypes
<1>5. call[t].write \in named => placed[call[t].write] = 0
  BY <1>2, <1>3
<1> QED BY <1>2, <1>4, <1>5 DEF Effect

\* A call that is over, or one that is sent again.
LEMMA OverOrAgain ==
    ASSUME ClientInv, NEW t \in Threads, NEW a \in BOOLEAN,
           Client!Raises(t) \/ Client!Again(t, a)
    PROVE  /\ call' \in [Threads -> CallType] /\ done' \in [Threads -> DoneType]
           /\ \A u \in Threads \ {t} : call'[u] = call[u] /\ done'[u] = done[u]
           /\ \/ call'[t] = Client!NoCall /\ done'[t] = Client!Nothing
              \/ /\ ~Client!Raises(t)
                 /\ call'[t].op = call[t].op /\ call'[t].pc = call[t].pc
                 /\ call'[t].val = call[t].val /\ call'[t].since = call[t].since
                 /\ call'[t].write = call[t].write
                 /\ done' = done
<1> USE ClientConstants DEF ClientInv
<1>1. CASE Client!Raises(t)
  BY <1>1, NoCallType, NothingType DEF Client!Raises, ClientTypes
<1>2. CASE Client!Again(t, a) /\ ~Client!Raises(t)
  <2>1. /\ call[t].attempt < MaxRetries /\ done' = done
        /\ call' = [call EXCEPT ![t].attempt = @ + 1, ![t].answered = a]
    BY <1>2 DEF Client!Again
  <2>2. call[t] \in CallType
    BY DEF ClientTypes
  <2>3. call[t].attempt + 1 \in 0..MaxRetries
    BY <2>1, <2>2 DEF CallType
  <2>4. PICK n \in 0..MaxRetries : n = call[t].attempt + 1
    BY <2>3
  <2>5. PICK c : c = [call[t] EXCEPT !.attempt = n, !.answered = a]
    OBVIOUS
  <2>6. c \in CallType /\ c.op = call[t].op /\ c.pc = call[t].pc
        /\ c.val = call[t].val /\ c.since = call[t].since /\ c.write = call[t].write
    BY <2>2, <2>5 DEF CallType
  <2>7. call' = [call EXCEPT ![t] = c]
    BY <2>1, <2>4, <2>5 DEF ClientTypes
  <2> QED BY <1>2, <2>1, <2>6, <2>7 DEF ClientTypes
<1> QED BY <1>1, <1>2

\* A write is made or refused, or a try fails.
LEMMA SendSteps ==
    ASSUME ClientInv, NEW t \in Threads,
           Client!WriteOk(t) \/ Client!WriteRefused(t) \/ Client!Fail(t)
    PROVE  ClientTypes' /\ Alone(t) /\ Sends(t)
<1> USE ClientConstants DEF ClientInv
<1>0. /\ acct \in 0..MaxChanges /\ placed \in [1..MaxWrites -> Nat]
      /\ call[t] \in CallType
  BY DEF ClientTypes
<1>1. CASE Client!WriteOk(t)
  <2>1. /\ call[t].op = "write" /\ call[t].pc = "send" /\ Client!TakesEffect(t)
        /\ wrote' = [wrote EXCEPT ![t] = acct']
        /\ Client!Raises(t)
        /\ now' = now /\ cache' = cache /\ writes' = writes /\ named' = named
        /\ faults' = faults /\ callers' = callers
    BY <1>1 DEF Client!WriteOk, Client!Raises, Client!setting
  <2>2. Effect(t) /\ acct' \in 0..MaxChanges /\ placed' \in [1..MaxWrites -> Nat]
    BY <2>1, EffectTypes
  <2>3. PICK v : v = acct'
    OBVIOUS
  <2>4. wrote' \in [Threads -> 0..MaxChanges] /\ wrote'[t] = acct'
        /\ \A u \in Threads \ {t} : wrote'[u] = wrote[u]
    BY <2>1, <2>2, <2>3 DEF ClientTypes
  <2>5. /\ call' \in [Threads -> CallType] /\ done' \in [Threads -> DoneType]
        /\ \A u \in Threads \ {t} : call'[u] = call[u] /\ done'[u] = done[u]
        /\ call'[t] = Client!NoCall /\ done'[t] = Client!Nothing
    BY <2>1, OverOrAgain
  <2>6. acct' = acct + 1
    BY <2>2 DEF Effect
  <2>7. ClientTypes'
    BY <2>1, <2>2, <2>4, <2>5, <2>6 DEF ClientTypes
  <2> QED BY <2>1, <2>2, <2>4, <2>5, <2>7 DEF Alone, Sends
<1>2. CASE Client!WriteRefused(t)
  <2>1. /\ call[t].op = "write" /\ call[t].pc = "send" /\ Client!Raises(t)
        /\ acct' = acct /\ placed' = placed /\ wrote' = wrote
        /\ now' = now /\ cache' = cache /\ writes' = writes /\ named' = named
        /\ faults' = faults /\ callers' = callers
    BY <1>2 DEF Client!WriteRefused, Client!setting
  <2>2. /\ call' \in [Threads -> CallType] /\ done' \in [Threads -> DoneType]
        /\ \A u \in Threads \ {t} : call'[u] = call[u] /\ done'[u] = done[u]
        /\ call'[t] = Client!NoCall /\ done'[t] = Client!Nothing
    BY <2>1, OverOrAgain
  <2>3. ClientTypes'
    BY <2>1, <2>2 DEF ClientTypes
  <2> QED BY <2>1, <2>2, <2>3 DEF Alone, Sends
<1>3. CASE Client!Fail(t)
  <2>1. /\ call[t].pc = "send"
        /\ wrote' = wrote
        /\ now' = now /\ cache' = cache /\ writes' = writes /\ named' = named
        /\ faults' = faults /\ callers' = callers
    BY <1>3 DEF Client!Fail, Client!setting
  <2>2. call[t].answered \in BOOLEAN
    BY <1>0 DEF CallType
  <2>3. PICK a \in BOOLEAN : Client!Raises(t) \/ Client!Again(t, a)
    BY <1>3, <2>2, Zenon DEF Client!Fail
  <2>4. /\ call' \in [Threads -> CallType] /\ done' \in [Threads -> DoneType]
        /\ \A u \in Threads \ {t} : call'[u] = call[u] /\ done'[u] = done[u]
        /\ \/ call'[t] = Client!NoCall /\ done'[t] = Client!Nothing
           \/ /\ ~Client!Raises(t)
              /\ call'[t].op = call[t].op /\ call'[t].pc = call[t].pc
              /\ call'[t].val = call[t].val /\ call'[t].since = call[t].since
              /\ call'[t].write = call[t].write
              /\ done' = done
    BY <2>3, OverOrAgain
  <2>5. \/ acct' = acct /\ placed' = placed
        \/ /\ call[t].op = "write" /\ Client!TakesEffect(t)
           /\ "server" \notin faults => Client!Raises(t)
    BY <1>3 DEF Client!Fail, Client!NoEffect, Client!MayTakeEffect
  <2>6. /\ acct' \in 0..MaxChanges /\ placed' \in [1..MaxWrites -> Nat]
        /\ \/ acct' = acct /\ placed' = placed
           \/ Effect(t) /\ ("server" \notin faults => Client!Raises(t))
    BY <2>5, <1>0, EffectTypes
  <2>7. acct' \in {acct, acct + 1}
    BY <2>6 DEF Effect
  <2>8. ClientTypes'
    <3>1. cache' # None => cache'.val \in 0..acct' /\ cache'.at \in 0..now'
      BY <2>1, <2>7, <1>0 DEF ClientTypes
    <3> QED BY <2>1, <2>4, <2>6, <3>1 DEF ClientTypes
  <2>9. Client!Raises(t) => call'[t] = Client!NoCall
    BY DEF Client!Raises, ClientTypes
  <2>10. Sends(t)
    BY <2>1, <2>4, <2>6, <2>9 DEF Sends
  <2> QED BY <2>1, <2>4, <2>8, <2>10 DEF Alone
<1> QED BY <1>1, <1>2, <1>3

\* A step of one thread keeps the shape of every call.
LEMMA ShapeKept ==
    ASSUME ClientInv, NEW t \in callers, ClientTypes', Alone(t),
           Begins(t) \/ Answers(t) \/ Saves(t) \/ Opens(t) \/ Sends(t)
    PROVE  \A u \in Threads : Shaped(u)'
<1> USE ClientConstants DEF ClientInv
<1>0. t \in Threads /\ acct \in Nat /\ acct' \in Nat
  BY DEF ClientTypes
<1>1. acct <= acct' /\ writes <= writes'
  BY DEF Begins, Answers, Saves, Opens, Sends, Effect, StoreStill, ClientTypes
<1>2. ASSUME NEW u \in Threads \ {t} PROVE Shaped(u)'
  <2>1. call'[u] = call[u] /\ done'[u] = done[u] /\ wrote'[u] = wrote[u] /\ callers' = callers
    BY DEF Alone
  <2>2. call[u] \in CallType /\ wrote[u] \in Nat /\ writes \in Nat /\ writes' \in Nat
    BY DEF ClientTypes
  <2>3. Shaped(u)
    OBVIOUS
  <2> QED BY <2>1, <2>2, <2>3, <1>0, <1>1 DEF Shaped, CallType
<1>3. Shaped(t)'
  <2>1. /\ Shaped(t) /\ call[t] \in CallType /\ call'[t] \in CallType
        /\ wrote[t] \in Nat /\ callers' = callers
        /\ writes \in Nat /\ done'[t] \in DoneType
    BY <1>0 DEF ClientTypes, Alone
  <2>2. CASE Begins(t)
    <3>1. done'[t].op = "fresh" => ~done'[t].stale
      <4>1. done' = done \/ done'[t].op = "read"
        BY <2>2 DEF Begins
      <4>2. done[t].op = "fresh" => ~done[t].stale
        BY <2>1 DEF Shaped
      <4> QED BY <4>1, <4>2
    <3>2. acct' = acct /\ writes' = writes /\ wrote' = wrote
      BY <2>2 DEF Begins, StoreStill
    <3>3. CASE call' = call
      BY <3>1, <3>2, <3>3, <2>1 DEF Shaped
    <3>4. CASE call' # call
      BY <3>1, <3>2, <3>4, <1>0, <2>1, <2>2 DEF Begins, Shaped, CallType
    <3> QED BY <3>3, <3>4
  <2>3. CASE Answers(t)
    BY <1>0, <2>1, <2>3 DEF Answers, StoreStill, Shaped, CallType
  <2>4. CASE Saves(t)
    BY <1>0, <2>1, <2>4, NoCallType DEF Saves, StoreStill, Shaped, CallType
  <2>5. CASE Opens(t)
    BY <1>0, <2>1, <2>5 DEF Opens, Shaped, CallType
  <2>6. CASE Sends(t)
    <3>1. call[t].val <= acct' /\ call[t].since <= acct' /\ wrote[t] <= acct'
      BY <1>0, <1>1, <2>1 DEF Shaped, CallType
    <3>2. wrote'[t] <= acct'
      BY <1>0, <2>6, <3>1 DEF Sends
    <3> QED BY <1>0, <2>1, <2>6, <3>1, <3>2, NoCallType, NothingType DEF Sends, Shaped, CallType
  <2> QED BY <2>2, <2>3, <2>4, <2>5, <2>6
<1> QED BY <1>2, <1>3

\* While one thread makes the calls, its steps keep what it has read and cached behind
\* no write of its own.
LEMMA OwnKept ==
    ASSUME ClientInv, NEW t \in callers, ClientTypes', Alone(t),
           Begins(t) \/ Answers(t) \/ Saves(t) \/ Opens(t) \/ Sends(t)
    PROVE  \A u \in Threads : Own(u)'
<1> USE ClientConstants DEF ClientInv
<1> SUFFICES ASSUME NEW u \in Threads, callers' = {u}
             PROVE  /\ cache' # None => wrote'[u] <= cache'.val
                    /\ call'[u].pc = "store" => wrote'[u] <= call'[u].val
                    /\ call'[u].op = "write" => cache' = None
                    /\ ~done'[u].missed
  BY DEF Own
<1>1. u = t /\ callers = {t}
  BY DEF Alone
<1>2. /\ cache # None => wrote[t] <= cache.val
      /\ call[t].pc = "store" => wrote[t] <= call[t].val
      /\ call[t].op = "write" => cache = None
      /\ ~done[t].missed
  BY <1>1 DEF Own
<1>3. /\ Shaped(t) /\ call[t] \in CallType /\ wrote[t] \in Nat /\ acct \in Nat
      /\ cache # None => cache.val \in Nat
  BY <1>1 DEF ClientTypes
<1>4. CASE Begins(t)
  <2>1. cache' = cache /\ wrote' = wrote
    BY <1>4 DEF Begins, StoreStill
  <2>2. CASE done' = done /\ call'[t].op \in {"read", "fresh"} /\ call'[t].pc = "send"
    BY <1>1, <1>2, <2>1, <2>2
  <2>3. CASE cache # None /\ call' = call /\ (done'[t].missed => cache.val < wrote[t])
    BY <1>1, <1>2, <1>3, <2>1, <2>3
  <2> QED BY <1>4, <2>2, <2>3 DEF Begins
<1>5. CASE Answers(t)
  BY <1>1, <1>2, <1>3, <1>5 DEF Answers, StoreStill, Shaped
<1>6. CASE Saves(t)
  <2>1. wrote' = wrote /\ cache'.val = call[t].val /\ call'[t].pc = "none" /\ call'[t].op = "none"
    BY <1>6, NoCallType DEF Saves, StoreStill
  <2>2. wrote[t] <= call[t].val
    BY <1>2, <1>6 DEF Saves
  <2>3. ~done'[t].missed
    BY <1>3, <1>6, <2>2 DEF Saves, CallType
  <2> QED BY <1>1, <2>1, <2>2, <2>3
<1>7. CASE Opens(t)
  BY <1>1, <1>2, <1>7 DEF Opens
<1>8. CASE Sends(t)
  <2>1. cache' = cache /\ call'[t].pc \in {"none", "send"}
    BY <1>8, NoCallType DEF Sends
  <2>2. CASE call[t].op = "write"
    <3>1. cache' = None
      BY <1>2, <2>1, <2>2
    <3>2. ~done'[t].missed
      BY <1>2, <1>8, NothingType DEF Sends
    <3> QED BY <1>1, <2>1, <3>1, <3>2
  <2>3. CASE call[t].op # "write"
    <3>1. wrote' = wrote /\ call'[t].op # "write"
      BY <1>8, <2>3, NoCallType DEF Sends
    <3>2. ~done'[t].missed
      BY <1>2, <1>8, NothingType DEF Sends
    <3> QED BY <1>1, <1>2, <2>1, <3>1, <3>2
  <2> QED BY <2>2, <2>3
<1> QED BY <1>4, <1>5, <1>6, <1>7, <1>8

\* No step makes a write take effect that had one, named or not, but for the server's
\* errors.
LEMMA WritesKept ==
    ASSUME ClientInv, NEW t \in callers, ClientTypes', Alone(t),
           Begins(t) \/ Answers(t) \/ Saves(t) \/ Opens(t) \/ Sends(t)
    PROVE  OwnWrites'
<1> USE ClientConstants DEF ClientInv
<1>0. /\ t \in Threads /\ faults' = faults
      /\ \A u \in Threads : u # t => call'[u] = call[u]
  BY DEF ClientTypes, Alone
<1>1. \A u \in Threads : call[u].op = "write" => call[u].write \in 1..writes
  BY DEF Shaped
<1>2. writes \in 0..MaxWrites /\ placed \in [1..MaxWrites -> Nat] /\ named \subseteq 1..writes
  BY DEF ClientTypes
<1>3. CASE Begins(t) \/ Answers(t) \/ Saves(t)
  <2>1. placed' = placed /\ writes' = writes /\ named' = named
    BY <1>3 DEF Begins, Answers, Saves, StoreStill
  <2>2. call'[t].op # "write" \/ call' = call
    BY <1>3, NoCallType DEF Begins, Answers, Saves
  <2> QED BY <1>0, <2>1, <2>2 DEF OwnWrites
<1>4. CASE Opens(t)
  <2>1. /\ placed' = placed /\ writes' = writes + 1 /\ writes' \in 1..MaxWrites
        /\ named' \subseteq named \cup {writes'}
        /\ call'[t].op = "write" /\ call'[t].write = writes'
    BY <1>4 DEF Opens
  <2>2. placed[writes'] = 0
    BY <1>2, <2>1 DEF OwnWrites
  <2>3. \A u, v \in Threads :
          u # v /\ call'[u].op = "write" /\ call'[v].op = "write" => call'[u].write # call'[v].write
    BY <1>0, <1>1, <1>2, <2>1 DEF OwnWrites
  <2>4. \A w \in named' : placed'[w] <= 1
    BY <2>1, <2>2 DEF OwnWrites
  <2>5. \A w \in 1..MaxWrites : w > writes' => placed'[w] = 0
    BY <1>2, <2>1 DEF OwnWrites
  <2>6. \A u \in Threads : "server" \notin faults /\ call'[u].op = "write" =>
          placed'[call'[u].write] = 0
    BY <1>0, <2>1, <2>2 DEF OwnWrites
  <2> QED BY <1>0, <2>1, <2>3, <2>4, <2>5, <2>6 DEF OwnWrites
<1>5. CASE Sends(t)
  <2>1. writes' = writes /\ named' = named
    BY <1>5 DEF Sends
  <2>2. call'[t].op # "write" \/ (call'[t].op = call[t].op /\ call'[t].write = call[t].write)
    BY <1>5, NoCallType DEF Sends
  <2>3. \A u, v \in Threads :
          u # v /\ call'[u].op = "write" /\ call'[v].op = "write" => call'[u].write # call'[v].write
    BY <1>0, <2>2 DEF OwnWrites
  <2>4. CASE placed' = placed
    BY <1>0, <2>1, <2>2, <2>3, <2>4 DEF OwnWrites
  <2>5. CASE Effect(t) /\ ("server" \notin faults => call'[t] = Client!NoCall)
    <3> DEFINE k == call[t].write
    <3>1. /\ call[t].op = "write" /\ k \in 1..writes /\ k \in 1..MaxWrites
          /\ k \in named => placed[k] = 0
          /\ placed' = [placed EXCEPT ![k] = @ + 1]
      BY <1>0, <1>1, <1>2, <2>5 DEF Effect
    <3>2. placed'[k] = placed[k] + 1 /\ \A w \in 1..MaxWrites : w # k => placed'[w] = placed[w]
      BY <1>2, <3>1
    <3>3. \A w \in named' : placed'[w] <= 1
      BY <1>2, <2>1, <3>1, <3>2 DEF OwnWrites
    <3>4. \A w \in 1..MaxWrites : w > writes' => placed'[w] = 0
      BY <1>2, <2>1, <3>1, <3>2 DEF OwnWrites
    <3>5. ASSUME "server" \notin faults
          PROVE  /\ \A w \in 1..MaxWrites : placed'[w] <= 1
                 /\ \A u \in Threads : call'[u].op = "write" => placed'[call'[u].write] = 0
      <4>1. call'[t].op = "none" /\ placed[k] = 0
        BY <1>0, <2>5, <3>1, <3>5, NoCallType DEF OwnWrites
      <4>2. \A w \in 1..MaxWrites : placed'[w] <= 1
        BY <3>2, <3>5, <4>1 DEF OwnWrites
      <4>3. ASSUME NEW u \in Threads, call'[u].op = "write" PROVE placed'[call'[u].write] = 0
        <5>1. u # t /\ call'[u] = call[u] /\ call[u].op = "write"
          BY <1>0, <4>1, <4>3
        <5>2. call[u].write # k /\ call[u].write \in 1..MaxWrites /\ placed[call[u].write] = 0
          BY <1>0, <1>1, <1>2, <3>1, <3>5, <5>1 DEF OwnWrites
        <5> QED BY <3>2, <5>1, <5>2
      <4> QED BY <4>2, <4>3
    <3> QED BY <1>0, <2>3, <3>3, <3>4, <3>5 DEF OwnWrites
  <2> QED BY <1>5, <2>4, <2>5 DEF Sends
<1> QED BY <1>3, <1>4, <1>5

\* Time passes, or the account changes by itself.
LEMMA WorldKeeps ==
    ASSUME ClientInv, Client!Tick \/ Client!Changes
    PROVE  ClientInv'
<1> USE ClientConstants
<1>1. /\ placed' = placed /\ cache' = cache /\ call' = call /\ wrote' = wrote /\ done' = done
      /\ writes' = writes /\ named' = named /\ faults' = faults /\ callers' = callers
      /\ acct' \in 0..MaxChanges /\ acct <= acct' /\ acct \in Nat
      /\ now' \in 0..MaxTime /\ now <= now' /\ now \in Nat
  BY DEF Client!Tick, Client!Changes, Client!setting, ClientInv, ClientTypes
<1>2. cache' # None => cache'.val \in 0..acct' /\ cache'.at \in 0..now'
  BY <1>1 DEF ClientInv, ClientTypes
<1>3. ClientTypes'
  BY <1>1, <1>2 DEF ClientInv, ClientTypes
<1>4. ASSUME NEW t \in Threads PROVE Shaped(t)'
  <2>1. Shaped(t) /\ call[t] \in CallType /\ wrote[t] \in Nat
    BY DEF ClientInv, ClientTypes
  <2> QED BY <1>1, <2>1 DEF Shaped, CallType
<1>5. \A t \in Threads : Own(t)'
  BY <1>1 DEF ClientInv, Own
<1>6. OwnWrites'
  BY <1>1 DEF ClientInv, OwnWrites
<1> QED BY <1>3, <1>4, <1>5, <1>6 DEF ClientInv

\* Each step of the client keeps its invariant.
LEMMA ClientNext == ClientInv /\ Client!Next => ClientInv'
<1> SUFFICES ASSUME ClientInv, Client!Next PROVE ClientInv'
  OBVIOUS
<1>1. ASSUME NEW t \in callers, Client!Calls(t) PROVE ClientInv'
  <2>1. t \in Threads
    BY DEF ClientInv, ClientTypes
  <2>2. /\ ClientTypes' /\ Alone(t)
        /\ Begins(t) \/ Answers(t) \/ Saves(t) \/ Opens(t) \/ Sends(t)
    BY <1>1, <2>1, BeginSteps, AnswerSteps, StoreSteps, OpenSteps, SendSteps, Zenon
       DEF Client!Calls
  <2> QED BY <2>2, ShapeKept, OwnKept, WritesKept DEF ClientInv
<1> QED BY <1>1, WorldKeeps DEF Client!Next

\* While another part moves it stays.
LEMMA ClientStill == ClientInv /\ UNCHANGED clientVars => ClientInv'
<1> SUFFICES ASSUME ClientInv, UNCHANGED clientVars PROVE ClientInv'
  OBVIOUS
<1>1. ClientTypes'
  BY DEF ClientInv, clientVars, ClientTypes
<1>2. \A t \in Threads : Shaped(t)' /\ Own(t)'
  BY DEF ClientInv, clientVars, Shaped, Own
<1>3. OwnWrites'
  BY DEF ClientInv, clientVars, OwnWrites
<1> QED BY <1>1, <1>2, <1>3 DEF ClientInv

\* The client's invariant holds at the start and after each step of the loop.
LEMMA ClientInvHolds == LiveSpec => []ClientInv
<1>1. LiveInit => ClientInv
  BY ClientStarts DEF LiveInit
<1>2. [LiveNext]_liveVars => Client!Next \/ UNCHANGED clientVars
  BY Zenon DEF LiveNext, Scheduler, TriggerThread, Requests, Walk, liveVars
<1>3. ClientInv /\ [LiveNext]_liveVars => ClientInv'
  BY <1>2, ClientNext, ClientStill
<1> QED BY <1>1, <1>3, PTL DEF LiveSpec, liveVars

\* A read with fresh=True is not older than its call, and a thread alone on the client
\* reads what it wrote (AlpacaPaperClient._request and its cache), for any number of
\* threads, retries and changes.
THEOREM ReadsFresh == LiveSpec => []ReadsTrue
<1>1. ClientInv => ReadsTrue
  BY DEF ClientInv, Shaped, Own, ReadsTrue, Client!FreshIsFresh, Client!ReadYourWrites
<1> QED BY <1>1, ClientInvHolds, PTL

\* An order with a client_order_id takes effect once however often it is sent, and any
\* write once while the broker has no server errors (AlpacaPaperClient._request).
THEOREM SentOnce == LiveSpec => []WritesOnce
<1>1. ClientInv => WritesOnce
  BY DEF ClientInv, OwnWrites, WritesOnce, Client!NamedOnce, Client!WrittenOnce, Client!Writes
<1> QED BY <1>1, ClientInvHolds, PTL

-----------------------------------------------------------------------------
(* The walk over the order history *)

HistoryOrder == [at : Nat \ {0}, legs : 0..MaxLegs]

PageTypes ==
    /\ history \in Seq(HistoryOrder) /\ Len(history) <= MaxOrders
    /\ out \in Seq(Nat) /\ until \in Nat
    /\ newest \in 0..Len(history) /\ pages \in 0..MaxPages
    /\ state \in {"idle", "paging", "done"}

\* The history is in the order of its times.
InOrder == \A i, j \in 1..Len(history) : i <= j => history[i].at <= history[j].at

\* What was read is of the first page's moment, newest first; the next page ends before
\* the time of the last order read.
Descends ==
    /\ \A k \in 1..Len(out) : out[k] \in 1..newest
    /\ Pages!NewestFirst
    /\ state = "idle" => out = <<>> /\ until = 0
    /\ state = "paging" => Len(out) >= 1 /\ until = history[out[Len(out)]].at

\* While no two orders share a time, the newest were read and none left out; without
\* legs all of them, once the walk is over with pages to spare.
Gapless ==
    Pages!DistinctTimes =>
        /\ Len(out) <= newest
        /\ \A k \in 1..Len(out) : out[k] = newest - k + 1
        /\ state = "done" /\ pages < MaxPages /\ (\A i \in 1..Len(history) : history[i].legs = 0)
             => Len(out) = newest

PagesInv == PageTypes /\ InOrder /\ Descends /\ Gapless

(* Induction *)

\* Every set of naturals that is not empty has a least element.
LEMMA LeastNatural ==
    ASSUME NEW T \in SUBSET Nat, T # {}
    PROVE  \E x \in T : \A y \in T : x <= y
<1> DEFINE R == OpToRel(<, Nat)
<1>1. IsWellFoundedOn(R, Nat)
  BY NatLessThanWellFounded
<1>2. \A i, j \in Nat : i < j => <<i, j>> \in R
  BY DEF OpToRel
<1> HIDE DEF R
<1>3. PICK x \in T : \A y \in T : ~ (<<y, x>> \in R)
  BY <1>1, WFMin
<1>4. ASSUME NEW y \in T PROVE x <= y
  <2>1. x \in Nat /\ y \in Nat
    OBVIOUS
  <2>2. ~ (y < x)
    BY <2>1, <1>2, <1>3, Zenon
  <2> QED BY <2>1, <2>2
<1> QED BY <1>4

\* What holds of m, and of n + 1 when it holds of n, holds from m on to k.
LEMMA Induct ==
    ASSUME NEW m \in Nat, NEW k \in Nat, NEW S,
           m \in S, \A n \in m..k : n \in S /\ n < k => n + 1 \in S
    PROVE  m..k \subseteq S
<1> SUFFICES ASSUME NEW x \in m..k, x \notin S PROVE FALSE
  OBVIOUS
<1> DEFINE T == {n \in m..k : n \notin S}
<1>1. T \in SUBSET Nat /\ T # {}
  OBVIOUS
<1>2. PICK l \in T : \A y \in T : l <= y
  BY <1>1, LeastNatural
<1>3. l \in m..k /\ l \notin S /\ l # m
  OBVIOUS
<1>4. l - 1 \in m..k /\ l - 1 < l /\ l - 1 < k /\ (l - 1) + 1 = l
  BY <1>3
<1>5. l - 1 \in S
  BY <1>2, <1>4
<1> QED BY <1>3, <1>4, <1>5


\* What the assumption says of the constants of the walk.
LEMMA PageConstants ==
    /\ MaxOrders \in Nat /\ MaxLegs \in Nat /\ Limit \in Nat \ {0} /\ MaxPages \in Nat \ {0}
  BY LiveAssumption DEF LiveAssumption, Pages!PagesAssumption

\* The walk starts with nothing read.
LEMMA PagesStart == Pages!Init => PagesInv
<1> SUFFICES ASSUME Pages!Init PROVE PagesInv
  OBVIOUS
<1>1. /\ history = <<>> /\ out = <<>> /\ until = 0 /\ pages = 0 /\ newest = 0
      /\ state = "idle"
  BY DEF Pages!Init
<1> QED BY <1>1, PageConstants DEF PagesInv, PageTypes, InOrder, Descends, Gapless, Pages!NewestFirst

\* A new order comes last, and takes nothing from what was read.
LEMMA NewOrder == PagesInv /\ Pages!Submitted => PagesInv'
<1> SUFFICES ASSUME PagesInv, Pages!Submitted PROVE PagesInv'
  OBVIOUS
<1> USE PageConstants DEF PagesInv
<1>1. PICK l \in 0..MaxLegs, gap \in {0, 1} :
        history' = Append(history, [at |-> (IF history = <<>> THEN 1 ELSE history[Len(history)].at)
                                           + gap, legs |-> l])
  BY DEF Pages!Submitted, Pages!At
<1>2. PICK last : last = IF history = <<>> THEN 1 ELSE history[Len(history)].at
  OBVIOUS
<1>3. last \in Nat \ {0} /\ \A i \in 1..Len(history) : history[i].at <= last
  <2>1. CASE history = <<>>
    BY <1>2, <2>1
  <2>2. CASE history # <<>>
    <3>1. Len(history) \in 1..Len(history)
      BY <2>2 DEF PageTypes
    <3>2. history[Len(history)] \in HistoryOrder
      BY <3>1 DEF PageTypes
    <3> QED BY <1>2, <2>2, <3>1, <3>2 DEF InOrder, HistoryOrder
  <2> QED BY <2>1, <2>2
<1>4. PICK o \in HistoryOrder : history' = Append(history, o) /\ o.at >= last
  <2>1. [at |-> last + gap, legs |-> l] \in HistoryOrder
    BY <1>3 DEF HistoryOrder
  <2> QED BY <1>1, <1>2, <1>3, <2>1
<1>5. /\ history' \in Seq(HistoryOrder) /\ Len(history') = Len(history) + 1
      /\ \A i \in 1..Len(history) : history'[i] = history[i]
      /\ history'[Len(history) + 1] = o
      /\ Len(history) \in Nat
  BY <1>4 DEF PageTypes
<1>6. /\ out' = out /\ until' = until /\ pages' = pages /\ newest' = newest /\ state' = state
      /\ Len(history') <= MaxOrders
  BY <1>5 DEF Pages!Submitted, PageTypes
<1>7. PageTypes'
  BY <1>5, <1>6 DEF PageTypes
<1>8. InOrder'
  <2> SUFFICES ASSUME NEW i \in 1..(Len(history) + 1), NEW j \in 1..(Len(history) + 1), i <= j
               PROVE  history'[i].at <= history'[j].at
    BY <1>5 DEF InOrder
  <2>1. CASE j \in 1..Len(history)
    BY <1>5, <2>1 DEF InOrder
  <2>2. CASE j = Len(history) + 1 /\ i \in 1..Len(history)
    <3>0. history[i] \in HistoryOrder
      BY <2>2 DEF PageTypes
    <3>1. history[i].at \in Nat /\ o.at \in Nat
      BY <3>0 DEF HistoryOrder
    <3> QED BY <1>3, <1>4, <1>5, <2>2, <3>1
  <2>3. CASE j = Len(history) + 1 /\ i = j
    BY <1>5, <2>3 DEF HistoryOrder
  <2> QED BY <1>5, <2>1, <2>2, <2>3
<1>9. Descends'
  <2>1. \A k \in 1..Len(out) : out[k] \in 1..newest /\ out[k] \in 1..Len(history)
    BY DEF Descends, PageTypes
  <2>2. state = "paging" => until = history'[out[Len(out)]].at /\ Len(out) >= 1
    <3> SUFFICES ASSUME state = "paging"
                 PROVE  until = history'[out[Len(out)]].at /\ Len(out) >= 1
      OBVIOUS
    <3>1. Len(out) >= 1 /\ Len(out) \in Nat /\ until = history[out[Len(out)]].at
      BY DEF Descends, PageTypes
    <3>2. out[Len(out)] \in 1..Len(history)
      BY <2>1, <3>1
    <3> QED BY <3>1, <3>2, <1>5
  <2> QED BY <1>6, <2>2 DEF Descends, Pages!NewestFirst
<1>10. Gapless'
  <2>1. Pages!DistinctTimes' => Pages!DistinctTimes
    BY <1>5 DEF Pages!DistinctTimes, Pages!At
  <2>2. (\A i \in 1..Len(history') : history'[i].legs = 0) =>
           \A i \in 1..Len(history) : history[i].legs = 0
    BY <1>5
  <2> QED BY <1>6, <2>1, <2>2 DEF Gapless
<1> QED BY <1>7, <1>8, <1>9, <1>10

\* The size of a set is the one of the library's theorems.
LEMMA SameSize == \A S : Pages!Cardinality(S) = Cardinality(S)
  BY Zenon DEF Pages!Cardinality, Cardinality

\* The orders a page may have are the oldest ones, down from some order: all at the
\* first page, then those before the last one read.
LEMMA Eligible ==
    ASSUME PagesInv, state # "done"
    PROVE  \E top \in 0..Len(history) :
             /\ {i \in 1..Len(history) : Pages!Before(i)} = 1..top
             /\ state = "idle" => top = Len(history)
             /\ state = "paging" => top < out[Len(out)]
             /\ state = "paging" /\ Pages!DistinctTimes => top = out[Len(out)] - 1
<1> USE DEF PagesInv
<1> DEFINE N == Len(history)
           E == {i \in 1..N : Pages!Before(i)}
<1>1. N \in Nat /\ (\A i \in 1..N : history[i] \in HistoryOrder)
      /\ state \in {"idle", "paging"} /\ until \in Nat
  BY DEF PageTypes
<1>2. \A i \in 1..N : history[i].at \in Nat \ {0}
  BY <1>1 DEF HistoryOrder
<1>3. CASE state = "idle"
  <2>1. \A i \in 1..N : Pages!Before(i)
    BY <1>3 DEF Descends, Pages!Before
  <2>2. E = 1..N
    BY <2>1
  <2> QED BY <1>1, <1>3, <2>2
<1>4. CASE state = "paging"
  <2> DEFINE e == out[Len(out)]
  <2>1. Len(out) \in Nat /\ Len(out) >= 1 /\ until = history[e].at
    BY <1>4 DEF Descends, PageTypes
  <2>2. e \in 1..N
    BY <2>1, <1>1 DEF Descends, PageTypes
  <2> HIDE DEF e
  <2>3. \A i \in 1..N : Pages!Before(i) <=> history[i].at < history[e].at
    BY <1>2, <2>1, <2>2 DEF Pages!Before, Pages!At
  <2> HIDE DEF N
  <2> DEFINE T == {i \in 1..(N + 1) : i \notin E}
  <2>4. T \in SUBSET Nat /\ N + 1 \in T
    BY <1>1
  <2>5. PICK l \in T : \A y \in T : l <= y
    BY <2>4, LeastNatural
  <2>6. l \in 1..(N + 1) /\ l \notin E
    BY <2>5
  <2>7. \A i \in 1..N : i < l => i \in E
    BY <1>1, <2>5, <2>6
  <2>8. e \notin E
    BY <1>2, <2>2, <2>3
  <2>9. l <= e
    BY <1>1, <2>2, <2>5, <2>8
  <2>10. \A i \in 1..N : i >= l => i \notin E
    <3> SUFFICES ASSUME NEW i \in 1..N, i >= l PROVE i \notin E
      OBVIOUS
    <3>1. l \in 1..N
      BY <1>1, <2>6
    <3>2. history[l].at <= history[i].at
      BY <3>1 DEF InOrder, N
    <3>3. ~(history[l].at < history[e].at)
      BY <2>3, <2>6, <3>1
    <3>4. history[l].at \in Nat /\ history[i].at \in Nat /\ history[e].at \in Nat
      BY <1>2, <2>2, <3>1
    <3>5. ~(history[i].at < history[e].at)
      BY <3>2, <3>3, <3>4
    <3> QED BY <2>3, <3>5
  <2>11. E = 1..(l - 1) /\ l - 1 \in 0..N /\ l - 1 < e
    BY <1>1, <2>2, <2>6, <2>7, <2>9, <2>10
  <2>12. ASSUME Pages!DistinctTimes PROVE l - 1 = e - 1
    <3>1. CASE e = 1
      BY <2>6, <2>9, <3>1
    <3>2. CASE e # 1
      <4>1. e - 1 \in 1..N /\ e - 1 < e /\ e - 1 # e
        BY <1>1, <2>2, <3>2
      <4>2. history[e - 1].at <= history[e].at /\ history[e - 1].at # history[e].at
        BY <2>2, <2>12, <4>1 DEF InOrder, N, Pages!DistinctTimes, Pages!At
      <4>3. history[e - 1].at \in Nat /\ history[e].at \in Nat
        BY <1>2, <2>2, <4>1
      <4>4. e - 1 \in E
        BY <2>3, <4>1, <4>2, <4>3
      <4> QED BY <1>1, <2>2, <2>6, <2>9, <2>11, <4>1, <4>4
    <3> QED BY <3>1, <3>2
  <2> HIDE DEF E
  <2> QED BY <1>4, <2>11, <2>12 DEF e, E, N
<1> QED BY <1>1, <1>3, <1>4

\* Without legs the newest k orders weigh k.
LEMMA Weightless ==
    ASSUME PageTypes, \A i \in 1..Len(history) : history[i].legs = 0,
           NEW top \in 0..Len(history)
    PROVE  \A k \in 0..top : Pages!Weight(top)[k] = k
<1> DEFINE next(w) == [k \in 0..top |->
                          IF k = 0 THEN 0 ELSE w[k - 1] + 1 + history[top - k + 1].legs]
           w1 == [k \in 0..top |-> k]
<1>1. Len(history) \in Nat /\ top \in Nat
  BY DEF PageTypes
<1>2. \A k \in 1..top : history[top - k + 1].legs = 0
  <2>1. \A k \in 1..top : top - k + 1 \in 1..Len(history)
    BY <1>1
  <2> QED BY <2>1
<1>3. w1 = next(w1)
  <2>1. \A k \in 0..top : w1[k] = IF k = 0 THEN 0 ELSE w1[k - 1] + 1 + history[top - k + 1].legs
    BY <1>1, <1>2
  <2> QED BY <2>1
<1>4. PICK w : w = next(w) /\ Pages!Weight(top) = w
  <2>1. Pages!Weight(top) = CHOOSE w : w = next(w)
    BY DEF Pages!Weight
  <2> HIDE DEF next
  <2> QED BY <1>3, <2>1
<1> DEFINE S == {k \in 0..top : w[k] = k}
<1>5. 0 \in S
  <2>1. w[0] = 0
    BY <1>1, <1>4
  <2> QED BY <1>1, <2>1
<1>6. ASSUME NEW k \in 0..top, k \in S, k < top PROVE k + 1 \in S
  <2>1. k + 1 \in 1..top /\ (k + 1) - 1 = k /\ w[k] = k
    BY <1>1, <1>6
  <2>2. w[k + 1] = w[(k + 1) - 1] + 1 + history[top - (k + 1) + 1].legs
    BY <1>4, <2>1
  <2>3. history[top - (k + 1) + 1].legs = 0
    BY <1>2, <2>1
  <2> QED BY <1>1, <2>1, <2>2, <2>3
<1> HIDE DEF S
<1>7. 0..top \subseteq S
  BY <1>1, <1>5, <1>6, Induct
<1> QED BY <1>4, <1>7 DEF S

\* Orders that were not read before are all fresh.
LEMMA AllFresh ==
    ASSUME NEW p \in Seq(Nat), \A k \in 1..Len(p) : ~Pages!Contains(out, p[k])
    PROVE  Pages!Fresh(p) = p
<1> DEFINE next(f) == [k \in 0..Len(p) |->
                          IF k = 0 THEN <<>>
                          ELSE IF Pages!Contains(out, p[k]) THEN f[k - 1]
                               ELSE Append(f[k - 1], p[k])]
           head(k) == [j \in 1..k |-> p[j]]
           f1 == [k \in 0..Len(p) |-> head(k)]
<1>1. Len(p) \in Nat /\ \A k \in 1..Len(p) : p[k] \in Nat
  OBVIOUS
<1>2. head(0) = <<>> /\ head(Len(p)) = p
  BY <1>1
<1>3. ASSUME NEW k \in 1..Len(p) PROVE head(k) = Append(head(k - 1), p[k])
  <2>1. head(k - 1) \in Seq(Nat) /\ Len(head(k - 1)) = k - 1
    BY <1>1
  <2>2. /\ DOMAIN Append(head(k - 1), p[k]) = 1..k
        /\ \A j \in 1..k : Append(head(k - 1), p[k])[j] = p[j]
    BY <1>1, <2>1
  <2>3. Append(head(k - 1), p[k]) \in Seq(Nat)
    BY <1>1, <2>1
  <2> QED BY <1>1, <2>2, <2>3
<1> HIDE DEF head
<1>4. f1 = next(f1)
  <2>1. \A k \in 0..Len(p) : f1[k] = IF k = 0 THEN <<>>
                                      ELSE IF Pages!Contains(out, p[k]) THEN f1[k - 1]
                                      ELSE Append(f1[k - 1], p[k])
    BY <1>1, <1>2, <1>3
  <2> QED BY <2>1
<1>5. PICK f : f = next(f) /\ Pages!Fresh(p) = f[Len(p)]
  <2>1. Pages!Fresh(p) = (CHOOSE f : f = next(f))[Len(p)]
    BY DEF Pages!Fresh
  <2> HIDE DEF next
  <2> QED BY <1>4, <2>1
<1> DEFINE S == {k \in 0..Len(p) : f[k] = head(k)}
<1>6. 0 \in S
  <2>1. f[0] = <<>>
    BY <1>1, <1>5
  <2> QED BY <1>1, <1>2, <2>1
<1>7. ASSUME NEW k \in 0..Len(p), k \in S, k < Len(p) PROVE k + 1 \in S
  <2>1. k + 1 \in 1..Len(p) /\ (k + 1) - 1 = k /\ f[k] = head(k)
    BY <1>1, <1>7
  <2>2. ~Pages!Contains(out, p[k + 1])
    BY <2>1
  <2>3. \A n \in 0..Len(p) : f[n] = IF n = 0 THEN <<>>
                                     ELSE IF Pages!Contains(out, p[n]) THEN f[n - 1]
                                     ELSE Append(f[n - 1], p[n])
    BY <1>5
  <2>4. k + 1 \in 0..Len(p) /\ k + 1 # 0
    BY <2>1
  <2>5. f[k + 1] = Append(f[k], p[k + 1])
    BY <2>1, <2>2, <2>3, <2>4
  <2>6. head(k + 1) = Append(head(k), p[k + 1])
    BY <1>3, <2>1
  <2>7. f[k + 1] = head(k + 1)
    BY <2>1, <2>5, <2>6
  <2> QED BY <2>4, <2>7
<1> HIDE DEF S
<1>8. 0..Len(p) \subseteq S
  BY <1>1, <1>6, <1>7, Induct
<1>9. f[Len(p)] = head(Len(p))
  BY <1>1, <1>8 DEF S
<1> QED BY <1>2, <1>5, <1>9

\* A page is the newest of the orders it may have; short of the limit and without legs
\* it is all of them.
LEMMA PageShape ==
    ASSUME PageTypes, NEW top \in 0..Len(history),
           {i \in 1..Len(history) : Pages!Before(i)} = 1..top
    PROVE  \E m \in 0..top :
             /\ Pages!Page = [k \in 1..m |-> top - k + 1]
             /\ m < Limit /\ (\A i \in 1..Len(history) : history[i].legs = 0) => m = top
<1> USE PageConstants
<1> DEFINE fit == {k \in 1..top : Pages!Weight(top)[k] <= Limit}
<1>1. Len(history) \in Nat /\ top \in Nat
  BY DEF PageTypes
<1>2. IsFiniteSet(1..top) /\ Cardinality(1..top) = top
  BY <1>1, FS_Interval
<1>3. Pages!Cardinality(1..top) = top
  BY <1>2, SameSize
<1>4. PICK m : m = Cardinality(fit)
  OBVIOUS
<1>5. m \in 0..top /\ IsFiniteSet(fit)
  <2>1. fit \subseteq 1..top
    OBVIOUS
  <2> HIDE DEF fit
  <2>2. IsFiniteSet(fit) /\ Cardinality(fit) <= Cardinality(1..top)
    BY <1>2, <2>1, FS_Subset
  <2>3. Cardinality(fit) \in Nat
    BY <2>2, FS_CardinalityType
  <2> QED BY <1>1, <1>2, <1>4, <2>2, <2>3
<1>6. Pages!Page = [k \in 1..m |-> top - k + 1]
  <2>1. Pages!Page = [k \in 1..Pages!Cardinality(fit) |-> top - k + 1]
    BY <1>3, Zenon DEF Pages!Page
  <2> HIDE DEF fit
  <2>2. Pages!Cardinality(fit) = m
    BY <1>4, SameSize
  <2> QED BY <2>1, <2>2
<1>7. ASSUME m < Limit, \A i \in 1..Len(history) : history[i].legs = 0
      PROVE  m = top
  <2>1. \A k \in 0..top : Pages!Weight(top)[k] = k
    BY <1>7, Weightless
  <2>2. fit = {k \in 1..top : k <= Limit}
    BY <1>1, <2>1
  <2>3. CASE top <= Limit
    <3>1. fit = 1..top
      BY <1>1, <2>2, <2>3
    <3> HIDE DEF fit
    <3> QED BY <1>2, <1>4, <3>1
  <2>4. CASE ~(top <= Limit)
    <3>1. fit = 1..Limit
      BY <1>1, <2>2, <2>4
    <3>2. Cardinality(1..Limit) = Limit
      BY FS_Interval
    <3> HIDE DEF fit
    <3> QED BY <1>4, <1>7, <3>1, <3>2
  <2> QED BY <2>3, <2>4
<1> QED BY <1>5, <1>6, <1>7

\* Reading a page keeps the order and leaves no gap.
LEMMA PageRead == PagesInv /\ Pages!ReadPage => PagesInv'
<1> SUFFICES ASSUME PagesInv, Pages!ReadPage PROVE PagesInv'
  OBVIOUS
<1> USE PageConstants DEF PagesInv
<1> DEFINE N == Len(history)
           L == Len(out)
<1>1. /\ state \in {"idle", "paging"} /\ state # "done"
      /\ pages' = pages + 1 /\ pages' \in 0..MaxPages /\ history' = history
      /\ newest' = IF state = "idle" THEN N ELSE newest
  BY DEF Pages!ReadPage, PageTypes
<1>2. /\ N \in Nat /\ L \in Nat /\ newest \in 0..N /\ out \in Seq(Nat)
      /\ \A i \in 1..N : history[i] \in HistoryOrder
      /\ \A k \in 1..L : out[k] \in 1..newest
  BY DEF PageTypes, Descends
<1>3. PICK top \in 0..N :
        /\ {i \in 1..N : Pages!Before(i)} = 1..top
        /\ state = "idle" => top = N
        /\ state = "paging" => top < out[L]
        /\ state = "paging" /\ Pages!DistinctTimes => top = out[L] - 1
  BY <1>1, Eligible
<1>4. PICK m \in 0..top :
        /\ Pages!Page = [k \in 1..m |-> top - k + 1]
        /\ m < Limit /\ (\A i \in 1..N : history[i].legs = 0) => m = top
  BY <1>3, PageShape
<1> DEFINE page == [k \in 1..m |-> top - k + 1]
<1>5. page \in Seq(Nat) /\ Len(page) = m /\ \A k \in 1..m : page[k] = top - k + 1
  BY <1>2
<1>6. newest' \in 0..N /\ top <= newest' /\ newest <= newest'
  <2>1. CASE state = "idle"
    BY <1>1, <1>2, <1>3, <2>1
  <2>2. CASE state = "paging"
    <3>1. L \in 1..L
      BY <1>2, <2>2 DEF Descends
    <3> QED BY <1>1, <1>2, <1>3, <2>2, <3>1
  <2> QED BY <1>1, <2>1, <2>2
<1>7. \A j \in 1..L : top < out[j]
  <2>1. CASE state = "idle"
    BY <2>1 DEF Descends
  <2>2. CASE state = "paging"
    <3>1. L \in 1..L
      BY <1>2, <2>2 DEF Descends
    <3>2. \A j \in 1..L : j < L => out[j] > out[L]
      BY <3>1 DEF Descends, Pages!NewestFirst
    <3>3. \A j \in 1..L : j = L \/ j < L
      BY <1>2
    <3> QED BY <1>2, <1>3, <2>2, <3>1, <3>2, <3>3
  <2> QED BY <1>1, <2>1, <2>2
<1>8. Pages!Fresh(page) = page
  <2> HIDE DEF page
  <2>1. ASSUME NEW k \in 1..m PROVE ~Pages!Contains(out, page[k])
    <3>1. \A j \in 1..L : out[j] # page[k]
      BY <1>2, <1>5, <1>7
    <3> QED BY <3>1 DEF Pages!Contains
  <2> QED BY <1>5, <2>1, AllFresh
<1>9. out' = out \o page
  BY <1>4, <1>8 DEF Pages!ReadPage
<1>10. \/ /\ state' = "done" /\ until' = until
          /\ m < Limit \/ pages' = MaxPages
       \/ /\ state' = "paging" /\ m >= Limit /\ until' = history[page[m]].at
  BY <1>2, <1>4, <1>5 DEF Pages!ReadPage, Pages!LastPage, Pages!At
<1> HIDE DEF page
<1>11. /\ out' \in Seq(Nat) /\ Len(out') = L + m
       /\ \A k \in 1..L : out'[k] = out[k]
       /\ \A k \in 1..m : out'[L + k] = top - k + 1
  BY <1>2, <1>5, <1>9
<1>12. \A k \in 1..(L + m) :
         \/ k \in 1..L /\ out'[k] = out[k]
         \/ k - L \in 1..m /\ out'[k] = top - (k - L) + 1
  <2> SUFFICES ASSUME NEW k \in 1..(L + m), k \notin 1..L
               PROVE  k - L \in 1..m /\ out'[k] = top - (k - L) + 1
    BY <1>11
  <2>1. k - L \in 1..m /\ L + (k - L) = k
    BY <1>2
  <2> QED BY <1>11, <2>1
<1>13. \A k \in 1..(L + m) : out'[k] \in 1..newest'
  BY <1>2, <1>6, <1>12
<1>14. Pages!NewestFirst'
  <2> SUFFICES ASSUME NEW j \in 1..(L + m), NEW k \in 1..(L + m), j < k
               PROVE  out'[j] > out'[k]
    BY <1>11 DEF Pages!NewestFirst
  <2>1. CASE k \in 1..L
    <3>1. j \in 1..L
      BY <1>2, <2>1
    <3> QED BY <1>11, <2>1, <3>1 DEF Descends, Pages!NewestFirst
  <2>2. CASE k - L \in 1..m /\ out'[k] = top - (k - L) + 1
    <3>1. CASE j \in 1..L
      <4>1. out'[j] = out[j] /\ out[j] \in Nat /\ top < out[j]
        BY <1>2, <1>7, <1>11, <3>1
      <4>2. out'[k] <= top
        BY <1>2, <2>2
      <4>3. out'[k] \in Nat
        BY <1>13
      <4> QED BY <4>1, <4>2, <4>3
    <3>2. CASE j - L \in 1..m /\ out'[j] = top - (j - L) + 1
      BY <1>2, <2>2, <3>2
    <3> QED BY <1>12, <3>1, <3>2
  <2> QED BY <1>12, <2>1, <2>2
<1>15. PageTypes'
  <2>1. until' \in Nat
    <3>1. CASE until' = until
      BY <3>1 DEF PageTypes
    <3>2. CASE m >= Limit /\ until' = history[page[m]].at
      <4>1. page[m] \in 1..N
        BY <1>2, <1>5, <3>2
      <4>2. history[page[m]] \in HistoryOrder
        BY <1>2, <4>1
      <4> QED BY <3>2, <4>2 DEF HistoryOrder
    <3> QED BY <1>10, <3>1, <3>2
  <2> QED BY <1>1, <1>6, <1>10, <1>11, <2>1 DEF PageTypes
<1>16. InOrder'
  BY <1>1 DEF InOrder
<1>17. Descends'
  <2>1. state' # "idle" /\ (state' = "paging" => m >= Limit)
    BY <1>10
  <2>2. ASSUME state' = "paging"
        PROVE  Len(out') >= 1 /\ until' = history'[out'[Len(out')]].at
    <3>1. m \in 1..m /\ until' = history[page[m]].at
      BY <1>10, <2>1, <2>2
    <3>2. out'[L + m] = page[m]
      BY <1>5, <1>11, <3>1
    <3> QED BY <1>1, <1>2, <1>11, <3>1, <3>2
  <2> QED BY <1>11, <1>13, <1>14, <2>1, <2>2 DEF Descends
<1>18. Gapless'
  <2> SUFFICES ASSUME Pages!DistinctTimes
               PROVE  /\ Len(out') <= newest'
                      /\ \A k \in 1..Len(out') : out'[k] = newest' - k + 1
                      /\ state' = "done" /\ pages' < MaxPages
                         /\ (\A i \in 1..N : history[i].legs = 0) => Len(out') = newest'
    BY <1>1 DEF Gapless, Pages!DistinctTimes, Pages!At
  <2>1. top = newest' - L
    <3>1. CASE state = "idle"
      <4>1. L = 0
        BY <3>1 DEF Descends
      <4> QED BY <1>1, <1>2, <1>3, <3>1, <4>1
    <3>2. CASE state = "paging"
      <4>1. L \in 1..L
        BY <1>2, <3>2 DEF Descends
      <4>2. out[L] = newest - L + 1
        BY <4>1 DEF Gapless
      <4>3. newest' = newest
        BY <1>1, <3>2
      <4>4. top = out[L] - 1
        BY <1>3, <3>2
      <4> QED BY <1>2, <4>2, <4>3, <4>4
    <3> QED BY <1>1, <3>1, <3>2
  <2>2. L = 0 \/ newest' = newest
    BY <1>1 DEF Descends
  <2>3. \A k \in 1..L : out[k] = newest' - k + 1
    BY <1>2, <2>2 DEF Gapless
  <2>4. \A k \in 1..(L + m) : out'[k] = newest' - k + 1
    <3> SUFFICES ASSUME NEW k \in 1..(L + m) PROVE out'[k] = newest' - k + 1
      OBVIOUS
    <3>1. CASE k \in 1..L /\ out'[k] = out[k]
      BY <2>3, <3>1
    <3>2. CASE k - L \in 1..m /\ out'[k] = top - (k - L) + 1
      BY <1>2, <1>6, <2>1, <3>2
    <3> QED BY <1>12, <3>1, <3>2
  <2>5. L + m <= newest'
    BY <1>2, <1>6, <2>1
  <2>6. ASSUME state' = "done", pages' < MaxPages, \A i \in 1..N : history[i].legs = 0
        PROVE  L + m = newest'
    <3>1. m < Limit
      BY <1>1, <1>10, <2>6
    <3>2. m = top
      BY <1>4, <2>6, <3>1
    <3> QED BY <1>2, <1>6, <2>1, <3>2
  <2> QED BY <1>11, <2>4, <2>5, <2>6
<1> QED BY <1>15, <1>16, <1>17, <1>18

\* While another part moves the walk's invariant stays.
LEMMA PagesStill == PagesInv /\ UNCHANGED pageVars => PagesInv'
  BY DEF PagesInv, pageVars, PageTypes, InOrder, Descends, Gapless, Pages!NewestFirst,
         Pages!DistinctTimes, Pages!At

\* The walk's invariant holds at the start and after each step of the loop.
LEMMA PagesInvHolds == LiveSpec => []PagesInv
<1>1. LiveInit => PagesInv
  BY PagesStart DEF LiveInit
<1>2. [LiveNext]_liveVars => Pages!Next \/ UNCHANGED pageVars
  BY Zenon DEF LiveNext, Scheduler, TriggerThread, Requests, Walk, liveVars
<1>3. PagesInv /\ [LiveNext]_liveVars => PagesInv'
  BY <1>2, NewOrder, PageRead, PagesStill DEF Pages!Next
<1> QED BY <1>1, <1>3, PTL DEF LiveSpec, liveVars

\* get_orders returns no order twice, newest first, without a gap while no two share a
\* time, and all of them when there are no legs and pages to spare
\* (AlpacaPaperClient.get_orders).
THEOREM HistoryRead == LiveSpec => []HistoryWhole
<1>1. ASSUME PagesInv PROVE Pages!NoGap /\ Pages!AllRead
  <2> DEFINE L == Len(out)
  <2>1. L \in Nat /\ newest \in Nat /\ \A k \in 1..L : out[k] \in 1..newest
    BY <1>1 DEF PagesInv, PageTypes, Descends
  <2>2. ASSUME Pages!DistinctTimes, NEW x \in (newest - L + 1)..newest
        PROVE  x \in Pages!Got
    <3>1. newest - x + 1 \in 1..L /\ L <= newest
      BY <1>1, <2>1, <2>2 DEF PagesInv, Gapless
    <3>2. out[newest - x + 1] = x
      BY <1>1, <2>1, <2>2, <3>1 DEF PagesInv, Gapless
    <3> QED BY <3>1, <3>2 DEF Pages!Got
  <2>3. Pages!NoGap
    <3> SUFFICES ASSUME Pages!DistinctTimes, NEW k \in 1..L, NEW x \in out[k]..newest
                 PROVE  x \in Pages!Got
      BY DEF Pages!NoGap, Pages!Got
    <3>1. out[k] = newest - k + 1
      BY <1>1 DEF PagesInv, Gapless
    <3>2. x \in (newest - L + 1)..newest
      BY <2>1, <3>1
    <3> QED BY <2>2, <3>2
  <2>4. Pages!AllRead
    <3> SUFFICES ASSUME state = "done", pages < MaxPages, Pages!DistinctTimes,
                        \A i \in 1..Len(history) : history[i].legs = 0, NEW x \in 1..newest
                 PROVE  x \in Pages!Got
      BY DEF Pages!AllRead
    <3>1. L = newest
      BY <1>1 DEF PagesInv, Gapless
    <3>2. x \in (newest - L + 1)..newest
      BY <2>1, <3>1
    <3> QED BY <2>2, <3>2
  <2> QED BY <2>3, <2>4
<1>2. PagesInv => HistoryWhole
  BY <1>1 DEF PagesInv, Descends, HistoryWhole
<1> QED BY <1>2, PagesInvHolds, PTL

-----------------------------------------------------------------------------
(* The whole loop *)

\* Every variable of the four parts keeps its type.
THEOREM LoopTyped == LiveSpec => []Types
<1>1. LiveSpec => []TypeOK
  <2>1. LiveInit => TypeOK
    BY TypeInit DEF LiveInit
  <2>2. [LiveNext]_liveVars => [Next]_vars
    BY Zenon DEF LiveNext, Scheduler, TriggerThread, Requests, Walk, liveVars
  <2>3. TypeOK /\ [LiveNext]_liveVars => TypeOK'
    BY <2>2, TypeNext
  <2> QED BY <2>1, <2>3, PTL DEF LiveSpec, liveVars
<1>2. BookInv => Triggers!TypeOK
  <2> SUFFICES ASSUME BookInv PROVE Triggers!TypeOK
    OBVIOUS
  <2>1. pass.pc \in {"pick", "send", "mark"} => \A s \in pass.todo : Triggers!Seen(s) \in Triggers!Trigger
    BY DEF BookInv, BookTypes, Walking, Triggers!Seen
  <2>2. pass.pc \in {"send", "mark"} => pass.sym \in Symbols
    BY DEF BookInv, BookTypes, Walking, Quiet
  <2>3. pass.pc \in {"idle", "prices", "filled", "fires", "pick", "send", "mark"}
    BY DEF BookInv, BookTypes, Walking, Quiet
  <2> QED BY <2>1, <2>2, <2>3 DEF BookInv, BookTypes, Walking, Triggers!TypeOK
<1>3. ClientInv => Client!TypeOK
  <2> SUFFICES ASSUME ClientInv PROVE Client!TypeOK
    OBVIOUS
  <2>1. ASSUME NEW t \in Threads
        PROVE  /\ call[t].attempt \in 0..MaxRetries
               /\ call[t].pc \in {"none", "send", "store"}
               /\ {call[t].val, call[t].since, wrote[t]} \subseteq 0..acct
    <3>1. call[t] \in CallType /\ wrote[t] \in 0..MaxChanges
      BY DEF ClientInv, ClientTypes
    <3>2. call[t].val <= acct /\ call[t].since <= acct /\ wrote[t] <= acct
      BY DEF ClientInv, Shaped
    <3>3. acct \in Nat
      BY ClientConstants DEF ClientInv, ClientTypes
    <3> QED BY <3>1, <3>2, <3>3, ClientConstants DEF CallType
  <2> QED BY <2>1 DEF ClientInv, ClientTypes, Client!TypeOK, Client!Versions
<1>4. PagesInv => Pages!TypeOK
  <2> SUFFICES ASSUME PagesInv PROVE Pages!TypeOK
    OBVIOUS
  <2>1. ASSUME NEW k \in 1..Len(out) PROVE out[k] \in 1..Len(history)
    <3>1. out[k] \in 1..newest /\ newest \in 0..Len(history) /\ Len(history) \in Nat
      BY DEF PagesInv, PageTypes, Descends
    <3> QED BY <3>1
  <2> QED BY <2>1 DEF PagesInv, PageTypes, Pages!TypeOK, Pages!Got
<1> QED BY <1>1, <1>2, <1>3, <1>4, BookInvHolds, ClientInvHolds, PagesInvHolds, PTL DEF Types
=============================================================================

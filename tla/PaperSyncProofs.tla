-------------------------- MODULE PaperSyncProofs --------------------------
(***************************************************************************)
(* What the account sync writes to the journal, for any number of symbols, *)
(* positions and syncs, and any combination of failed reads, refused       *)
(* events and crashes.                                                     *)
(***************************************************************************)
EXTENDS PaperSync, WellFoundedInduction, TLAPS

-----------------------------------------------------------------------------
(* Greatest elements and sequences *)

\* Every set of naturals that is not empty has a least element.
LEMMA LeastNatural ==
    ASSUME NEW T \in SUBSET Nat, T # {}
    PROVE  \E x \in T : \A y \in T : x <= y
<1> DEFINE R == OpToRel(<, Nat)
<1>1. IsWellFoundedOn(R, Nat)
  BY NatLessThanWellFounded
<1>2. \A i, j \in Nat : i < j => <<i, j>> \in R
  BY DEF OpToRel
<1> HIDE DEF R
<1>3. PICK x \in T : \A y \in T : ~ (<<y, x>> \in R)
  BY <1>1, WFMin
<1>4. ASSUME NEW y \in T PROVE x <= y
  <2>1. x \in Nat /\ y \in Nat
    OBVIOUS
  <2>2. ~ (y < x)
    BY <2>1, <1>2, <1>3, Zenon
  <2> QED BY <2>1, <2>2
<1> QED BY <1>4

\* Every bounded one that is not empty has a greatest.
LEMMA GreatestNatural ==
    ASSUME NEW m \in Nat, NEW T \in SUBSET (1..m), T # {}
    PROVE  \E x \in T : \A y \in T : y <= x
<1> DEFINE D == {d \in Nat : m - d \in T}
<1>1. D \in SUBSET Nat /\ D # {}
  <2>1. PICK t \in T : TRUE
    OBVIOUS
  <2>2. m - t \in Nat /\ m - (m - t) = t
    BY <2>1
  <2> QED BY <2>1, <2>2
<1>2. PICK d \in D : \A e \in D : d <= e
  <2> HIDE DEF D
  <2> QED BY <1>1, LeastNatural
<1>3. m - d \in T /\ d \in Nat
  BY <1>2
<1>4. ASSUME NEW y \in T PROVE y <= m - d
  <2>1. m - y \in D /\ y \in Nat
    <3>1. y \in 1..m
      OBVIOUS
    <3>2. m - y \in Nat /\ m - (m - y) = y
      BY <3>1
    <3> QED BY <3>1, <3>2
  <2>2. d <= m - y
    BY <1>2, <2>1
  <2> QED BY <1>3, <2>1, <2>2
<1> QED BY <1>3, <1>4

\* What an element at the end of a sequence changes.
LEMMA Appended ==
    ASSUME NEW S, NEW q \in Seq(S), NEW e \in S
    PROVE  /\ Append(q, e) \in Seq(S)
           /\ Len(Append(q, e)) = Len(q) + 1
           /\ \A i \in 1..Len(q) : Append(q, e)[i] = q[i]
           /\ Append(q, e)[Len(q) + 1] = e
  OBVIOUS

-----------------------------------------------------------------------------
(* The fill a close is journaled with *)

\* A lot is its symbol and its number.
LEMMA LotParts ==
    ASSUME NEW l \in Lots
    PROVE  l[1] \in Symbols /\ l[2] \in 1..MaxLots /\ l = <<l[1], l[2]>>
  BY DEF Lots

\* _find_exit answers with a fill of the symbol that no other is later than, or
\* with none when it read none.
LEMMA FillIsLatest ==
    ASSUME NEW s \in Symbols, pass.fills \subseteq Lots
    PROVE  /\ LatestFill(s) \in 0..MaxLots
           /\ LatestFill(s) = 0 => \A l \in pass.fills : l[1] # s
           /\ LatestFill(s) # 0 =>
                \A l \in pass.fills : l[1] = s => l[2] <= LatestFill(s)
<1> DEFINE of == {l \in pass.fills : l[1] = s}
           nums == {n \in 1..MaxLots : <<s, n>> \in of}
<1>0. MaxLots \in Nat
  BY SyncAssumption
<1>1. CASE of = {}
  <2>1. LatestFill(s) = 0
    BY <1>1 DEF LatestFill
  <2> QED BY <1>0, <1>1, <2>1
<1>2. CASE of # {}
  <2>1. \A l \in of : l \in Lots /\ l[2] \in nums /\ l[1] = s
    BY LotParts, Zenon
  <2>2. nums \in SUBSET (1..MaxLots) /\ nums # {}
    BY <1>2, <2>1
  <2>3. PICK n \in nums : \A k \in nums : k <= n
    <3> HIDE DEF nums
    <3> QED BY <1>0, <2>2, GreatestNatural
  <2>4. n \in 1..MaxLots /\ <<s, n>> \in of /\ \A l \in of : l[2] <= n
    BY <2>1, <2>3
  <2>5. LatestFill(s) = CHOOSE k \in 1..MaxLots :
            <<s, k>> \in of /\ \A l \in of : l[2] <= k
    BY <1>2 DEF LatestFill
  <2> HIDE DEF of
  <2>6. /\ LatestFill(s) \in 1..MaxLots
        /\ \A l \in of : l[2] <= LatestFill(s)
    BY <2>4, <2>5
  <2> QED BY <1>0, <2>6 DEF of
<1> QED BY <1>1, <1>2

-----------------------------------------------------------------------------
(* Type correctness *)

Close == [lot : Lots, fill : 0..MaxLots]

\* TypeOK, and what the functions, records and sequences are.
TypeInv ==
    /\ TypeOK
    /\ journal \in Seq(Close)
    /\ pass \in [pc : {"idle", "positions", "orders", "reconcile"},
                 got : SUBSET Lots, ok : BOOLEAN, fills : SUBSET Lots,
                 todo : SUBSET Lots]

\* The store is empty and no sync runs at the start.
LEMMA TypeInit == Init => TypeInv
<1> SUFFICES ASSUME Init PROVE TypeInv
  OBVIOUS
<1>1. MaxLots \in Nat /\ MaxSyncs \in Nat
  BY SyncAssumption
<1>2. lots \in [Symbols -> 0..MaxLots] /\ syncs \in 0..MaxSyncs
  BY <1>1 DEF Init
<1>3. journal \in Seq(Close) /\ Len(journal) = 0
  BY DEF Init
<1>4. \A i \in 1..Len(journal) : journal[i] \in [lot : Lots, fill : 0..MaxLots]
  BY <1>3
<1>5. /\ pass = Idle /\ pass.pc = "idle" /\ pass.got = {} /\ pass.fills = {}
      /\ pass.todo = {}
  BY DEF Init, Idle
<1>6. TypeOK
  BY <1>2, <1>4, <1>5 DEF Init, TypeOK
<1> QED BY <1>3, <1>5, <1>6 DEF TypeInv, Idle

\* The lot that an entry makes is a lot.
LEMMA NewLot ==
    ASSUME TypeInv, NEW s \in Symbols, lots[s] < MaxLots
    PROVE  /\ <<s, lots[s] + 1>> \in Lots
           /\ lots[s] + 1 \in 1..MaxLots
<1>1. lots[s] \in 0..MaxLots /\ MaxLots \in Nat
  BY SyncAssumption DEF TypeInv, TypeOK
<1>2. lots[s] + 1 \in 1..MaxLots
  BY <1>1
<1> QED BY <1>2 DEF Lots

\* Every step keeps the types.
LEMMA TypeNext == TypeInv /\ [Next]_vars => TypeInv'
<1> SUFFICES ASSUME TypeInv, [Next]_vars PROVE TypeInv'
  OBVIOUS
<1>0. MaxLots \in Nat /\ MaxSyncs \in Nat
  BY SyncAssumption
<1>1. CASE SyncStart
  <2>1. syncs' \in 0..MaxSyncs
    BY <1>0, <1>1 DEF SyncStart, TypeInv, TypeOK
  <2>2. prev' \subseteq Lots
    BY <1>1 DEF SyncStart, Seed, TypeInv, TypeOK
  <2> QED BY <1>1, <2>1, <2>2 DEF SyncStart, storeVars, Idle, TypeInv, TypeOK
<1>2. CASE SyncPositions
  BY <1>2 DEF SyncPositions, baseVars, TypeInv, TypeOK
<1>3. CASE SyncOrders
  <2>1. PICK fills \in SUBSET Lots :
            pass' = IF pass.ok
                    THEN [pass EXCEPT !.pc = "reconcile", !.fills = fills,
                             !.todo = {l \in prev : l[1] \notin Names(pass.got)}]
                    ELSE Idle
    BY <1>3, Zenon DEF SyncOrders, Over
  <2>2. {l \in prev : l[1] \notin Names(pass.got)} \subseteq prev
    OBVIOUS
  <2> HIDE DEF Names
  <2>3. CASE pass.ok
    BY <1>3, <2>1, <2>2, <2>3 DEF SyncOrders, storeVars, baseVars, TypeInv, TypeOK
  <2>4. CASE ~ pass.ok
    BY <1>3, <2>1, <2>4
       DEF SyncOrders, storeVars, baseVars, Idle, TypeInv, TypeOK
  <2> QED BY <2>3, <2>4
<1>4. CASE SnapshotRefused
  BY <1>4 DEF SnapshotRefused, storeVars, baseVars, Idle, TypeInv, TypeOK
<1>5. ASSUME NEW l \in pass.todo, JournalClose(l) PROVE TypeInv'
  <2>1. l \in Lots /\ l[1] \in Symbols
    BY LotParts DEF TypeInv
  <2>2. [lot |-> l, fill |-> LatestFill(l[1])] \in Close
    BY <2>1, FillIsLatest DEF Close, TypeInv, TypeOK
  <2>3. journal' \in Seq(Close)
    BY <1>5, <2>2, Appended DEF JournalClose, TypeInv
  <2>4. \A i \in 1..Len(journal') : journal'[i] \in Close
    BY <2>3
  <2> QED BY <1>5, <2>3, <2>4 DEF JournalClose, baseVars, Close, TypeInv, TypeOK
<1>6. CASE SyncEnds
  BY <1>6 DEF SyncEnds, storeVars, Idle, TypeInv, TypeOK
<1>7. ASSUME NEW s \in Symbols, Enters(s) PROVE TypeInv'
  <2>1. <<s, lots[s] + 1>> \in Lots /\ lots[s] + 1 \in 1..MaxLots
    BY <1>7, NewLot DEF Enters
  <2>2. lots' \in [Symbols -> 0..MaxLots]
    BY <1>0, <1>7, <2>1 DEF Enters, TypeInv, TypeOK
  <2>3. held' \subseteq Lots
    BY <1>7, <2>1 DEF Enters, TypeInv, TypeOK
  <2> QED BY <1>7, <2>2, <2>3 DEF Enters, storeVars, baseVars, TypeInv, TypeOK
<1>8. ASSUME NEW l \in held, Exits(l) PROVE TypeInv'
  BY <1>8 DEF Exits, storeVars, baseVars, TypeInv, TypeOK
<1>9. CASE Crash
  BY <1>9 DEF Crash, storeVars, Idle, TypeInv, TypeOK
<1>10. CASE UNCHANGED vars
  BY <1>10 DEF vars, storeVars, baseVars, TypeInv, TypeOK
<1> QED BY <1>1, <1>2, <1>3, <1>4, <1>5, <1>6, <1>7, <1>8, <1>9, <1>10
          DEF Next, SyncAll

\* Every variable has its type in every reachable state.
THEOREM SyncTyped == Spec => []TypeOK
<1>1. TypeInv => TypeOK
  BY DEF TypeInv
<1> QED BY <1>1, TypeInit, TypeNext, PTL DEF Spec

-----------------------------------------------------------------------------
(* Each close once, and of its own position *)

\* A lot the broker has had.
Had(l) == l \in Lots /\ l[2] <= lots[l[1]]

\* What the store and the sync know was held at some time.
AllHad == \A l \in held \cup stored \cup prev \cup pass.got : Had(l)

\* What a later diff may still journal is not journaled.
Unwritten ==
    /\ \A l \in stored : ~ Journaled(l)
    /\ pass.pc # "reconcile" => \A l \in prev : ~ Journaled(l)

\* Before the positions are read there is no snapshot; after, it is recorded, and
\* the base of the diff is the one before it.
AtOrders ==
    /\ pass.pc = "positions" => ~ pass.ok
    /\ pass.pc = "orders" /\ pass.ok =>
        /\ stored = pass.got
        /\ prev \subseteq pass.got \cup Over

\* What is left to journal is over, is in no snapshot any more, and its fill was
\* read if any was.
AtReconcile ==
    pass.pc = "reconcile" =>
        /\ stored = pass.got
        /\ \A l \in pass.todo :
            /\ l \in Over /\ l \notin pass.got /\ ~ Journaled(l)
            /\ pass.fills = {} \/ l \in pass.fills

\* The inductive invariant.
JournalInv ==
    /\ TypeInv
    /\ JournaledOnce /\ ExitNotOlder
    /\ AllHad /\ Unwritten /\ AtOrders /\ AtReconcile

\* Nothing is known at the start.
LEMMA JournalInit == Init => JournalInv
<1> SUFFICES ASSUME Init PROVE JournalInv
  OBVIOUS
<1>1. Len(journal) = 0 /\ pass.pc = "idle" /\ pass.got = {}
  BY DEF Init, Idle
<1> QED BY <1>1, TypeInit DEF Init, JournalInv, JournaledOnce, ExitNotOlder, AllHad,
                             Unwritten, AtOrders, AtReconcile, Journaled

\* Of what the broker has had, all that is not held is over.
LEMMA HadOrOver ==
    ASSUME NEW l, Had(l)
    PROVE  l \in held \/ l \in Over
  BY DEF Had, Over

\* The steps of the sync that leave the journal and the broker alone.
LEMMA QuietSync ==
    ASSUME JournalInv, TypeInv',
           SyncStart \/ SyncPositions \/ SyncOrders \/ SnapshotRefused \/ SyncEnds
             \/ Crash
    PROVE  JournalInv'
<1> USE DEF JournalInv
<1>0. UNCHANGED <<held, lots, journal>>
  BY DEF SyncStart, SyncPositions, SyncOrders, SnapshotRefused, SyncEnds, Crash,
         storeVars
<1>1. (\A l : Had(l)' <=> Had(l)) /\ Over' = Over /\ (\A l : Journaled(l)' <=> Journaled(l))
  BY <1>0 DEF Had, Over, Journaled
<1>2. JournaledOnce' /\ ExitNotOlder'
  BY <1>0, <1>1 DEF JournaledOnce, ExitNotOlder
<1> HIDE DEF Names
<1>3. CASE SyncStart
  BY <1>0, <1>1, <1>2, <1>3
     DEF SyncStart, Seed, storeVars, Idle, AllHad, Unwritten, AtOrders, AtReconcile
<1>4. CASE SyncPositions
  <2>1. prev \subseteq held \cup Over
    BY HadOrOver DEF AllHad
  <2>2. \A l \in held : ~ Journaled(l)
    BY DEF JournaledOnce, Journaled, Over
  <2>3. pass'.pc = "orders" /\ prev' = prev /\ pass.pc = "positions"
    BY <1>4 DEF SyncPositions, baseVars, TypeInv
  <2>4. \/ pass'.got = held /\ stored' = held
        \/ pass'.got = pass.got /\ stored' = stored /\ ~ pass'.ok
    BY <1>4 DEF SyncPositions, AtOrders, TypeInv
  <2>5. AllHad' /\ Unwritten'
    BY <1>1, <1>0, <2>2, <2>3, <2>4 DEF AllHad, Unwritten
  <2>6. AtOrders' /\ AtReconcile'
    BY <1>1, <2>1, <2>3, <2>4 DEF AtOrders, AtReconcile
  <2> QED BY <1>2, <2>5, <2>6
<1>5. CASE SyncOrders
  <2>1. CASE ~ pass.ok
    BY <1>0, <1>1, <1>2, <1>5, <2>1
       DEF SyncOrders, storeVars, baseVars, Idle, AllHad, Unwritten, AtOrders,
           AtReconcile
  <2>2. CASE pass.ok
    <3>1. PICK fills \in {{}, Over} :
              pass' = [pass EXCEPT !.pc = "reconcile", !.fills = fills,
                          !.todo = {l \in prev : l[1] \notin Names(pass.got)}]
      BY <1>5, <2>2 DEF SyncOrders
    <3>2. UNCHANGED <<stored, prev>> /\ pass.pc = "orders"
      BY <1>5 DEF SyncOrders, storeVars, baseVars
    <3>3. /\ pass'.pc = "reconcile" /\ pass'.got = pass.got /\ pass'.fills = fills
          /\ pass'.todo = {l \in prev : l[1] \notin Names(pass.got)}
      BY <3>1 DEF TypeInv
    <3>4. \A l \in pass'.todo : l \in prev /\ l \notin pass.got
      BY <3>3 DEF Names
    <3>5. AllHad' /\ Unwritten' /\ AtOrders'
      BY <1>1, <1>0, <3>2, <3>3 DEF AllHad, Unwritten, AtOrders
    <3>6. stored = pass.got /\ \A l \in pass'.todo : l \in Over /\ ~ Journaled(l)
      BY <2>2, <3>2, <3>4 DEF AtOrders, Unwritten
    <3>7. AtReconcile'
      BY <1>1, <3>2, <3>3, <3>4, <3>6 DEF AtReconcile
    <3> QED BY <1>2, <3>5, <3>7
  <2> QED BY <2>1, <2>2
<1>6. CASE SnapshotRefused
  BY <1>0, <1>1, <1>2, <1>6
     DEF SnapshotRefused, storeVars, baseVars, Idle, AllHad, Unwritten, AtOrders,
         AtReconcile
<1>7. CASE SyncEnds
  BY <1>0, <1>1, <1>2, <1>7
     DEF SyncEnds, storeVars, Idle, AllHad, Unwritten, AtOrders, AtReconcile
<1>8. CASE Crash
  BY <1>0, <1>1, <1>2, <1>8
     DEF Crash, storeVars, Idle, AllHad, Unwritten, AtOrders, AtReconcile
<1> QED BY <1>3, <1>4, <1>5, <1>6, <1>7, <1>8

\* A close is journaled once more only for a lot that was not.
LEMMA JournalStep ==
    ASSUME JournalInv, TypeInv', NEW l \in pass.todo, JournalClose(l)
    PROVE  JournalInv'
<1> USE DEF JournalInv
<1> DEFINE e == [lot |-> l, fill |-> LatestFill(l[1])]
           n == Len(journal)
<1>0. /\ pass.pc = "reconcile" /\ journal' = Append(journal, e)
      /\ UNCHANGED <<held, lots, stored, prev>>
      /\ pass' = [pass EXCEPT !.todo = @ \ {l}]
  BY DEF JournalClose, baseVars
<1>1. (\A k : Had(k)' <=> Had(k)) /\ Over' = Over
  BY <1>0 DEF Had, Over
<1>2. /\ l \in Lots /\ l[1] \in Symbols /\ l[2] \in 1..MaxLots
      /\ LatestFill(l[1]) \in 0..MaxLots
  BY LotParts, FillIsLatest DEF TypeInv, TypeOK
<1>3. e \in Close /\ e.lot = l /\ e.fill = LatestFill(l[1])
  BY <1>2 DEF Close
<1>4. l \in Over /\ l \notin pass.got /\ ~ Journaled(l) /\ stored = pass.got
      /\ (pass.fills = {} \/ l \in pass.fills)
  BY <1>0 DEF AtReconcile
<1> HIDE DEF e
<1>5. /\ Len(journal') = n + 1 /\ n \in Nat
      /\ \A i \in 1..n : journal'[i] = journal[i]
      /\ journal'[n + 1] = e
  BY <1>0, <1>3, Appended DEF TypeInv
<1>6. \A i \in 1..Len(journal') : i \in 1..n \/ i = n + 1
  BY <1>5
<1>7. \A i \in 1..n : journal[i].lot # l
  BY <1>4 DEF Journaled
<1>8. JournaledOnce'
  <2>1. ASSUME NEW i \in 1..Len(journal'), NEW j \in 1..Len(journal'),
               journal'[i].lot = journal'[j].lot
        PROVE  i = j
    BY <1>3, <1>5, <1>6, <1>7, <2>1 DEF JournaledOnce
  <2>2. ASSUME NEW i \in 1..Len(journal') PROVE journal'[i].lot \in Over
    BY <1>3, <1>4, <1>5, <1>6 DEF JournaledOnce
  <2> QED BY <1>1, <2>1, <2>2 DEF JournaledOnce
<1>9. ExitNotOlder'
  <2>1. LatestFill(l[1]) = 0 \/ LatestFill(l[1]) >= l[2]
    <3>1. CASE pass.fills = {}
      BY <3>1 DEF LatestFill
    <3>2. CASE l \in pass.fills
      <4>1. pass.fills \subseteq Lots
        BY DEF TypeInv, TypeOK
      <4>2. l[2] <= LatestFill(l[1])
        BY <1>2, <3>2, <4>1, FillIsLatest
      <4> QED BY <1>2, <4>2, SyncAssumption
    <3> QED BY <1>4, <3>1, <3>2
  <2>2. ASSUME NEW i \in 1..Len(journal')
        PROVE  journal'[i].fill = 0 \/ journal'[i].fill >= journal'[i].lot[2]
    BY <1>3, <1>5, <1>6, <2>1 DEF ExitNotOlder
  <2> QED BY <2>2 DEF ExitNotOlder
<1>10. \A k : Journaled(k)' => Journaled(k) \/ k = l
  BY <1>3, <1>5, <1>6 DEF Journaled
<1>11. /\ pass'.pc = "reconcile" /\ pass'.got = pass.got /\ pass'.fills = pass.fills
       /\ pass'.todo = pass.todo \ {l}
  BY <1>0 DEF TypeInv
<1>12. AllHad' /\ Unwritten' /\ AtOrders'
  BY <1>0, <1>1, <1>4, <1>10, <1>11 DEF AllHad, Unwritten, AtOrders
<1>13. AtReconcile'
  BY <1>0, <1>1, <1>10, <1>11 DEF AtReconcile
<1> QED BY <1>8, <1>9, <1>12, <1>13

\* The broker's steps only add to what was held and to what is over.
LEMMA BrokerStep ==
    ASSUME JournalInv, TypeInv', UNCHANGED <<stored, journal, prev, pass>>,
           held' \subseteq held \cup {k \in Lots' : k[2] <= lots[k[1]]'},
           \A k : Had(k) => Had(k)',
           Over \subseteq Over'
    PROVE  JournalInv'
<1> USE DEF JournalInv
<1>1. \A k : Journaled(k)' <=> Journaled(k)
  BY DEF Journaled
<1>2. JournaledOnce' /\ ExitNotOlder'
  BY DEF JournaledOnce, ExitNotOlder
<1>3. AllHad'
  BY DEF AllHad, Had
<1>4. Unwritten'
  BY <1>1 DEF Unwritten
<1>5. AtOrders'
  BY DEF AtOrders
<1>6. AtReconcile'
  BY <1>1 DEF AtReconcile
<1> QED BY <1>2, <1>3, <1>4, <1>5, <1>6

\* Every step keeps the invariant.
LEMMA JournalNext == JournalInv /\ [Next]_vars => JournalInv'
<1> SUFFICES ASSUME JournalInv, [Next]_vars PROVE JournalInv'
  OBVIOUS
<1>0. TypeInv'
  BY TypeNext DEF JournalInv
<1>1. CASE SyncStart \/ SyncPositions \/ SyncOrders \/ SnapshotRefused \/ SyncEnds
           \/ Crash
  BY <1>0, <1>1, QuietSync
<1>2. ASSUME NEW l \in pass.todo, JournalClose(l) PROVE JournalInv'
  BY <1>0, <1>2, JournalStep
<1>3. ASSUME NEW s \in Symbols, Enters(s) PROVE JournalInv'
  <2>1. /\ held' = held \cup {<<s, lots[s] + 1>>}
        /\ lots' = [lots EXCEPT ![s] = @ + 1]
        /\ UNCHANGED <<stored, journal, prev, pass>>
    BY <1>3 DEF Enters, storeVars, baseVars
  <2>2. lots \in [Symbols -> 0..MaxLots] /\ <<s, lots[s] + 1>> \in Lots
    BY <1>3, NewLot DEF Enters, JournalInv, TypeInv, TypeOK
  <2>3. lots'[s] = lots[s] + 1 /\ \A t \in Symbols : t # s => lots'[t] = lots[t]
    BY <2>1, <2>2
  <2>4. \A k \in Lots : k[2] <= lots[k[1]] => k[2] <= lots'[k[1]]
    <3> SUFFICES ASSUME NEW k \in Lots, k[2] <= lots[k[1]]
                 PROVE  k[2] <= lots'[k[1]]
      OBVIOUS
    <3>1. k[1] \in Symbols /\ k[2] \in 1..MaxLots /\ lots[k[1]] \in 0..MaxLots
      BY <2>2, LotParts
    <3> QED BY <2>3, <3>1, SyncAssumption
  <2>5. \A k : Had(k) => Had(k)'
    BY <2>4 DEF Had, Lots
  <2>6. \A k \in Lots : k[2] <= lots[k[1]] => k # <<s, lots[s] + 1>>
    <3> SUFFICES ASSUME NEW k \in Lots, k = <<s, lots[s] + 1>>
                 PROVE  ~ (k[2] <= lots[k[1]])
      OBVIOUS
    <3>1. k[1] = s /\ k[2] = lots[s] + 1 /\ lots[s] \in 0..MaxLots
      BY <2>2
    <3> QED BY <3>1, SyncAssumption
  <2>7. Over \subseteq Over'
    BY <2>1, <2>4, <2>6 DEF Over, Lots
  <2>8. held' \subseteq held \cup {k \in Lots' : k[2] <= lots[k[1]]'}
    <3>1. <<s, lots[s] + 1>>[2] <= lots'[<<s, lots[s] + 1>>[1]]
      BY <2>2, <2>3, SyncAssumption
    <3> QED BY <2>1, <2>2, <3>1 DEF Lots
  <2> QED BY <1>0, <2>1, <2>5, <2>7, <2>8, BrokerStep
<1>4. ASSUME NEW l \in held, Exits(l) PROVE JournalInv'
  <2>1. held' = held \ {l} /\ UNCHANGED <<lots, stored, journal, prev, pass>>
    BY <1>4 DEF Exits, storeVars, baseVars
  <2>2. (\A k : Had(k) => Had(k)') /\ Over \subseteq Over'
    BY <2>1 DEF Had, Over, Lots
  <2> QED BY <1>0, <2>1, <2>2, BrokerStep
<1>5. CASE UNCHANGED vars
  <2>1. UNCHANGED <<held, lots, stored, journal, prev, pass>>
    BY <1>5 DEF vars, storeVars, baseVars
  <2>2. (\A k : Had(k) => Had(k)') /\ Over \subseteq Over'
    BY <2>1 DEF Had, Over, Lots
  <2> QED BY <1>0, <2>1, <2>2, BrokerStep
<1> QED BY <1>1, <1>2, <1>3, <1>4, <1>5 DEF Next, SyncAll

\* reconcile_closed journals a close once, and only of a position that is over,
\* across syncs that fail half way, crashes and restarts.
THEOREM ClosesOnce == Spec => []JournaledOnce
<1>1. JournalInv => JournaledOnce
  BY DEF JournalInv
<1> QED BY <1>1, JournalInit, JournalNext, PTL DEF Spec

\* The fill of a close is its own position's exit or a later one's, or none.
THEOREM ExitsOwn == Spec => []ExitNotOlder
<1>1. JournalInv => ExitNotOlder
  BY DEF JournalInv
<1> QED BY <1>1, JournalInit, JournalNext, PTL DEF Spec

-----------------------------------------------------------------------------
(***************************************************************************)
(* No close is lost while the store accepts events and the process lives.  *)
(* A lot that was shown stays in the base of the diff, or in the snapshot  *)
(* that is to be the next base, until its close is journaled.              *)
(***************************************************************************)

\* The symbol was not entered again.
Latest(l) == lots[l[1]] = l[2]

\* What is held is the last lot of its symbol; what was shown was held.
HeldLatest == \A l \in held : Latest(l)
ShownHad == \A l \in shown : Had(l)

\* A snapshot is not older than the base it is compared with.
Fresh ==
    pass.pc \in {"orders", "reconcile"} /\ pass.ok =>
        \A k \in pass.got, l \in prev : k[1] = l[1] => l[2] <= k[2]

\* A lot of the base is still to be journaled, is journaled, or its symbol is held.
Diffed ==
    pass.pc = "reconcile" =>
        /\ pass.ok
        /\ \A l \in prev : l[1] \in Names(pass.got) \/ l \in pass.todo \/ Journaled(l)

\* The first sync seeds the base before anything is shown.
Begun ==
    "crash" \notin faults =>
        /\ pass.pc # "idle" => seeded
        /\ ~seeded => shown = {}

\* A shown lot that is not journaled will be seen by a diff.
Awaited ==
    faults \subseteq {"read_fails"} =>
        \A l \in shown : Latest(l) /\ ~Journaled(l) =>
            l \in prev \/ (pass.pc \in {"orders", "reconcile"} /\ pass.ok /\ l \in pass.got)

ShownInv ==
    /\ JournalInv
    /\ HeldLatest /\ ShownHad /\ Fresh /\ Diffed /\ Begun /\ Awaited

\* Nothing is shown at the start.
LEMMA ShownInit == Init => ShownInv
<1> SUFFICES ASSUME Init PROVE ShownInv
  OBVIOUS
<1>1. pass.pc = "idle"
  BY DEF Init, Idle
<1> QED BY <1>1, JournalInit DEF Init, ShownInv, HeldLatest, ShownHad, Fresh, Diffed, Begun,
           Awaited

\* The numbers of a lot and of its symbol.
LEMMA LotNumbers ==
    TypeInv => /\ \A l \in Lots : l[1] \in Symbols /\ l[2] \in Nat /\ lots[l[1]] \in Nat
               /\ \A k, l \in Lots : k[1] = l[1] /\ k[2] = l[2] => k = l
               /\ held \subseteq Lots /\ prev \subseteq Lots /\ shown \subseteq Lots
               /\ pass.got \subseteq Lots
<1> SUFFICES ASSUME TypeInv
             PROVE  /\ \A l \in Lots : l[1] \in Symbols /\ l[2] \in Nat /\ lots[l[1]] \in Nat
                    /\ \A k, l \in Lots : k[1] = l[1] /\ k[2] = l[2] => k = l
                    /\ held \subseteq Lots /\ prev \subseteq Lots /\ shown \subseteq Lots
                    /\ pass.got \subseteq Lots
  OBVIOUS
<1>1. lots \in [Symbols -> 0..MaxLots] /\ MaxLots \in Nat
  BY SyncAssumption DEF TypeInv, TypeOK
<1>2. \A l \in Lots : l[1] \in Symbols /\ l[2] \in Nat /\ lots[l[1]] \in Nat
  BY <1>1, LotParts
<1>3. \A k, l \in Lots : k[1] = l[1] /\ k[2] = l[2] => k = l
  BY LotParts, Zenon
<1>4. /\ held \subseteq Lots /\ prev \subseteq Lots /\ shown \subseteq Lots
      /\ pass.got \subseteq Lots
  BY DEF TypeInv, TypeOK
<1> QED BY <1>2, <1>3, <1>4

\* The sync's steps.  The broker and the faults stand still.
LEMMA SyncKeeps ==
    ASSUME ShownInv, JournalInv',
           SyncStart \/ SyncPositions \/ SyncOrders \/ SnapshotRefused \/ Crash
    PROVE  ShownInv'
<1>0. /\ JournalInv /\ TypeInv /\ HeldLatest /\ ShownHad /\ Fresh /\ Diffed /\ Begun /\ Awaited
  BY DEF ShownInv, JournalInv
<1>1. UNCHANGED <<held, lots, journal, faults>>
  BY DEF SyncStart, SyncPositions, SyncOrders, SnapshotRefused, Crash, storeVars
<1>2. /\ \A l : Latest(l)' <=> Latest(l)
      /\ \A l : Had(l)' <=> Had(l)
      /\ \A l : Journaled(l)' <=> Journaled(l)
  BY <1>1 DEF Latest, Had, Journaled
<1>3. HeldLatest'
  BY <1>0, <1>1, <1>2 DEF HeldLatest
<1> HIDE DEF Names
<1>4. CASE SyncStart
  <2>1. pass'.pc = "positions" /\ shown' = shown /\ seeded' /\ pass.pc = "idle"
        /\ (seeded => prev' = prev)
    BY <1>4 DEF SyncStart, Idle
  <2>2. ShownHad' /\ Fresh' /\ Diffed' /\ Begun'
    BY <1>0, <1>1, <1>2, <2>1 DEF ShownHad, Fresh, Diffed, Begun
  <2>3. Awaited'
    <3>1. ASSUME faults \subseteq {"read_fails"}, NEW l \in shown, Latest(l), ~Journaled(l)
          PROVE  l \in prev'
      <4>1. seeded
        BY <1>0, <3>1 DEF Begun
      <4> QED BY <1>0, <2>1, <3>1, <4>1 DEF Awaited
    <3> QED BY <1>1, <1>2, <2>1, <3>1 DEF Awaited
  <2> QED BY <1>3, <2>2, <2>3 DEF ShownInv
<1>5. CASE SyncPositions
  <2>1. pass.pc = "positions" /\ pass'.pc = "orders" /\ prev' = prev /\ seeded' = seeded
    BY <1>0, <1>5 DEF SyncPositions, baseVars, TypeInv
  <2>2. \/ pass'.got = held /\ pass'.ok /\ shown' = shown \cup held
        \/ ~pass'.ok /\ shown' = shown
    BY <1>0, <1>5 DEF SyncPositions, TypeInv, JournalInv, AtOrders
  <2>3. ShownHad'
    BY <1>0, <1>2, <2>2 DEF ShownHad, JournalInv, AllHad
  <2>4. Fresh'
    <3>1. ASSUME NEW k \in held, NEW l \in prev, k[1] = l[1] PROVE l[2] <= k[2]
      BY <1>0, <3>1 DEF HeldLatest, Latest, JournalInv, AllHad, Had
    <3> QED BY <2>1, <2>2, <3>1 DEF Fresh
  <2>5. Diffed' /\ Begun'
    BY <1>0, <1>1, <2>1, <2>2 DEF Diffed, Begun
  <2>6. Awaited'
    BY <1>0, <1>1, <1>2, <2>1, <2>2 DEF Awaited
  <2> QED BY <1>3, <2>3, <2>4, <2>5, <2>6 DEF ShownInv
<1>6. CASE SyncOrders
  <2>1. pass.pc = "orders" /\ UNCHANGED <<prev, seeded, shown>>
    BY <1>6 DEF SyncOrders, baseVars
  <2>2. CASE pass.ok
    <3>1. PICK f, t : /\ pass' = [pass EXCEPT !.pc = "reconcile", !.fills = f, !.todo = t]
                      /\ t = {l \in prev : l[1] \notin Names(pass.got)}
      BY <1>6, <2>2 DEF SyncOrders
    <3>2. /\ pass'.pc = "reconcile" /\ pass'.ok /\ pass'.got = pass.got
          /\ pass'.todo = {l \in prev : l[1] \notin Names(pass.got)}
      BY <1>0, <2>2, <3>1 DEF TypeInv
    <3>3. ShownHad' /\ Fresh' /\ Begun' /\ Awaited'
      BY <1>0, <1>1, <1>2, <2>1, <2>2, <3>2 DEF ShownHad, Fresh, Begun, Awaited
    <3>4. Diffed'
      BY <2>1, <3>2 DEF Diffed
    <3> QED BY <1>3, <3>3, <3>4 DEF ShownInv
  <2>3. CASE ~pass.ok
    <3>1. pass'.pc = "idle"
      BY <1>6, <2>3 DEF SyncOrders, Idle
    <3>2. ShownHad' /\ Fresh' /\ Diffed' /\ Begun' /\ Awaited'
      BY <1>0, <1>1, <1>2, <2>1, <2>3, <3>1 DEF ShownHad, Fresh, Diffed, Begun, Awaited
    <3> QED BY <1>3, <3>2 DEF ShownInv
  <2> QED BY <2>2, <2>3
<1>7. CASE SnapshotRefused \/ Crash
  <2>1. /\ pass'.pc = "idle" /\ shown' = shown
        /\ "emit_fails" \in faults \/ "crash" \in faults
        /\ "crash" \notin faults => seeded' = seeded
    BY <1>7 DEF SnapshotRefused, Crash, Idle, baseVars
  <2>2. ShownHad' /\ Fresh' /\ Diffed' /\ Begun' /\ Awaited'
    BY <1>0, <1>1, <1>2, <2>1 DEF ShownHad, Fresh, Diffed, Begun, Awaited
  <2> QED BY <1>3, <2>2 DEF ShownInv
<1> QED BY <1>4, <1>5, <1>6, <1>7

\* A journaled close, and the end of the sync, where the snapshot becomes the base.
LEMMA EndKeeps ==
    ASSUME ShownInv, JournalInv', SyncEnds \/ \E l \in pass.todo : JournalClose(l)
    PROVE  ShownInv'
<1>0. /\ JournalInv /\ TypeInv /\ HeldLatest /\ ShownHad /\ Fresh /\ Diffed /\ Begun /\ Awaited
  BY DEF ShownInv, JournalInv
<1>1. UNCHANGED <<held, lots, faults, seeded, shown>>
  BY DEF SyncEnds, JournalClose, storeVars, baseVars
<1>2. /\ \A l : Latest(l)' <=> Latest(l)
      /\ \A l : Had(l)' <=> Had(l)
  BY <1>1 DEF Latest, Had
<1>3. HeldLatest' /\ ShownHad'
  BY <1>0, <1>1, <1>2 DEF HeldLatest, ShownHad
<1> HIDE DEF Names
<1>4. CASE SyncEnds
  <2>1. /\ pass.pc = "reconcile" /\ pass'.pc = "idle" /\ prev' = pass.got /\ journal' = journal
        /\ pass.todo = {} \/ "emit_fails" \in faults
    BY <1>4 DEF SyncEnds, Idle, storeVars
  <2>2. Fresh' /\ Diffed' /\ Begun'
    BY <1>0, <1>1, <2>1 DEF Fresh, Diffed, Begun
  <2>3. ASSUME faults \subseteq {"read_fails"}, NEW l \in shown, Latest(l), ~Journaled(l)
        PROVE  l \in pass.got
    <3>1. CASE l \in prev
      <4>1. l[1] \in Names(pass.got)
        BY <1>0, <2>1, <2>3, <3>1 DEF Diffed
      <4>2. PICK k \in pass.got : k[1] = l[1]
        BY <4>1 DEF Names
      <4>3. l[2] <= k[2] /\ k[2] <= lots[k[1]]
        BY <1>0, <2>1, <3>1, <4>2 DEF Fresh, Diffed, JournalInv, AllHad, Had
      <4>4. /\ k \in Lots /\ l \in Lots
            /\ k[2] \in Nat /\ l[2] \in Nat /\ lots[k[1]] \in Nat
        BY <1>0, <3>1, LotNumbers
      <4>5. k[2] = l[2]
        BY <2>3, <4>2, <4>3, <4>4 DEF Latest
      <4> QED BY <1>0, <4>2, <4>4, <4>5, LotNumbers
    <3>2. CASE l \notin prev
      BY <1>0, <2>3, <3>2 DEF Awaited
    <3> QED BY <3>1, <3>2
  <2>4. Awaited'
    <3>1. \A l : Journaled(l)' <=> Journaled(l)
      BY <2>1 DEF Journaled
    <3> QED BY <1>1, <1>2, <2>1, <2>3, <3>1 DEF Awaited
  <2> QED BY <1>3, <2>2, <2>4 DEF ShownInv
<1>5. ASSUME NEW c \in pass.todo, JournalClose(c) PROVE ShownInv'
  <2>1. /\ pass.pc = "reconcile" /\ pass'.pc = "reconcile" /\ prev' = prev
        /\ pass'.ok = pass.ok /\ pass'.got = pass.got /\ pass'.todo = pass.todo \ {c}
    BY <1>0, <1>5 DEF JournalClose, baseVars, TypeInv
  <2>2. \A l : Journaled(l) \/ l = c => Journaled(l)'
    <3>1. c \in Lots /\ [lot |-> c, fill |-> LatestFill(c[1])] \in Close
      <4>1. c \in Lots
        BY <1>0 DEF TypeInv
      <4> QED BY <1>0, <4>1, LotParts, FillIsLatest DEF Close, TypeInv, TypeOK
    <3>2. PICK e \in Close : e = [lot |-> c, fill |-> LatestFill(c[1])]
      BY <3>1
    <3>3. journal' = Append(journal, e) /\ e.lot = c
      BY <1>5, <3>2 DEF JournalClose
    <3>4. /\ Len(journal') = Len(journal) + 1 /\ Len(journal) \in Nat
          /\ \A i \in 1..Len(journal) : journal'[i] = journal[i]
          /\ journal'[Len(journal) + 1] = e
      BY <1>0, <3>3, Appended DEF TypeInv
    <3>5. ASSUME NEW l, Journaled(l) PROVE Journaled(l)'
      BY <3>4, <3>5 DEF Journaled
    <3>6. Journaled(c)'
      BY <3>3, <3>4 DEF Journaled
    <3> QED BY <3>5, <3>6
  <2>3. Fresh' /\ Begun'
    BY <1>0, <1>1, <2>1 DEF Fresh, Begun
  <2>4. Diffed' /\ Awaited'
    BY <1>0, <1>1, <1>2, <2>1, <2>2 DEF Diffed, Awaited
  <2> QED BY <1>3, <2>3, <2>4 DEF ShownInv
<1> QED BY <1>4, <1>5

\* Every step keeps the invariant.
LEMMA ShownNext == ShownInv /\ [Next]_vars => ShownInv'
<1> SUFFICES ASSUME ShownInv, [Next]_vars PROVE ShownInv'
  OBVIOUS
<1>0. /\ JournalInv /\ TypeInv /\ HeldLatest /\ ShownHad /\ Fresh /\ Diffed /\ Begun /\ Awaited
  BY DEF ShownInv, JournalInv
<1>1. JournalInv'
  BY <1>0, JournalNext
<1>2. ASSUME UNCHANGED <<journal, prev, seeded, pass, shown, faults>>,
             \A l \in held' : lots'[l[1]] = l[2],
             \A l \in Lots : l[2] <= lots[l[1]] =>
                l[2] <= lots'[l[1]] /\ (lots'[l[1]] = l[2] => lots[l[1]] = l[2])
      PROVE  ShownInv'
  <2>1. \A l : Journaled(l)' <=> Journaled(l)
    BY <1>2 DEF Journaled
  <2>2. HeldLatest' /\ Fresh' /\ Begun'
    BY <1>0, <1>2 DEF HeldLatest, Latest, Fresh, Begun
  <2>3. ShownHad' /\ Diffed'
    BY <1>0, <1>2, <2>1 DEF ShownHad, Had, Lots, Diffed
  <2>4. Awaited'
    BY <1>0, <1>2, <2>1 DEF Awaited, ShownHad, Had, Latest
  <2> QED BY <1>1, <2>2, <2>3, <2>4 DEF ShownInv
<1>3. ASSUME NEW s \in Symbols, Enters(s) PROVE ShownInv'
  <2>1. /\ held' = held \cup {<<s, lots[s] + 1>>} /\ lots' = [lots EXCEPT ![s] = @ + 1]
        /\ \A l \in held : l[1] # s
        /\ UNCHANGED <<journal, prev, seeded, pass, shown, faults>>
    BY <1>3 DEF Enters, storeVars, baseVars
  <2>2. lots \in [Symbols -> 0..MaxLots] /\ lots[s] \in Nat
    BY <1>0, SyncAssumption DEF TypeInv, TypeOK
  <2>3. lots'[s] = lots[s] + 1 /\ \A t \in Symbols : t # s => lots'[t] = lots[t]
    BY <2>1, <2>2
  <2>4. ASSUME NEW l \in held' PROVE lots'[l[1]] = l[2]
    <3>1. CASE l \in held
      BY <1>0, <2>1, <2>3, <3>1, LotNumbers DEF HeldLatest, Latest
    <3>2. CASE l = <<s, lots[s] + 1>>
      BY <2>3, <3>2
    <3> QED BY <2>1, <3>1, <3>2
  <2>5. ASSUME NEW l \in Lots, l[2] <= lots[l[1]]
        PROVE  l[2] <= lots'[l[1]] /\ (lots'[l[1]] = l[2] => lots[l[1]] = l[2])
    <3>1. l[1] \in Symbols /\ l[2] \in Nat /\ lots[l[1]] \in Nat
      BY <1>0, LotNumbers
    <3> QED BY <2>2, <2>3, <2>5, <3>1
  <2> QED BY <1>2, <2>1, <2>4, <2>5
<1>4. ASSUME NEW l \in held, Exits(l) PROVE ShownInv'
  BY <1>0, <1>2, <1>4 DEF Exits, storeVars, baseVars, Latest, HeldLatest
<1>5. CASE UNCHANGED vars
  BY <1>0, <1>2, <1>5 DEF vars, storeVars, baseVars, Latest, HeldLatest
<1> QED BY <1>1, <1>3, <1>4, <1>5, SyncKeeps, EndKeeps DEF Next, SyncAll

\* While the store accepts events and the process lives, the close of every position a
\* snapshot showed is journaled (sync_all, reconcile_closed), unless its symbol was
\* entered again before the sync saw the close.
THEOREM ShownJournaled == Spec => []ShownCloseJournaled
<1>1. ShownInv => ShownCloseJournaled
  BY DEF ShownInv, Awaited, Latest, ShownCloseJournaled
<1> QED BY <1>1, ShownInit, ShownNext, PTL DEF Spec
=============================================================================

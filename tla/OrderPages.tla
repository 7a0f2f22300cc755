---------------------------- MODULE OrderPages ----------------------------
(***************************************************************************)
(* The order history, page by page (alpaca_paper/client.py, get_orders     *)
(* without symbols): newest first, each next page with the orders          *)
(* submitted before the oldest of the last one, while new orders come in.  *)
(*                                                                         *)
(* An order is known by its place in the history, later is higher.  It has *)
(* the time it was submitted at, which others may share, and the number of *)
(* its bracket legs; the broker counts the legs toward the limit of a      *)
(* page.                                                                   *)
(***************************************************************************)
EXTENDS Integers, FiniteSets, Sequences, SequencesExt

CONSTANTS
    MaxOrders,    \* bound on the history
    MaxLegs,      \* legs of an order, at most
    SameTime,     \* two orders may be submitted at one time
    Limit,        \* the page limit
    MaxPages      \* the runaway guard

\* what the constants have to satisfy
PagesAssumption ==
    /\ {MaxOrders, MaxLegs} \subseteq Nat
    /\ {Limit, MaxPages} \subseteq Nat \ {0}
    /\ MaxLegs < Limit
    /\ SameTime \in BOOLEAN

VARIABLES
    history,   \* the broker's orders, oldest first
    out,       \* the orders read, in the order they are returned
    until,     \* the time the next page ends before, 0 for none
    pages,     \* the pages read
    newest,    \* history: how many orders there were at the first page
    state      \* "idle", "paging" or "done"

vars == <<history, out, until, pages, newest, state>>

Init ==
    /\ history = <<>>
    /\ out = <<>> /\ until = 0 /\ pages = 0 /\ newest = 0
    /\ state = "idle"

At(i) == history[i].at

\* an order is submitted, with its legs
Submitted ==
    /\ Len(history) < MaxOrders
    /\ \E legs \in 0..MaxLegs, gap \in IF SameTime THEN {0, 1} ELSE {1} :
        LET last == IF history = <<>> THEN 1 ELSE At(Len(history))
        IN  history' = Append(history, [at |-> last + gap, legs |-> legs])
    /\ UNCHANGED <<out, until, pages, newest, state>>

-----------------------------------------------------------------------------

\* the orders a page may have
Before(i) == until = 0 \/ At(i) < until

\* orders and legs of the newest of the first top orders, by how many they are
Weight(top) ==
    LET w[k \in 0..top] == IF k = 0 THEN 0 ELSE w[k - 1] + 1 + history[top - k + 1].legs
    IN  w

\* the page: what the limit has room for, newest first
Page ==
    LET eligible == {i \in 1..Len(history) : Before(i)}
        top == Cardinality(eligible)
        fit == {k \in 1..top : Weight(top)[k] <= Limit}
    IN  [k \in 1..Cardinality(fit) |-> top - k + 1]

\* mutant of Fresh: the page is asked for oldest first
FreshOldest(page) == SelectSeq(Reverse(page), LAMBDA i : ~Contains(out, i))

\* the orders of the page that were not read before
Fresh(page) ==
    LET fresh[k \in 0..Len(page)] ==
            IF k = 0 THEN <<>>
            ELSE IF Contains(out, page[k]) THEN fresh[k - 1] ELSE Append(fresh[k - 1], page[k])
    IN  fresh[Len(page)]

\* a page shorter than the limit is the last; the length counts no legs
LastPage(page) == Len(page) < Limit

\* one pass of the loop
ReadPage ==
    /\ state \in {"idle", "paging"}
    /\ pages < MaxPages
    /\ pages' = pages + 1
    /\ newest' = IF state = "idle" THEN Len(history) ELSE newest
    /\ out' = out \o Fresh(Page)
    /\ IF LastPage(Page) \/ pages' = MaxPages
       THEN state' = "done" /\ UNCHANGED until
       ELSE state' = "paging" /\ until' = At(Page[Len(Page)])
    /\ UNCHANGED history

Next == Submitted \/ ReadPage

Spec == Init /\ [][Next]_vars

-----------------------------------------------------------------------------
(* Properties *)

Got == {out[k] : k \in 1..Len(out)}

\* Every variable has its type.
TypeOK ==
    /\ Len(history) <= MaxOrders /\ newest \in 0..Len(history)
    /\ Got \subseteq 1..Len(history)
    /\ pages \in 0..MaxPages
    /\ state \in {"idle", "paging", "done"}

\* No order is returned twice and the newest come first, whatever is submitted
\* between two pages, and whatever orders share a time.
NewestFirst ==
    \A j, k \in 1..Len(out) : j < k => out[j] > out[k]

DistinctTimes == \A i, j \in 1..Len(history) : i # j => At(i) # At(j)

\* What was read has no gap while no two orders share a time: it is the newest
\* orders of the first page's moment, down to some time.
NoGap == DistinctTimes => \A i \in Got : i..newest \subseteq Got

\* Without legs and shared times, and with pages to spare, the whole history of the
\* moment the reading began is read.
AllRead ==
    /\ state = "done" /\ pages < MaxPages
    /\ DistinctTimes /\ \A i \in 1..Len(history) : history[i].legs = 0
    => 1..newest \subseteq Got
=============================================================================

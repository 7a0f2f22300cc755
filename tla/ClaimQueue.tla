----------------------------- MODULE ClaimQueue -----------------------------
(***************************************************************************)
(* What the table of videos promises its workers: a queue whose jobs are   *)
(* handed out oldest first, each to one worker at a time, and whose        *)
(* results are stored at most once.  A job goes back while tries are left  *)
(* and nothing of it is stored; done or failed, it is never handed out     *)
(* again.  Nor is one whose worker is gone: nothing returns it.            *)
(***************************************************************************)
EXTENDS Integers

CONSTANTS Jobs, Takers, Age, MaxRetries

VARIABLES place,    \* where each job is
          held,     \* by whom, a set
          tries,    \* how often it was handed out
          results   \* what is stored of it

vars == <<place, held, tries, results>>

Init ==
    /\ place = [j \in Jobs |-> "absent"]
    /\ held = [j \in Jobs |-> {}]
    /\ tries = [j \in Jobs |-> 0]
    /\ results = [j \in Jobs |-> {}]

Arrive(j) ==
    /\ place[j] = "absent" /\ place' = [place EXCEPT ![j] = "waiting"]
    /\ UNCHANGED <<held, tries, results>>

Take(j, w) ==
    /\ place[j] = "waiting" /\ held[j] = {} /\ tries[j] <= MaxRetries
    /\ \A k \in Jobs : place[k] = "waiting" => Age[j] <= Age[k]
    /\ \A k \in Jobs : w \notin held[k]
    /\ place' = [place EXCEPT ![j] = "taken"]
    /\ held' = [held EXCEPT ![j] = {w}]
    /\ tries' = [tries EXCEPT ![j] = @ + 1]
    /\ UNCHANGED results

\* its worker could not do it
Return(j) ==
    /\ place[j] = "taken" /\ held[j] # {} /\ results[j] = {}
    /\ place' = [place EXCEPT ![j] = IF tries[j] <= MaxRetries THEN "waiting" ELSE "failed"]
    /\ held' = [held EXCEPT ![j] = {}]
    /\ UNCHANGED <<tries, results>>

Store(j) ==
    /\ place[j] = "taken" /\ held[j] # {} /\ results[j] = {}
    /\ results' = [results EXCEPT ![j] = results'[j]]
    /\ UNCHANGED <<place, held, tries>>

Finish(j) ==
    /\ place[j] = "taken" /\ held[j] # {}
    /\ place' = [place EXCEPT ![j] = "done"]
    /\ held' = [held EXCEPT ![j] = {}]
    /\ UNCHANGED <<tries, results>>

\* its worker is gone, and the job stays where it is
Abandon(j) ==
    /\ place[j] = "taken" /\ held[j] # {}
    /\ held' = [held EXCEPT ![j] = {}]
    /\ UNCHANGED <<place, tries, results>>

Next ==
    \E j \in Jobs :
        \/ Arrive(j) \/ Return(j) \/ Store(j) \/ Finish(j) \/ Abandon(j)
        \/ \E w \in Takers : Take(j, w)

Spec == Init /\ [][Next]_vars
=============================================================================

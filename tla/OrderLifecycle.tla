-------------------------- MODULE OrderLifecycle --------------------------
(***************************************************************************)
(* What the execution service promises of one order, whoever acts on it:   *)
(* a request is decided once, only an approved request is sent to the      *)
(* broker, it is sent once, and what the broker holds of it only moves     *)
(* forward: from working to a position to over.                            *)
(*                                                                         *)
(* Orders do not constrain each other here: a step moves any number of     *)
(* them, each by a step of its own (a flatten closes many positions).      *)
(***************************************************************************)
CONSTANT Orders

VARIABLES decision,   \* the person's or the policy's word on each request
          place       \* where the order is

vars == <<decision, place>>

Decisions == {"none", "pending", "approved", "rejected"}
Places == {"nowhere", "working", "position", "over"}

TypeOK == decision \in [Orders -> Decisions] /\ place \in [Orders -> Places]

Init ==
    /\ decision = [o \in Orders |-> "none"]
    /\ place = [o \in Orders |-> "nowhere"]

\* requested and left for someone to decide
Request(o) ==
    /\ decision[o] = "none"
    /\ decision'[o] = "pending"
    /\ place'[o] = place[o]

Refuse(o) ==
    /\ decision[o] = "pending"
    /\ decision'[o] = "rejected"
    /\ place'[o] = place[o]

\* approved, by a person or (a request nobody else saw) by the trigger thread,
\* and sent: the broker refuses it, lets it rest, fills it, or ends it
Approve(o) ==
    /\ decision[o] \in {"none", "pending"}
    /\ decision'[o] = "approved"
    /\ place[o] = "nowhere"
    /\ place'[o] \in Places

Fills(o) ==
    /\ place[o] = "working" /\ place'[o] = "position"
    /\ decision'[o] = decision[o]

Ends(o) ==
    /\ place[o] \in {"working", "position"} /\ place'[o] = "over"
    /\ decision'[o] = decision[o]

Stays(o) == decision'[o] = decision[o] /\ place'[o] = place[o]

OrderMoves(o) ==
    Request(o) \/ Refuse(o) \/ Approve(o) \/ Fills(o) \/ Ends(o) \/ Stays(o)

Next == TypeOK' /\ \A o \in Orders : OrderMoves(o)

Spec == Init /\ [][Next]_vars
=============================================================================

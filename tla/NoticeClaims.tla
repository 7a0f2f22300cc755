---------------------------- MODULE NoticeClaims ----------------------------
(* A claim of runtime/notifier.py that the code does not keep. *)
EXTENDS Notifications

\* "Polls the event store and pushes one message per NEW major event since it started":
\* the query of a poll answers the oldest rows there are, and once there are as many
\* as its limit no later event is ever seen.
AllAlerted ==
    \A i \in 1..MaxRisks :
        (i \in DOMAIN risks /\ i > before /\ risks[i]) ~> (i \in pushed \/ i <= before)
=============================================================================

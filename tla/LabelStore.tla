----------------------------- MODULE LabelStore -----------------------------
(***************************************************************************)
(* The labeler's tables and its build jobs: one track's setups, features   *)
(* and outcome labels, inserted session by session on a connection that    *)
(* commits each statement (research/labeler.py), while bars arrive.        *)
(* A setup is a track and a session; a job may die between two statements. *)
(***************************************************************************)
EXTENDS Integers, Sequences

CONSTANTS
    BuiltTracks,  \* setup versions: "v1" is the opening range, the others shadow tracks
    Sessions,     \* the symbol-sessions of minute_bars, 1..n in order
    MaxBuilds,    \* bound on the jobs started
    MaxChanges    \* bound on the changes of the bars

LabelAssumption ==
    /\ Sessions \in Nat /\ MaxBuilds \in Nat /\ MaxChanges \in Nat

VARIABLES
    found,     \* the setups the bars now hold
    setups, features, labels,    \* setup_events, engineered_features, outcome_labels
    job,       \* the job's track, session and step, and what it has seen; Idle
    broken,    \* setups left without their label: by a death, or by a rebuild of v1
    builds, changes

labelVars == <<found, setups, features, labels, job, broken, builds, changes>>

Setups == BuiltTracks \X (1 .. Sessions)
Of(track) == {s \in Setups : s[1] = track}
Idle == [track |-> "none", session |-> 0, step |-> "none", fresh |-> FALSE]

Init ==
    /\ found \in {{}, Setups}
    /\ setups = {} /\ features = {} /\ labels = {} /\ broken = {}
    /\ job = Idle
    /\ builds = 0 /\ changes = 0

\* build...(con, rebuild): a rebuild deletes the track's rows first
Start(track, rebuild) ==
    /\ job = Idle
    /\ builds < MaxBuilds
    /\ builds' = builds + 1
    /\ job' = [track |-> track, session |-> 1, fresh |-> rebuild,
               step |-> IF ~rebuild THEN "setup"
                        ELSE IF track = "v1" THEN "delete features" ELSE "delete labels"]
    /\ UNCHANGED <<found, setups, features, labels, broken, changes>>

\* v1 alone has features
DeleteFeatures ==
    /\ job.step = "delete features"
    /\ features' = {}
    /\ job' = [job EXCEPT !.step = "delete labels"]
    /\ UNCHANGED <<found, setups, labels, broken, builds, changes>>

\* outcome_labels go before setup_events: those of v1 by label_version, which
\* every track shares, those of a shadow track by their setup_id
DeleteLabels ==
    LET gone == IF job.track = "v1" THEN labels ELSE labels \cap Of(job.track)
    IN  /\ job.step = "delete labels"
        /\ labels' = labels \ gone
        /\ broken' = broken \cup gone
        /\ job' = [job EXCEPT !.step = "delete setups"]
        /\ UNCHANGED <<found, setups, features, builds, changes>>

DeleteSetups ==
    /\ job.step = "delete setups"
    /\ setups' = setups \ Of(job.track)
    /\ broken' = broken \ Of(job.track)
    /\ job' = [job EXCEPT !.step = "setup"]
    /\ UNCHANGED <<found, features, labels, builds, changes>>

Ready == job.step = "setup" /\ job.session <= Sessions
Current == <<job.track, job.session>>

\* a session without a setup is passed over
Skip ==
    /\ Ready /\ Current \notin found
    /\ job' = [job EXCEPT !.session = @ + 1]
    /\ UNCHANGED <<found, setups, features, labels, broken, builds, changes>>

\* the primary key refuses a setup that is stored: nothing catches it
Refused ==
    /\ Ready /\ Current \in found \cap setups
    /\ job' = Idle
    /\ UNCHANGED <<found, setups, features, labels, broken, builds, changes>>

\* mutant of Order: the label before its setup
OrderLabelFirst(track) == <<"label", "setup">>

\* the rows a setup is stored in, in the order they are inserted
Order(track) == IF track = "v1" THEN <<"setup", "features", "label">> ELSE <<"setup", "label">>

\* _insert: the job's first row of a setup, then the others
Insert ==
    \E i \in DOMAIN Order(job.track) :
        LET last == i = Len(Order(job.track))
            row == Order(job.track)[i]
            storing(table) == IF row = table THEN {Current} ELSE {}
        IN  /\ \/ i = 1 /\ Ready /\ Current \in found \ setups
               \/ i > 1 /\ job.step = row
            /\ setups' = setups \cup storing("setup")
            /\ features' = features \cup storing("features")
            /\ labels' = labels \cup storing("label")
            /\ job' = IF last THEN [job EXCEPT !.session = @ + 1, !.step = "setup"]
                      ELSE [job EXCEPT !.step = Order(job.track)[i + 1]]
            /\ UNCHANGED <<found, broken, builds, changes>>

Finish ==
    /\ job.step = "setup" /\ job.session > Sessions
    /\ job' = Idle
    /\ UNCHANGED <<found, setups, features, labels, broken, builds, changes>>

\* the process dies: what it stored stays, a setup whose label it had not reached too
Die ==
    /\ job # Idle
    /\ broken' = broken \cup ((setups \ labels) \cap Of(job.track))
    /\ job' = Idle
    /\ UNCHANGED <<found, setups, features, labels, builds, changes>>

\* live ingest adds bars, and the nightly refetch replaces a session's
BarsChange(s) ==
    /\ changes < MaxChanges
    /\ changes' = changes + 1
    /\ found' = IF s \in found THEN found \ {s} ELSE found \cup {s}
    /\ job' = [job EXCEPT !.fresh = FALSE]
    /\ UNCHANGED <<setups, features, labels, broken, builds>>

Next ==
    \/ \E track \in BuiltTracks, rebuild \in BOOLEAN : Start(track, rebuild)
    \/ DeleteFeatures
    \/ DeleteLabels
    \/ DeleteSetups
    \/ Skip
    \/ Refused
    \/ Insert
    \/ Finish
    \/ Die
    \/ \E s \in Setups : BarsChange(s)

Spec == Init /\ [][Next]_labelVars
-----------------------------------------------------------------------------
(* Properties *)

\* Every variable has its type.
TypeOK ==
    /\ found \subseteq Setups /\ setups \subseteq Setups /\ broken \subseteq Setups
    /\ features \subseteq Setups /\ labels \subseteq Setups
    /\ job.track \in BuiltTracks \cup {"none"} /\ job.session \in 0 .. Sessions + 1
    /\ builds \in 0 .. MaxBuilds /\ changes \in 0 .. MaxChanges

\* Nothing relates the tables but the order of the statements: wherever a job
\* dies a label or a feature row has its setup, so that no key is taken by a row
\* the next rebuild cannot find (labeler.py:426-428), and between jobs a setup
\* has its label unless a death, or a rebuild of v1, took it from it.
LabelsKept ==
    /\ labels \cup features \subseteq setups
    /\ job = Idle => setups \ labels \subseteq broken

\* A rebuild that ends, with the bars it began on, has stored exactly the
\* track's setups (premarket_eval.py:69 "rebuild from the grown DB").
RebuiltWhole ==
    job.fresh /\ job.session > Sessions /\ job' = Idle =>
        setups' \cap Of(job.track) = found \cap Of(job.track)
=============================================================================

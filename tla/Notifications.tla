--------------------------- MODULE Notifications ---------------------------
(***************************************************************************)
(* Telegram, both ways.  The notifier of run_live_paper.py polls the event *)
(* store for risk events, by a query that answers the first ScanLimit of   *)
(* them, and pushes one message per new major one; what it has seen it     *)
(* keeps in memory, and what the store holds when it starts counts as      *)
(* seen.  The question bot, a process of its own, asks Telegram for the    *)
(* updates from an offset on and answers each.                             *)
(*                                                                         *)
(* Sending may fail, the store may, and both processes may end and be      *)
(* started again.                                                          *)
(***************************************************************************)
EXTENDS Integers, Sequences, SequencesExt, FiniteSets, FiniteSetsExt

CONSTANTS
    ScanLimit,      \* rows of the notifier's query
    MaxRisks,       \* bound on the risk events
    MaxQuestions,   \* bound on the questions asked
    MaxStarts,      \* bound on the starts of a process
    NoticeFaults    \* the combinations of faults a run may see

(* no_send    Telegram refuses a message                     *)
(* no_prime   the first scan of a new notifier fails         *)
(* restarts   the trading process is started again           *)
(* bot_dies   the bot is                                     *)
NoticeFaultNames == {"no_send", "no_prime", "restarts", "bot_dies"}

NoticesAssumption ==
    /\ ScanLimit \in Nat /\ MaxQuestions \in Nat
    /\ MaxRisks \in Nat \ {0} /\ MaxStarts \in Nat \ {0}
    /\ NoticeFaults \subseteq SUBSET NoticeFaultNames

VARIABLES
    risks,     \* the store: which of the risk events are major
    seen,      \* _seen: positions in the store
    alerts,    \* how often each was pushed by the process that runs
    pushed,    \* those a push was tried for, by that process
    before,    \* history: the events there were when it started
    primed,    \* history: its first scan worked
    starts,
    questions, \* how many the chat has asked
    confirmed, \* the updates Telegram has forgotten
    batch,     \* the updates the bot took and has not answered
    offset,    \* 0: none
    answers,   \* how often each question was answered
    ills

noticeVars == <<risks, seen, alerts, pushed, before, primed, starts,
                questions, confirmed, batch, offset, answers, ills>>

notifierVars == <<risks, seen, alerts, pushed, before, primed, starts>>
botVars == <<questions, confirmed, batch, offset, answers>>

-----------------------------------------------------------------------------
(* The notifier *)

\* the major ones among the first rows of the query
Scanned == {i \in DOMAIN risks : i <= ScanLimit /\ risks[i]}

Init ==
    /\ ills \in NoticeFaults
    /\ risks \in {<<>>, <<TRUE>>}
    /\ seen = {i \in DOMAIN risks : risks[i]}
    /\ alerts = [i \in 1..MaxRisks |-> 0] /\ pushed = {}
    /\ before = Len(risks) /\ primed = TRUE /\ starts = 1
    /\ questions = 0 /\ confirmed = 0 /\ batch = <<>> /\ offset = 0
    /\ answers = [i \in 1..MaxQuestions |-> 0]

\* another component logs a risk event
Happens(major) ==
    /\ Len(risks) < MaxRisks
    /\ risks' = Append(risks, major)
    /\ UNCHANGED <<seen, alerts, pushed, before, primed, starts, botVars, ills>>

\* __init__: scan without notifying; a failure leaves nothing seen
StartNotifier ==
    /\ "restarts" \in ills /\ starts < MaxStarts
    /\ starts' = starts + 1
    /\ \/ seen' = Scanned /\ primed' = TRUE
       \/ "no_prime" \in ills /\ seen' = {} /\ primed' = FALSE
    /\ alerts' = [i \in 1..MaxRisks |-> 0] /\ pushed' = {}
    /\ before' = Len(risks)
    /\ UNCHANGED <<risks, botVars, ills>>

NewOnes == Scanned \ seen

\* poll: seen before it is sent, so that a message Telegram refuses is not sent again
Poll ==
    /\ NewOnes # {}
    /\ \E went \in {NewOnes} \cup {w \in SUBSET NewOnes : "no_send" \in ills} :
        alerts' = [i \in DOMAIN alerts |-> IF i \in went THEN alerts[i] + 1 ELSE alerts[i]]
    /\ seen' = seen \cup NewOnes /\ pushed' = pushed \cup NewOnes
    /\ UNCHANGED <<risks, before, primed, starts, botVars, ills>>

-----------------------------------------------------------------------------
(* The question bot *)

Ask ==
    /\ questions < MaxQuestions /\ questions' = questions + 1
    /\ UNCHANGED <<notifierVars, confirmed, batch, offset, answers, ills>>

\* getUpdates: Telegram forgets the updates below the offset and answers the rest
GetUpdates ==
    /\ batch = <<>>
    /\ confirmed' = Max({confirmed, offset - 1})
    /\ confirmed' < questions
    /\ batch' = [i \in 1..questions - confirmed' |-> confirmed' + i]
    /\ UNCHANGED <<notifierVars, questions, offset, answers, ills>>

\* one update of the batch: the offset first, then its answer, which Telegram may refuse
Answer ==
    /\ batch # <<>>
    /\ offset' = Head(batch) + 1
    /\ batch' = Tail(batch)
    /\ \/ answers' = [answers EXCEPT ![Head(batch)] = @ + 1]
       \/ "no_send" \in ills /\ UNCHANGED answers
    /\ UNCHANGED <<notifierVars, questions, confirmed, ills>>

\* a new bot has no offset: what was not confirmed comes again
BotDies ==
    /\ "bot_dies" \in ills /\ offset > 0 /\ starts < MaxStarts
    /\ starts' = starts + 1
    /\ batch' = <<>> /\ offset' = 0
    /\ UNCHANGED <<risks, seen, alerts, pushed, before, primed, questions, confirmed, answers, ills>>

Next ==
    \/ \E major \in BOOLEAN : Happens(major)
    \/ StartNotifier \/ Poll \/ Ask \/ GetUpdates \/ Answer \/ BotDies

Spec == Init /\ [][Next]_noticeVars /\ WF_noticeVars(Poll)

-----------------------------------------------------------------------------
(* Properties *)

\* Every variable has its type.
TypeOK ==
    /\ risks \in Seq(BOOLEAN) /\ Len(risks) <= MaxRisks
    /\ seen \subseteq DOMAIN risks /\ pushed \subseteq DOMAIN risks
    /\ alerts \in [1..MaxRisks -> Nat] /\ answers \in [1..MaxQuestions -> Nat]
    /\ before \in 0..MaxRisks /\ primed \in BOOLEAN /\ starts \in 1..MaxStarts
    /\ questions \in 0..MaxQuestions /\ confirmed \in 0..questions
    /\ batch \in Seq(1..MaxQuestions) /\ offset \in 0..MaxQuestions + 1
    /\ ills \in NoticeFaults

\* A process pushes an event once at most and, if its first scan worked, none from before it
\* started; a bot that is not started again answers no question twice
\* (notifier.py:82-85, telegram_bot.py:253-276).
ToldOnce ==
    /\ \A i \in DOMAIN alerts : alerts[i] <= 1
    /\ primed => \A i \in pushed : i > before
    /\ "bot_dies" \notin ills => \A q \in DOMAIN answers : answers[q] <= 1
=============================================================================

--------------------------- MODULE VideoPipeline ---------------------------
(***************************************************************************)
(* The video claims pipeline (youtube_claims): a poll inserts the new      *)
(* videos of each playlist as pending rows; workers claim one row at a     *)
(* time, transcribe it, have a local model extract claims from each window *)
(* of the transcript, store the claims and mark the row done.              *)
(*                                                                         *)
(* Every database call is a transaction of its own, so a process that      *)
(* dies or whose call fails stops between any two steps.  A video's rows   *)
(* carry the attempt that stored them.                                     *)
(***************************************************************************)
EXTENDS Integers, FiniteSets

CONSTANTS
    Videos, Playlists, Workers, Pollers,
    Items,        \* [Playlists -> SUBSET Videos]: what a playlist lists
    Published,    \* [Videos -> Nat]: when a video was published
    Answers,      \* what the model says of a window: its kind and its claims
    MaxRetries, MaxWindows,
    MaxPolls,     \* bound on the polls of a run
    PipelineFaults \* the combinations of faults a run may see

(* gives_up   a process dies, or one of its database calls fails           *)
(* no_video   both ways to a transcript fail                               *)
(* no_model   the model does not answer, or with something else            *)
(* bad_rows   a claim has a value that its column does not take            *)
FaultNames == {"gives_up", "no_video", "no_model", "bad_rows"}

PipelineAssumption ==
    /\ Items \in [Playlists -> SUBSET Videos]
    /\ Published \in [Videos -> Nat]
    /\ MaxRetries \in Nat /\ MaxWindows \in Nat /\ MaxPolls \in Nat
    /\ PipelineFaults \subseteq SUBSET FaultNames

VARIABLES
    status,    \* videos.status, "absent" while there is no row
    retries,   \* videos.retry_count
    claims,    \* the claims table: sets of [claim, attempt]
    quota,     \* api_quota.units_used
    worker,    \* where each worker is, and its locals
    poller,    \* the same of each poll
    attempts,  \* history: how often each video was claimed
    polls, given

pipelineVars == <<status, retries, claims, quota, worker, poller, attempts, polls,
                  given>>
videoVars == <<status, retries, claims, attempts>>

Resting == [at |-> "idle", video |-> CHOOSE v \in Videos : TRUE, windows |-> 0,
            found |-> {}]
NoPoll == [at |-> "idle", seen |-> {}, todo |-> {}, items |-> {}, units |-> 0]

Init ==
    /\ status = [v \in Videos |-> "absent"]
    /\ retries = [v \in Videos |-> 0]
    /\ claims = [v \in Videos |-> {}]
    /\ quota = 0
    /\ worker = [w \in Workers |-> Resting]
    /\ poller = [p \in Pollers |-> NoPoll]
    /\ attempts = [v \in Videos |-> 0]
    /\ polls = 0
    /\ given \in PipelineFaults

-----------------------------------------------------------------------------
(* detection.poll_once *)

PollStart(p) ==
    /\ poller[p].at = "idle" /\ polls < MaxPolls
    /\ polls' = polls + 1
    /\ poller' = [poller EXCEPT ![p] =
            [NoPoll EXCEPT !.at = "list", !.todo = Playlists,
                           !.seen = {v \in Videos : status[v] # "absent"}]]
    /\ UNCHANGED <<videoVars, quota, worker, given>>

\* fetch_playlist_items: one playlist that cannot be read does not stop the poll
FetchPlaylist(p, l) ==
    /\ poller[p].at = "list" /\ l \in poller[p].todo /\ poller[p].items = {}
    /\ \/ poller' = [poller EXCEPT ![p].todo = @ \ {l}, ![p].units = @ + 1,
                                   ![p].items = Items[l] \ poller[p].seen]
       \/ "no_video" \in given /\ poller' = [poller EXCEPT ![p].todo = @ \ {l}]
    /\ UNCHANGED <<videoVars, quota, worker, polls, given>>

\* insert_pending_video: ON CONFLICT DO NOTHING
Inserted(v) ==
    IF status[v] = "absent" THEN [status EXCEPT ![v] = "pending"] ELSE status

InsertItem(p, v) ==
    /\ v \in poller[p].items
    /\ status' = Inserted(v)
    /\ poller' = [poller EXCEPT ![p].items = @ \ {v}, ![p].seen = @ \cup {v}]
    /\ UNCHANGED <<retries, claims, attempts, quota, worker, polls, given>>

AddQuota(p) ==
    /\ poller[p].at = "list" /\ poller[p].todo = {} /\ poller[p].items = {}
    /\ quota' = quota + poller[p].units
    /\ poller' = [poller EXCEPT ![p] = NoPoll]
    /\ UNCHANGED <<videoVars, worker, polls, given>>

-----------------------------------------------------------------------------
(* worker.process_one *)

Pending == {v \in Videos : status[v] = "pending"}

\* mutant of ClaimNext: the row is read, and flipped by its first stage
ClaimUnlocked(w) ==
    /\ worker[w].at = "idle"
    /\ \E v \in {v \in Videos : status[v] \in {"pending", "transcribing"}} :
        /\ status' = [status EXCEPT ![v] = "transcribing"]
        /\ worker' = [worker EXCEPT ![w] =
                        [Resting EXCEPT !.at = "transcribe", !.video = v]]
        /\ attempts' = [attempts EXCEPT ![v] = @ + 1]
    /\ UNCHANGED <<retries, claims, quota, poller, polls, given>>

\* claim_next_pending: the oldest row that is pending, under SKIP LOCKED
ClaimNext(w) ==
    /\ worker[w].at = "idle"
    /\ \E v \in Pending :
        /\ \A u \in Pending : Published[v] <= Published[u]
        /\ status' = [status EXCEPT ![v] = "transcribing"]
        /\ worker' = [worker EXCEPT ![w] =
                        [Resting EXCEPT !.at = "transcribe", !.video = v]]
        /\ attempts' = [attempts EXCEPT ![v] = @ + 1]
    /\ UNCHANGED <<retries, claims, quota, poller, polls, given>>

\* record_failure
RecordFailure(v) ==
    /\ retries' = [retries EXCEPT ![v] = @ + 1]
    /\ status' = [status EXCEPT ![v] =
                    IF retries[v] + 1 <= MaxRetries THEN "pending" ELSE "failed"]

Gives(w) == worker' = [worker EXCEPT ![w] = Resting]

\* transcribe: whisper, else captions; a silent video has no windows
Transcribe(w) ==
    LET v == worker[w].video IN
    /\ worker[w].at = "transcribe"
    /\ \/ \E n \in 0..MaxWindows :
            /\ worker' = [worker EXCEPT ![w].at = "extract", ![w].windows = n]
            /\ status' = [status EXCEPT ![v] = "extracting"]
            /\ UNCHANGED retries
       \/ "no_video" \in given /\ RecordFailure(v) /\ Gives(w)
    /\ UNCHANGED <<claims, quota, attempts, poller, polls, given>>

\* _clean_ticker, _clean_name
Named(c) == c.ticker # "NULL" \/ c.name # "NULL"

\* _quote_supported and _normalize
Supported(c) == c.quote = "window" /\ Named(c)

\* what a run's faults let the model say
Said ==
    {a \in Answers :
        /\ a.kind # "claims" => "no_model" \in given
        /\ \A c \in a.claims : c.confidence = "words" => "bad_rows" \in given}

\* extract_claims: a window whose call fails is left out, an answer that is not an
\* object of claims raises
Extract(w) ==
    LET v == worker[w].video IN
    /\ worker[w].at = "extract"
    /\ \E said \in [1..worker[w].windows -> Said] :
        LET read == {i \in DOMAIN said : said[i].kind # "unreachable"} IN
        \/ /\ \E i \in read : said[i].kind = "malformed"
           /\ RecordFailure(v) /\ Gives(w)
        \/ /\ \A i \in read : said[i].kind # "malformed"
           /\ worker' = [worker EXCEPT ![w].at = "insert", ![w].found =
                            {c \in UNION {said[i].claims : i \in read} : Supported(c)}]
           /\ UNCHANGED <<status, retries>>
    /\ UNCHANGED <<claims, quota, attempts, poller, polls, given>>

\* insert_claims: all rows or none; an insert that is refused raises out of the
\* worker, and the row stays as it is
InsertClaims(w) ==
    LET v == worker[w].video IN
    /\ worker[w].at = "insert"
    /\ IF \E c \in worker[w].found : c.confidence = "words"
       THEN Gives(w) /\ UNCHANGED claims
       ELSE /\ claims' = [claims EXCEPT ![v] = @ \cup
                    {[claim |-> c, attempt |-> attempts[v]] : c \in worker[w].found}]
            /\ worker' = [worker EXCEPT ![w].at = "done"]
    /\ UNCHANGED <<status, retries, quota, attempts, poller, polls, given>>

MarkDone(w) ==
    /\ worker[w].at = "done"
    /\ status' = [status EXCEPT ![worker[w].video] = "done"]
    /\ Gives(w)
    /\ UNCHANGED <<retries, claims, quota, attempts, poller, polls, given>>

\* a process dies or a call of the database fails: nothing is undone
GivesUp ==
    /\ "gives_up" \in given
    /\ \/ \E w \in Workers :
            worker[w].at # "idle" /\ Gives(w) /\ UNCHANGED poller
       \/ \E p \in Pollers :
            /\ poller[p].at # "idle"
            /\ poller' = [poller EXCEPT ![p] = NoPoll]
            /\ UNCHANGED worker
    /\ UNCHANGED <<videoVars, quota, polls, given>>

Drain(w) ==
    ClaimNext(w) \/ Transcribe(w) \/ Extract(w) \/ InsertClaims(w) \/ MarkDone(w)

PollOnce(p) ==
    \/ PollStart(p) \/ AddQuota(p)
    \/ \E l \in Playlists : FetchPlaylist(p, l)
    \/ \E v \in Videos : InsertItem(p, v)

Next ==
    \/ \E w \in Workers : Drain(w)
    \/ \E p \in Pollers : PollOnce(p)
    \/ GivesUp

-----------------------------------------------------------------------------
(* Properties *)

\* Every variable has its type.
TypeOK ==
    /\ status \in [Videos -> {"absent", "pending", "transcribing", "extracting",
                              "done", "failed"}]
    /\ retries \in [Videos -> 0..MaxRetries + 1]
    /\ attempts \in [Videos -> Nat]
    /\ \A v \in Videos : \A r \in claims[v] : r.attempt \in 1..attempts[v]
    /\ \A w \in Workers :
        /\ worker[w].at \in {"idle", "transcribe", "extract", "insert", "done"}
        /\ worker[w].windows \in 0..MaxWindows
    /\ \A p \in Pollers :
        poller[p].seen \cup poller[p].items \subseteq Videos

\* The claims of a video are stored by one attempt, and two workers never hold one
\* video: whatever polls, retries, refused inserts and dying processes do.
ClaimsOnce ==
    /\ \A v \in Videos : \A r, q \in claims[v] : r.attempt = q.attempt
    /\ \A w, x \in Workers :
        w # x /\ worker[w].at # "idle" /\ worker[x].at # "idle" =>
            worker[w].video # worker[x].video

\* A video is transcribed at most MAX_RETRIES + 1 times, for good: a video that is
\* done or failed is never claimed again, though polls go on listing it.
AttemptsBounded == \A v \in Videos : attempts[v] <= MaxRetries + 1

Holders(v) == {w \in Workers : worker[w].at # "idle" /\ worker[w].video = v}
PlaceOf(v) ==
    CASE status[v] = "pending"                          -> "waiting"
      [] status[v] \in {"transcribing", "extracting"}   -> "taken"
      [] OTHER                                         -> status[v]

Queue == INSTANCE ClaimQueue WITH
    Jobs <- Videos, Takers <- Workers, Age <- Published,
    place <- [v \in Videos |-> PlaceOf(v)],
    held <- [v \in Videos |-> Holders(v)],
    tries <- attempts,
    results <- claims

\* The table and its workers are such a queue, whatever fails or dies: a video whose claims
\* are stored is never tried again (worker.py:3, "a `done` video is never reprocessed").
ImplementsQueue == Queue!Spec

\* While no process gives up and every claim fits its row, a pending video is done or
\* failed in the end: no retry goes on for ever, no older video starves it.
VideoEnds ==
    \A v \in Videos :
        (given \cap {"gives_up", "bad_rows"} = {} /\ status[v] = "pending")
            ~> (status[v] \in {"done", "failed"})
=============================================================================

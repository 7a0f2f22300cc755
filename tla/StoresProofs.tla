---------------------------- MODULE StoresProofs ----------------------------
(***************************************************************************)
(* Proofs about the parts that Stores adds to the account sync: the video  *)
(* pipeline under its workers (VideoPipeline), the headlines and their     *)
(* enrichment (NewsFlow), the minute bars (MarketBars), the watcher's      *)
(* signals (SignalFlow), the event log with its readers (EventLog), the    *)
(* notices (Notifications) and the labeler's tables (LabelStore).  The     *)
(* theorems are about StoresSpec, whose behaviours are those of one part   *)
(* while the others stand still.                                           *)
(***************************************************************************)
EXTENDS Stores, PaperSyncProofs, FiniteSetTheorems, SequenceTheorems

-----------------------------------------------------------------------------
(* The video pipeline *)

Statuses == {"absent", "pending", "transcribing", "extracting", "done", "failed"}
WorkerLocals == {"at", "video", "windows", "found"}

PipeTypes ==
    /\ status \in [Videos -> Statuses]
    /\ retries \in [Videos -> Nat] /\ attempts \in [Videos -> Nat]
    /\ claims = [v \in Videos |-> claims[v]] /\ worker = [w \in Workers |-> worker[w]]
    /\ \A w \in Workers :
        /\ DOMAIN worker[w] = WorkerLocals
        /\ worker[w].at \in {"idle", "transcribe", "extract", "insert", "done"}
        /\ worker[w].at # "idle" => worker[w].video \in Videos

\* A worker holds a row in the status of its stage, and nobody else does.
RowHeld ==
    /\ \A w \in Workers :
        /\ worker[w].at = "transcribe" => status[worker[w].video] = "transcribing"
        /\ worker[w].at \in {"extract", "insert", "done"} =>
              status[worker[w].video] = "extracting"
    /\ \A w, x \in Workers :
        w # x /\ worker[w].at # "idle" /\ worker[x].at # "idle" =>
            worker[w].video # worker[x].video

\* Each failed attempt was counted, and a row is tried again only while retries are left.
Tried(v) ==
    /\ status[v] = "absent" => attempts[v] = 0 /\ retries[v] = 0
    /\ status[v] = "pending" => attempts[v] = retries[v] /\ retries[v] <= MaxRetries
    /\ status[v] \in {"transcribing", "extracting"} =>
          attempts[v] = retries[v] + 1 /\ retries[v] <= MaxRetries
    /\ status[v] \in {"done", "failed"} => attempts[v] <= MaxRetries + 1

\* Claims are those of the last attempt, stored in its last stage.
Stored(v) ==
    /\ \A r \in claims[v] : r.attempt = attempts[v]
    /\ status[v] \notin {"extracting", "done"} => claims[v] = {}
    /\ \A w \in Workers :
        worker[w].at \in {"transcribe", "extract", "insert"} /\ worker[w].video = v => claims[v] = {}

PipeInv == PipeTypes /\ RowHeld /\ (\A v \in Videos : Tried(v) /\ Stored(v))

\* The retries are a number.
LEMMA RetriesNatural == MaxRetries \in Nat
  BY StoresAssumption DEF StoresAssumption, Claims!PipelineAssumption

\* A worker at rest has nothing.
LEMMA RestingShape == DOMAIN Claims!Resting = WorkerLocals /\ Claims!Resting.at = "idle"
  BY DEF Claims!Resting, WorkerLocals

\* The pipeline starts with an empty table.
LEMMA PipeStart == Claims!Init => PipeInv
<1> SUFFICES ASSUME Claims!Init PROVE PipeInv
  OBVIOUS
<1>1. \A w \in Workers : worker[w] = Claims!Resting
  BY DEF Claims!Init
<1>2. PipeTypes
  BY <1>1, RestingShape DEF Claims!Init, PipeTypes, Statuses
<1>3. RowHeld
  BY <1>1, RestingShape DEF RowHeld
<1>4. ASSUME NEW v \in Videos PROVE Tried(v) /\ Stored(v)
  BY <1>1, RestingShape DEF Claims!Init, Tried, Stored
<1> QED BY <1>2, <1>3, <1>4 DEF PipeInv

\* A worker's step touches one row, the one it takes or holds.
OneRow(w, v) ==
    /\ v \in Videos
    /\ \A u \in Videos \ {v} :
        /\ status'[u] = status[u] /\ retries'[u] = retries[u]
        /\ attempts'[u] = attempts[u] /\ claims'[u] = claims[u]
    /\ \A x \in Workers \ {w} : worker'[x] = worker[x]
    /\ worker'[w].at # "idle" => worker'[w].video = v
    /\ \A x \in Workers \ {w} : worker[x].at # "idle" => worker[x].video # v

\* Such a step keeps the invariant when it does for its row.
LEMMA RowKept ==
    ASSUME PipeInv, PipeTypes', NEW w \in Workers, NEW v, OneRow(w, v),
           Tried(v)',
           \A r \in claims'[v] : r.attempt = attempts'[v],
           status'[v] \notin {"extracting", "done"} => claims'[v] = {},
           worker'[w].at \in {"transcribe", "extract", "insert"} => claims'[v] = {},
           worker'[w].at = "transcribe" => status'[v] = "transcribing",
           worker'[w].at \in {"extract", "insert", "done"} => status'[v] = "extracting"
    PROVE  PipeInv'
<1>1. RowHeld'
  <2>1. ASSUME NEW x \in Workers
        PROVE  /\ worker'[x].at = "transcribe" => status'[worker'[x].video] = "transcribing"
               /\ worker'[x].at \in {"extract", "insert", "done"} =>
                     status'[worker'[x].video] = "extracting"
    <3>1. CASE x = w
      BY <3>1 DEF OneRow
    <3>2. CASE x # w
      <4>1. worker'[x] = worker[x]
        BY <3>2 DEF OneRow
      <4>2. worker[x].at # "idle" => worker[x].video \in Videos \ {v}
        BY <3>2 DEF OneRow, PipeInv, PipeTypes
      <4>3. worker[x].at # "idle" => status'[worker[x].video] = status[worker[x].video]
        BY <4>2 DEF OneRow
      <4> QED BY <4>1, <4>3 DEF PipeInv, RowHeld
    <3> QED BY <3>1, <3>2
  <2>2. ASSUME NEW x \in Workers, NEW y \in Workers, x # y,
               worker'[x].at # "idle", worker'[y].at # "idle"
        PROVE  worker'[x].video # worker'[y].video
    BY <2>2 DEF OneRow, PipeInv, RowHeld
  <2> QED BY <2>1, <2>2 DEF RowHeld
<1>2. ASSUME NEW u \in Videos PROVE Tried(u)' /\ Stored(u)'
  <2>1. CASE u = v
    <3>1. ASSUME NEW x \in Workers, worker'[x].at \in {"transcribe", "extract", "insert"},
                 worker'[x].video = v
          PROVE  claims'[v] = {}
      BY <3>1 DEF OneRow
    <3> QED BY <2>1, <3>1 DEF Stored
  <2>2. CASE u # v
    <3>1. /\ status'[u] = status[u] /\ retries'[u] = retries[u]
          /\ attempts'[u] = attempts[u] /\ claims'[u] = claims[u]
      BY <2>2 DEF OneRow
    <3>2. Tried(u) /\ Stored(u)
      BY DEF PipeInv
    <3>3. ASSUME NEW x \in Workers, worker'[x].at \in {"transcribe", "extract", "insert"},
                 worker'[x].video = u
          PROVE  claims[u] = {}
      <4>1. x # w
        BY <2>2, <3>3 DEF OneRow
      <4>2. worker'[x] = worker[x]
        BY <4>1 DEF OneRow
      <4> QED BY <3>2, <3>3, <4>2 DEF Stored
    <3>4. Tried(u)'
      BY <3>1, <3>2 DEF Tried
    <3>5. Stored(u)'
      BY <3>1, <3>2, <3>3 DEF Stored
    <3> QED BY <3>4, <3>5
  <2> QED BY <2>1, <2>2
<1> QED BY <1>1, <1>2 DEF PipeInv

\* claim_next_pending takes a pending row, which nobody holds.
LEMMA ClaimStep ==
    ASSUME PipeInv, NEW w \in Workers, Claims!ClaimNext(w) PROVE PipeInv'
<1> USE RetriesNatural
<1>1. PICK v \in Videos :
        /\ status[v] = "pending"
        /\ status' = [status EXCEPT ![v] = "transcribing"]
        /\ worker' = [worker EXCEPT ![w] =
                        [Claims!Resting EXCEPT !.at = "transcribe", !.video = v]]
        /\ attempts' = [attempts EXCEPT ![v] = @ + 1]
        /\ retries' = retries /\ claims' = claims
  BY DEF Claims!ClaimNext, Claims!Pending
<1>2. PICK c : c = [Claims!Resting EXCEPT !.at = "transcribe", !.video = v]
  OBVIOUS
<1>3. DOMAIN c = WorkerLocals /\ c.at = "transcribe" /\ c.video = v
  BY <1>2, RestingShape DEF WorkerLocals
<1>4. worker'[w] = c /\ \A x \in Workers \ {w} : worker'[x] = worker[x]
  BY <1>1, <1>2 DEF PipeInv, PipeTypes
<1>5. PipeTypes'
  BY <1>1, <1>3, <1>4 DEF PipeInv, PipeTypes, Statuses
<1>6. OneRow(w, v)
  <2>1. \A x \in Workers : worker[x].at # "idle" => worker[x].video # v
    BY <1>1 DEF PipeInv, RowHeld, PipeTypes
  <2> QED BY <1>1, <1>3, <1>4, <2>1 DEF OneRow, PipeInv, PipeTypes
<1>7. /\ status'[v] = "transcribing" /\ attempts'[v] = attempts[v] + 1
      /\ retries'[v] = retries[v] /\ claims'[v] = {}
  BY <1>1 DEF PipeInv, PipeTypes, Stored
<1>8. Tried(v)'
  BY <1>1, <1>7 DEF PipeInv, PipeTypes, Tried
<1> QED BY <1>3, <1>4, <1>5, <1>6, <1>7, <1>8, RowKept

\* What a worker holds is a row, and its alone.
LEMMA HoldsRow ==
    ASSUME PipeInv, NEW w \in Workers, worker[w].at # "idle"
    PROVE  /\ worker[w].video \in Videos
           /\ \A x \in Workers \ {w} : worker[x].at # "idle" =>
                 worker[x].video # worker[w].video
           /\ status[worker[w].video] \in {"transcribing", "extracting"}
           /\ Tried(worker[w].video) /\ Stored(worker[w].video)
  BY DEF PipeInv, PipeTypes, RowHeld

\* record_failure, by a worker that has stored nothing yet.
LEMMA FailureStep ==
    ASSUME PipeInv, NEW w \in Workers, worker[w].at \in {"transcribe", "extract"},
           Claims!RecordFailure(worker[w].video), Claims!Gives(w),
           UNCHANGED <<claims, attempts>>
    PROVE  PipeInv'
<1> USE RetriesNatural
<1>1. PICK v : v = worker[w].video
  OBVIOUS
<1>2. /\ v \in Videos
      /\ \A x \in Workers \ {w} : worker[x].at # "idle" => worker[x].video # v
      /\ status[v] \in {"transcribing", "extracting"} /\ Tried(v) /\ claims[v] = {}
  BY <1>1, HoldsRow DEF Stored
<1>3. /\ retries' = [retries EXCEPT ![v] = @ + 1]
      /\ status' = [status EXCEPT ![v] =
                      IF retries[v] + 1 <= MaxRetries THEN "pending" ELSE "failed"]
  BY <1>1 DEF Claims!RecordFailure
<1>4. worker'[w] = Claims!Resting /\ \A x \in Workers \ {w} : worker'[x] = worker[x]
  BY DEF Claims!Gives, PipeInv, PipeTypes
<1>5. PipeTypes'
  BY <1>2, <1>3, <1>4, RestingShape DEF Claims!Gives, PipeInv, PipeTypes, Statuses
<1>6. OneRow(w, v)
  BY <1>2, <1>3, <1>4, RestingShape DEF OneRow, PipeInv, PipeTypes
<1>7. /\ status'[v] = IF retries[v] + 1 <= MaxRetries THEN "pending" ELSE "failed"
      /\ retries'[v] = retries[v] + 1 /\ attempts'[v] = attempts[v] /\ claims'[v] = {}
  BY <1>2, <1>3 DEF PipeInv, PipeTypes
<1>8. Tried(v)'
  BY <1>2, <1>7 DEF PipeInv, PipeTypes, Tried
<1> QED BY <1>4, <1>5, <1>6, <1>7, <1>8, RestingShape, RowKept

\* The other stages: the worker's record becomes c, its row's status t and claims S.
Stage(w, c, t, S) ==
    /\ worker[w].at # "idle" /\ worker' = [worker EXCEPT ![w] = c]
    /\ DOMAIN c = WorkerLocals /\ c.at \in {"idle", "transcribe", "extract", "insert", "done"}
    /\ c.at # "idle" => c.video = worker[w].video
    /\ t \in {"transcribing", "extracting", "done"}
    /\ status' = [status EXCEPT ![worker[w].video] = t]
    /\ claims' = [claims EXCEPT ![worker[w].video] = S]
    /\ retries' = retries /\ attempts' = attempts
    /\ \A r \in S : r.attempt = attempts[worker[w].video]
    /\ t = "transcribing" => S = {}
    /\ c.at \in {"transcribe", "extract", "insert"} => S = {}
    /\ c.at = "transcribe" => t = "transcribing"
    /\ c.at \in {"extract", "insert", "done"} => t = "extracting"

\* Such a stage keeps the invariant.
LEMMA StageStep ==
    ASSUME PipeInv, NEW w \in Workers, NEW c, NEW t, NEW S, Stage(w, c, t, S)
    PROVE  PipeInv'
<1> USE DEF Stage
<1> USE RetriesNatural
<1>1. PICK v : v = worker[w].video
  OBVIOUS
<1>2. /\ v \in Videos
      /\ \A x \in Workers \ {w} : worker[x].at # "idle" => worker[x].video # v
      /\ status[v] \in {"transcribing", "extracting"} /\ Tried(v)
  BY <1>1, HoldsRow
<1>3. worker'[w] = c /\ \A x \in Workers \ {w} : worker'[x] = worker[x]
  BY DEF PipeInv, PipeTypes
<1>4. /\ status'[v] = t /\ claims'[v] = S
      /\ retries'[v] = retries[v] /\ attempts'[v] = attempts[v]
  BY <1>1, <1>2 DEF PipeInv, PipeTypes
<1>5. PipeTypes'
  <2>1. status' \in [Videos -> Statuses]
    BY DEF PipeInv, PipeTypes, Statuses
  <2>2. claims' = [u \in Videos |-> claims'[u]]
    BY DEF PipeInv, PipeTypes
  <2>3. worker' = [x \in Workers |-> worker'[x]]
    BY DEF PipeInv, PipeTypes
  <2> QED BY <1>1, <1>2, <1>3, <2>1, <2>2, <2>3 DEF PipeInv, PipeTypes
<1>6. OneRow(w, v)
  <2>1. \A u \in Videos \ {v} : status'[u] = status[u] /\ claims'[u] = claims[u]
    BY <1>1 DEF PipeInv, PipeTypes
  <2> QED BY <1>1, <1>2, <1>3, <2>1 DEF OneRow
<1>7. Tried(v)'
  BY <1>2, <1>4 DEF PipeInv, PipeTypes, Tried
<1> QED BY <1>1, <1>3, <1>4, <1>5, <1>6, <1>7, RowKept

\* A worker's stages keep the invariant.
LEMMA WorkerStep ==
    ASSUME PipeInv, NEW w \in Workers, Claims!Drain(w) PROVE PipeInv'
<1> DEFINE v == worker[w].video
<1>1. CASE Claims!ClaimNext(w)
  BY <1>1, ClaimStep
<1>2. CASE Claims!Transcribe(w)
  <2>0. claims' = claims
    BY <1>2 DEF Claims!Transcribe
  <2>1. worker[w].at = "transcribe" /\ attempts' = attempts
    BY <1>2 DEF Claims!Transcribe
  <2>2. v \in Videos /\ claims[v] = {}
    BY <2>1, HoldsRow DEF Stored
  <2>3. CASE Claims!RecordFailure(v) /\ Claims!Gives(w)
    BY <2>0, <2>1, <2>3, FailureStep
  <2>4. ASSUME NEW n \in 0..MaxWindows,
               worker' = [worker EXCEPT ![w].at = "extract", ![w].windows = n],
               status' = [status EXCEPT ![v] = "extracting"], retries' = retries
        PROVE  PipeInv'
    <3>1. PICK c : c = [worker[w] EXCEPT !.at = "extract", !.windows = n]
      OBVIOUS
    <3>2. DOMAIN c = WorkerLocals /\ c.at = "extract" /\ c.video = v
      BY <3>1 DEF PipeInv, PipeTypes, WorkerLocals
    <3>3. worker' = [worker EXCEPT ![w] = c]
      BY <2>4, <3>1 DEF PipeInv, PipeTypes
    <3>4. claims' = [claims EXCEPT ![v] = {}]
      BY <2>0, <2>2 DEF PipeInv, PipeTypes
    <3>5. Stage(w, c, "extracting", {})
      BY <2>1, <2>4, <3>2, <3>3, <3>4 DEF Stage
    <3> QED BY <3>5, StageStep
  <2> QED BY <1>2, <2>3, <2>4 DEF Claims!Transcribe
<1>3. CASE Claims!Extract(w)
  <2>0. claims' = claims
    BY <1>3 DEF Claims!Extract
  <2>1. worker[w].at = "extract" /\ attempts' = attempts
    BY <1>3 DEF Claims!Extract
  <2>2. v \in Videos /\ claims[v] = {} /\ status[v] = "extracting"
    BY <2>1, HoldsRow DEF Stored, PipeInv, RowHeld
  <2>3. CASE Claims!RecordFailure(v) /\ Claims!Gives(w)
    BY <2>0, <2>1, <2>3, FailureStep
  <2>4. ASSUME NEW F, worker' = [worker EXCEPT ![w].at = "insert", ![w].found = F],
               status' = status, retries' = retries
        PROVE  PipeInv'
    <3>1. PICK c : c = [worker[w] EXCEPT !.at = "insert", !.found = F]
      OBVIOUS
    <3>2. DOMAIN c = WorkerLocals /\ c.at = "insert" /\ c.video = v
      BY <3>1 DEF PipeInv, PipeTypes, WorkerLocals
    <3>3. worker' = [worker EXCEPT ![w] = c]
      BY <2>4, <3>1 DEF PipeInv, PipeTypes
    <3>4. claims' = [claims EXCEPT ![v] = {}] /\ status' = [status EXCEPT ![v] = "extracting"]
      BY <2>0, <2>2, <2>4 DEF PipeInv, PipeTypes
    <3>5. Stage(w, c, "extracting", {})
      BY <2>1, <2>4, <3>2, <3>3, <3>4 DEF Stage
    <3> QED BY <3>5, StageStep
  <2> QED BY <1>3, <2>3, <2>4 DEF Claims!Extract
<1>4. CASE Claims!InsertClaims(w)
  <2>0. status' = status
    BY <1>4 DEF Claims!InsertClaims
  <2>1. worker[w].at = "insert" /\ retries' = retries /\ attempts' = attempts
    BY <1>4 DEF Claims!InsertClaims
  <2>2. /\ v \in Videos /\ status[v] = "extracting"
        /\ \A r \in claims[v] : r.attempt = attempts[v]
    BY <2>1, HoldsRow DEF Stored, PipeInv, RowHeld
  <2>3. status' = [status EXCEPT ![v] = "extracting"]
    BY <2>0, <2>2 DEF PipeInv, PipeTypes
  <2>4. CASE Claims!Gives(w) /\ claims' = claims
    <3>1. claims' = [claims EXCEPT ![v] = claims[v]]
      BY <2>2, <2>4 DEF PipeInv, PipeTypes
    <3>2. worker' = [worker EXCEPT ![w] = Claims!Resting]
      BY <2>4 DEF Claims!Gives
    <3>3. Stage(w, Claims!Resting, "extracting", claims[v])
      BY <2>1, <2>2, <2>3, <3>1, <3>2, RestingShape DEF Stage
    <3> QED BY <3>3, StageStep
  <2>5. CASE /\ claims' = [claims EXCEPT ![v] = @ \cup
                    {[claim |-> c, attempt |-> attempts[v]] : c \in worker[w].found}]
             /\ worker' = [worker EXCEPT ![w].at = "done"]
    <3>1. PICK c : c = [worker[w] EXCEPT !.at = "done"]
      OBVIOUS
    <3>2. DOMAIN c = WorkerLocals /\ c.at = "done" /\ c.video = v
      BY <3>1 DEF PipeInv, PipeTypes, WorkerLocals
    <3>3. worker' = [worker EXCEPT ![w] = c]
      BY <2>5, <3>1 DEF PipeInv, PipeTypes
    <3>4. PICK S : S = claims[v] \cup
                         {[claim |-> d, attempt |-> attempts[v]] : d \in worker[w].found}
      OBVIOUS
    <3>5. (\A r \in S : r.attempt = attempts[v]) /\ claims' = [claims EXCEPT ![v] = S]
      BY <2>2, <2>5, <3>4
    <3>6. Stage(w, c, "extracting", S)
      BY <2>1, <2>3, <3>2, <3>3, <3>5 DEF Stage
    <3> QED BY <3>6, StageStep
  <2> QED BY <1>4, <2>4, <2>5 DEF Claims!InsertClaims
<1>5. CASE Claims!MarkDone(w)
  <2>0. claims' = claims
    BY <1>5 DEF Claims!MarkDone
  <2>1. /\ worker[w].at = "done" /\ retries' = retries /\ attempts' = attempts
        /\ status' = [status EXCEPT ![v] = "done"]
        /\ worker' = [worker EXCEPT ![w] = Claims!Resting]
    BY <1>5 DEF Claims!MarkDone, Claims!Gives
  <2>2. v \in Videos /\ \A r \in claims[v] : r.attempt = attempts[v]
    BY <2>1, HoldsRow DEF Stored
  <2>3. claims' = [claims EXCEPT ![v] = claims[v]]
    BY <2>0, <2>2 DEF PipeInv, PipeTypes
  <2>4. Stage(w, Claims!Resting, "done", claims[v])
    BY <2>1, <2>2, <2>3, RestingShape DEF Stage
  <2> QED BY <2>4, StageStep
<1> QED BY <1>1, <1>2, <1>3, <1>4, <1>5 DEF Claims!Drain

\* A poll only adds rows that were absent.
LEMMA PollStep ==
    ASSUME PipeInv, NEW p \in Pollers, Claims!PollOnce(p) PROVE PipeInv'
<1>1. UNCHANGED <<retries, claims, attempts, worker>>
  BY DEF Claims!PollOnce, Claims!PollStart, Claims!AddQuota, Claims!FetchPlaylist,
         Claims!InsertItem, Claims!videoVars
<1>2. \/ status' = status
      \/ \E v \in Videos : status[v] = "absent" /\ status' = [status EXCEPT ![v] = "pending"]
  BY DEF Claims!PollOnce, Claims!PollStart, Claims!AddQuota, Claims!FetchPlaylist,
         Claims!InsertItem, Claims!videoVars, Claims!Inserted
<1>3. CASE status' = status
  BY <1>1, <1>3 DEF PipeInv, PipeTypes, RowHeld, Tried, Stored
<1>4. ASSUME NEW v \in Videos, status[v] = "absent", status' = [status EXCEPT ![v] = "pending"]
      PROVE  PipeInv'
  <2>1. PipeTypes'
    BY <1>1, <1>4 DEF PipeInv, PipeTypes, Statuses
  <2>2. status'[v] = "pending" /\ \A u \in Videos \ {v} : status'[u] = status[u]
    BY <1>4 DEF PipeInv, PipeTypes
  <2>3. \A w \in Workers : worker[w].at # "idle" => worker[w].video \in Videos \ {v}
    BY <1>4 DEF PipeInv, PipeTypes, RowHeld
  <2>4. RowHeld'
    BY <1>1, <2>2, <2>3 DEF PipeInv, PipeTypes, RowHeld
  <2>5. ASSUME NEW u \in Videos PROVE Tried(u)' /\ Stored(u)'
    BY <1>1, <1>4, <2>2, RetriesNatural DEF PipeInv, Tried, Stored
  <2> QED BY <2>1, <2>4, <2>5 DEF PipeInv
<1> QED BY <1>2, <1>3, <1>4

\* A process that gives up leaves its row as it is.
LEMMA GivesUpStep == PipeInv /\ Claims!GivesUp => PipeInv'
<1> SUFFICES ASSUME PipeInv, Claims!GivesUp PROVE PipeInv'
  OBVIOUS
<1>0. status' = status /\ claims' = claims
  BY DEF Claims!GivesUp, Claims!videoVars
<1>1. UNCHANGED <<retries, attempts>>
  BY DEF Claims!GivesUp, Claims!videoVars
<1>2. CASE worker' = worker
  BY <1>0, <1>1, <1>2 DEF PipeInv, PipeTypes, RowHeld, Tried, Stored
<1>3. ASSUME NEW w \in Workers, worker[w].at # "idle", Claims!Gives(w) PROVE PipeInv'
  <2>1. PICK v : v = worker[w].video
    OBVIOUS
  <2>2. /\ v \in Videos /\ status[v] \in {"transcribing", "extracting"}
        /\ \A r \in claims[v] : r.attempt = attempts[v]
        /\ status[v] = "transcribing" => claims[v] = {}
    BY <1>3, <2>1, HoldsRow DEF Stored
  <2>3. claims' = [claims EXCEPT ![v] = claims[v]] /\ status' = [status EXCEPT ![v] = status[v]]
    BY <1>0, <2>2 DEF PipeInv, PipeTypes
  <2>4. worker' = [worker EXCEPT ![w] = Claims!Resting]
    BY <1>3 DEF Claims!Gives
  <2>5. Stage(w, Claims!Resting, status[v], claims[v])
    BY <1>1, <1>3, <2>1, <2>2, <2>3, <2>4, RestingShape DEF Stage
  <2> QED BY <2>5, StageStep
<1> QED BY <1>2, <1>3 DEF Claims!GivesUp

\* Another part's steps leave the pipeline alone.
LEMMA PipeStill == PipeInv /\ UNCHANGED videoVars => PipeInv'
  BY DEF PipeInv, videoVars, PipeTypes, RowHeld, Tried, Stored

\* In each step of the stores a part moves and the others stand still.
LEMMA PartsMove ==
    ASSUME [StoresNext]_storesVars
    PROVE  /\ Claims!Next \/ UNCHANGED videoVars
           /\ News!Next \/ UNCHANGED newsVars
           /\ Market!Next \/ UNCHANGED barVars
           /\ Watcher!Next \/ UNCHANGED flowVars
           /\ Log!Next \/ UNCHANGED logVars
           /\ Notices!Next \/ UNCHANGED noticeVars
           /\ (part = "labels" /\ Store!Next) \/ UNCHANGED labelVars
  BY Zenon DEF StoresNext, storesVars

\* The pipeline's invariant holds at the start and after each step.
LEMMA PipeInvHolds == StoresSpec => []PipeInv
<1>1. StoresInit => PipeInv
  BY PipeStart DEF StoresInit
<1>2. PipeInv /\ [StoresNext]_storesVars => PipeInv'
  BY PartsMove, WorkerStep, PollStep, GivesUpStep, PipeStill DEF Claims!Next
<1> QED BY <1>1, <1>2, PTL DEF StoresSpec

\* The claims of a video are stored by one attempt, no two workers hold one video, and it
\* is tried no oftener than its retries allow (claim_next_pending, insert_claims,
\* record_failure): for any number of workers, polls, deaths and refused rows.
THEOREM ClaimsStored == StoresSpec => [](Claims!ClaimsOnce /\ Claims!AttemptsBounded)
<1>1. ASSUME PipeInv PROVE Claims!ClaimsOnce /\ Claims!AttemptsBounded
  <2>1. \A v \in Videos : attempts[v] <= MaxRetries + 1
    BY <1>1, RetriesNatural DEF PipeInv, PipeTypes, Statuses, Tried
  <2>2. Claims!ClaimsOnce
    BY <1>1 DEF PipeInv, RowHeld, Stored, Claims!ClaimsOnce
  <2> QED BY <2>1, <2>2 DEF Claims!AttemptsBounded
<1> QED BY <1>1, PipeInvHolds, PTL

-----------------------------------------------------------------------------
(* The pipeline is a queue that stores each job's results once *)

\* What the queue shows of a row's status.
Spot(t) ==
    CASE t = "pending"                          -> "waiting"
      [] t \in {"transcribing", "extracting"}   -> "taken"
      [] OTHER                                 -> t
Spots == [v \in Videos |-> Claims!PlaceOf(v)]
Hands == [v \in Videos |-> Claims!Holders(v)]

\* A row's status moves its place, and no other's.
LEMMA SpotMoves ==
    ASSUME PipeInv, NEW v \in Videos, NEW t \in Statuses, status' = [status EXCEPT ![v] = t]
    PROVE  /\ Spots' = [Spots EXCEPT ![v] = Spot(t)] /\ Spots[v] = Spot(status[v])
           /\ Spot(t) = Spot(status[v]) => Spots' = Spots
<1>1. \A u \in Videos : Spots[u] = Spot(status[u]) /\ Spots'[u] = Spot(status'[u])
  BY Zenon DEF Spots, Spot, Claims!PlaceOf
<1>2. status'[v] = t /\ \A u \in Videos \ {v} : status'[u] = status[u]
  BY DEF PipeInv, PipeTypes
<1>3. Spots = [u \in Videos |-> Spots[u]] /\ Spots' = [u \in Videos |-> Spots'[u]]
  BY DEF Spots
<1> QED BY <1>1, <1>2, <1>3

\* A worker's step moves the row it takes or holds to or from its hands, and no other.
Handles(w, v) ==
    /\ \A x \in Workers \ {w} :
        worker'[x] = worker[x] /\ (worker[x].at # "idle" => worker[x].video # v)
    /\ worker[w].at # "idle" => worker[w].video = v
    /\ worker'[w].at # "idle" => worker'[w].video = v

LEMMA HandsMove ==
    ASSUME NEW w \in Workers, NEW v \in Videos, Handles(w, v)
    PROVE  /\ Hands[v] = IF worker[w].at = "idle" THEN {} ELSE {w}
           /\ Hands' = [Hands EXCEPT ![v] = IF worker'[w].at = "idle" THEN {} ELSE {w}]
<1> USE DEF Handles
<1>1. \A u \in Videos : Hands[u] = Claims!Holders(u) /\ Hands'[u] = Claims!Holders(u)'
  BY DEF Hands
<1>2. ASSUME NEW u \in Videos
      PROVE  /\ \A x : x \in Claims!Holders(u)
                    <=> x \in Workers /\ worker[x].at # "idle" /\ worker[x].video = u
             /\ \A x : x \in Claims!Holders(u)'
                    <=> x \in Workers /\ worker'[x].at # "idle" /\ worker'[x].video = u
  BY DEF Claims!Holders
<1>3. Hands[v] = IF worker[w].at = "idle" THEN {} ELSE {w}
  <2>1. \A x : x \in Claims!Holders(v) <=> x = w /\ worker[w].at # "idle"
    BY <1>2
  <2>2. Claims!Holders(v) = IF worker[w].at = "idle" THEN {} ELSE {w}
    BY <2>1
  <2> QED BY <1>1, <2>2
<1>4. Hands'[v] = IF worker'[w].at = "idle" THEN {} ELSE {w}
  <2>1. \A x : x \in Claims!Holders(v)' <=> x = w /\ worker'[w].at # "idle"
    BY <1>2
  <2>2. Claims!Holders(v)' = IF worker'[w].at = "idle" THEN {} ELSE {w}
    BY <2>1
  <2> QED BY <1>1, <2>2
<1>5. ASSUME NEW u \in Videos \ {v} PROVE Hands'[u] = Hands[u]
  <2>1. \A x : x \in Claims!Holders(u)' <=> x \in Claims!Holders(u)
    BY <1>5, <1>2
  <2>2. Claims!Holders(u)' = Claims!Holders(u)
    BY <2>1
  <2> QED BY <1>1, <2>2
<1>6. Hands = [u \in Videos |-> Hands[u]] /\ Hands' = [u \in Videos |-> Hands'[u]]
  BY DEF Hands
<1> QED BY <1>3, <1>4, <1>5, <1>6

\* The queue in these terms.
LEMMA QueueIs ==
    /\ Claims!Queue!Next <=>
          \E j \in Videos :
              \/ Claims!Queue!Arrive(j) \/ Claims!Queue!Return(j) \/ Claims!Queue!Store(j)
              \/ Claims!Queue!Finish(j) \/ Claims!Queue!Abandon(j)
              \/ \E w \in Workers : Claims!Queue!Take(j, w)
    /\ UNCHANGED <<Spots, Hands, attempts, claims>> => UNCHANGED Claims!Queue!vars
  BY DEF Claims!Queue!Next, Claims!Queue!vars, Spots, Hands

\* claim_next_pending hands out the oldest row.
LEMMA QueueTakes ==
    ASSUME PipeInv, NEW w \in Workers, Claims!ClaimNext(w) PROVE Claims!Queue!Next
<1>1. PICK v \in Claims!Pending :
        /\ \A u \in Claims!Pending : Published[v] <= Published[u]
        /\ status' = [status EXCEPT ![v] = "transcribing"]
        /\ worker' = [worker EXCEPT ![w] =
                        [Claims!Resting EXCEPT !.at = "transcribe", !.video = v]]
        /\ attempts' = [attempts EXCEPT ![v] = @ + 1]
        /\ claims' = claims
  BY Zenon DEF Claims!ClaimNext
<1>2. /\ v \in Videos /\ status[v] = "pending"
      /\ \A u \in Videos : status[u] = "pending" => Published[v] <= Published[u]
  BY <1>1 DEF Claims!Pending
<1>3. PICK c : c = [Claims!Resting EXCEPT !.at = "transcribe", !.video = v]
  OBVIOUS
<1>4. c.at = "transcribe" /\ c.video = v
  BY <1>3, RestingShape DEF WorkerLocals
<1>5. worker'[w] = c /\ \A x \in Workers \ {w} : worker'[x] = worker[x]
  BY <1>1, <1>3 DEF PipeInv, PipeTypes
<1>6. worker[w].at = "idle" /\ \A x \in Workers : worker[x].at # "idle" => worker[x].video # v
  BY <1>2 DEF Claims!ClaimNext, PipeInv, RowHeld, PipeTypes
<1>7. Spots' = [Spots EXCEPT ![v] = "taken"] /\ Spots[v] = "waiting"
  BY <1>1, <1>2, SpotMoves DEF Spot, Statuses
<1>8. Hands' = [Hands EXCEPT ![v] = {w}] /\ Hands[v] = {}
  <2>1. Handles(w, v)
    BY <1>2, <1>4, <1>5, <1>6 DEF Handles
  <2> QED BY <1>2, <1>4, <1>5, <1>6, <2>1, HandsMove
<1>9. attempts[v] <= MaxRetries
  BY <1>2 DEF PipeInv, Tried
<1>10. \A k \in Videos : Spots[k] = "waiting" => Published[v] <= Published[k]
  <2>1. \A k \in Videos : Spots[k] = "waiting" => status[k] = "pending"
    BY DEF Spots, Claims!PlaceOf, PipeInv, PipeTypes, Statuses
  <2> QED BY <1>2, <2>1
<1>11. \A k \in Videos : w \notin Hands[k]
  BY <1>6 DEF Hands, Claims!Holders
<1>12. Claims!Queue!Take(v, w)
  BY <1>1, <1>2, <1>7, <1>8, <1>9, <1>10, <1>11 DEF Claims!Queue!Take, Spots, Hands
<1> QED BY <1>2, <1>12, QueueIs

\* What a worker at work makes of its own record moves only the row it holds.
Works(w, v, c) ==
    /\ worker[w].at # "idle" /\ worker[w].video = v
    /\ worker' = [worker EXCEPT ![w] = c] /\ (c.at # "idle" => c.video = v)

LEMMA HolderMoves ==
    ASSUME PipeInv, NEW w \in Workers, NEW v, NEW c, Works(w, v, c)
    PROVE  /\ v \in Videos /\ Hands[v] = {w} /\ Spots[v] = "taken"
           /\ c.at = "idle" => Hands' = [Hands EXCEPT ![v] = {}]
           /\ c.at # "idle" => Hands' = Hands
<1>1. /\ v \in Videos /\ status[v] \in {"transcribing", "extracting"}
      /\ \A x \in Workers \ {w} : worker[x].at # "idle" => worker[x].video # v
  BY HoldsRow DEF Works
<1>2. worker'[w] = c /\ \A x \in Workers \ {w} : worker'[x] = worker[x]
  BY DEF Works, PipeInv, PipeTypes
<1>3. /\ Hands[v] = {w}
      /\ Hands' = [Hands EXCEPT ![v] = IF c.at = "idle" THEN {} ELSE {w}]
  <2>1. Handles(w, v)
    BY <1>1, <1>2 DEF Handles, Works
  <2>2. /\ Hands[v] = IF worker[w].at = "idle" THEN {} ELSE {w}
        /\ Hands' = [Hands EXCEPT ![v] = IF worker'[w].at = "idle" THEN {} ELSE {w}]
    BY <1>1, <2>1, HandsMove
  <2> QED BY <1>2, <2>2 DEF Works
<1>4. Spots[v] = "taken"
  BY <1>1 DEF Spots, Claims!PlaceOf
<1>5. Hands = [u \in Videos |-> Hands[u]]
  BY DEF Hands
<1> QED BY <1>1, <1>3, <1>4, <1>5

\* record_failure gives the row back, or up.
LEMMA QueueReturns ==
    ASSUME PipeInv, NEW w \in Workers, worker[w].at \in {"transcribe", "extract"},
           Claims!RecordFailure(worker[w].video), Claims!Gives(w),
           UNCHANGED <<claims, attempts>>
    PROVE  Claims!Queue!Next
<1>1. PICK v : v = worker[w].video
  OBVIOUS
<1>2. worker' = [worker EXCEPT ![w] = Claims!Resting] /\ Claims!Resting.at = "idle"
  BY RestingShape DEF Claims!Gives
<1>3. /\ v \in Videos /\ Hands[v] = {w} /\ Spots[v] = "taken"
      /\ Hands' = [Hands EXCEPT ![v] = {}]
  <2>1. Works(w, v, Claims!Resting)
    BY <1>1, <1>2 DEF Works
  <2> QED BY <1>2, <2>1, HolderMoves
<1>4. attempts[v] = retries[v] + 1 /\ claims[v] = {}
  BY <1>1, HoldsRow DEF Tried, Stored
<1>5. PICK t : t = IF attempts[v] <= MaxRetries THEN "pending" ELSE "failed"
  OBVIOUS
<1>6. status' = [status EXCEPT ![v] = t] /\ t \in Statuses
  BY <1>1, <1>4, <1>5 DEF Claims!RecordFailure, Statuses
<1>7. Spots' = [Spots EXCEPT ![v] = IF attempts[v] <= MaxRetries THEN "waiting" ELSE "failed"]
  BY <1>3, <1>5, <1>6, SpotMoves DEF Spot
<1>8. Claims!Queue!Return(v)
  BY <1>3, <1>4, <1>7 DEF Claims!Queue!Return, Spots, Hands
<1> QED BY <1>3, <1>8, QueueIs

\* A worker that is gone leaves its row where it is.
LEMMA QueueAbandons ==
    ASSUME PipeInv, NEW w \in Workers, worker[w].at # "idle", Claims!Gives(w),
           UNCHANGED <<status, claims, attempts>>
    PROVE  Claims!Queue!Next
<1>1. PICK v : v = worker[w].video
  OBVIOUS
<1>2. worker' = [worker EXCEPT ![w] = Claims!Resting] /\ Claims!Resting.at = "idle"
  BY RestingShape DEF Claims!Gives
<1>3. /\ v \in Videos /\ Hands[v] = {w} /\ Spots[v] = "taken"
      /\ Hands' = [Hands EXCEPT ![v] = {}]
  <2>1. Works(w, v, Claims!Resting)
    BY <1>1, <1>2 DEF Works
  <2> QED BY <1>2, <2>1, HolderMoves
<1>4. Spots' = Spots
  BY DEF Spots, Claims!PlaceOf
<1>5. Claims!Queue!Abandon(v)
  BY <1>3, <1>4 DEF Claims!Queue!Abandon, Spots, Hands
<1> QED BY <1>3, <1>5, QueueIs

\* A stage that ends well does not move the row.
LEMMA NextStage ==
    ASSUME PipeInv, NEW w \in Workers, worker[w].at \in {"transcribe", "extract"},
           NEW c, worker' = [worker EXCEPT ![w] = c], c.at # "idle", c.video = worker[w].video,
           status' = [status EXCEPT ![worker[w].video] = "extracting"],
           UNCHANGED <<claims, attempts>>
    PROVE  UNCHANGED Claims!Queue!vars
<1>1. worker[w].video \in Videos /\ Spots[worker[w].video] = "taken" /\ Hands' = Hands
  <2>1. Works(w, worker[w].video, c)
    BY DEF Works
  <2> QED BY <2>1, HolderMoves
<1>2. Spot("extracting") = "taken" /\ "extracting" \in Statuses
  BY DEF Spot, Statuses
<1>3. Spots' = Spots
  BY <1>1, <1>2, SpotMoves
<1> QED BY <1>1, <1>3, QueueIs

\* insert_claims and mark_done.
LEMMA QueueStores ==
    ASSUME PipeInv, NEW w \in Workers, Claims!InsertClaims(w)
    PROVE  Claims!Queue!Next \/ UNCHANGED Claims!Queue!vars
<1>1. PICK v : v = worker[w].video
  OBVIOUS
<1>2. worker[w].at = "insert" /\ status' = status /\ attempts' = attempts
  BY DEF Claims!InsertClaims
<1>3. CASE Claims!Gives(w) /\ claims' = claims
  BY <1>2, <1>3, QueueAbandons
<1>4. ASSUME NEW S, claims' = [claims EXCEPT ![v] = S],
             worker' = [worker EXCEPT ![w].at = "done"]
      PROVE  Claims!Queue!Next
  <2>1. PICK c : c = [worker[w] EXCEPT !.at = "done"]
    OBVIOUS
  <2>2. c.at = "done" /\ c.video = v /\ worker' = [worker EXCEPT ![w] = c]
    BY <1>1, <1>4, <2>1 DEF PipeInv, PipeTypes, WorkerLocals
  <2>3. v \in Videos /\ Hands[v] = {w} /\ Spots[v] = "taken" /\ Hands' = Hands
    <3>1. Works(w, v, c)
      BY <1>1, <1>2, <2>2 DEF Works
    <3> QED BY <2>2, <3>1, HolderMoves
  <2>4. claims[v] = {}
    BY <1>1, <1>2, HoldsRow DEF Stored
  <2>5. claims' = [claims EXCEPT ![v] = claims'[v]]
    BY <1>4, <2>3 DEF PipeInv, PipeTypes
  <2>6. Spots' = Spots
    BY <1>2 DEF Spots, Claims!PlaceOf
  <2>7. Claims!Queue!Store(v)
    BY <1>2, <2>3, <2>4, <2>5, <2>6 DEF Claims!Queue!Store, Spots, Hands
  <2> QED BY <2>3, <2>7, QueueIs
<1> QED BY <1>1, <1>3, <1>4 DEF Claims!InsertClaims

LEMMA QueueFinishes ==
    ASSUME PipeInv, NEW w \in Workers, Claims!MarkDone(w) PROVE Claims!Queue!Next
<1>1. PICK v : v = worker[w].video
  OBVIOUS
<1>2. /\ worker[w].at = "done" /\ status' = [status EXCEPT ![v] = "done"]
      /\ worker' = [worker EXCEPT ![w] = Claims!Resting] /\ Claims!Resting.at = "idle"
      /\ claims' = claims /\ attempts' = attempts
  BY <1>1, RestingShape DEF Claims!MarkDone, Claims!Gives
<1>3. /\ v \in Videos /\ Hands[v] = {w} /\ Spots[v] = "taken"
      /\ Hands' = [Hands EXCEPT ![v] = {}]
  <2>1. Works(w, v, Claims!Resting)
    BY <1>1, <1>2 DEF Works
  <2> QED BY <1>2, <2>1, HolderMoves
<1>4. Spots' = [Spots EXCEPT ![v] = "done"]
  BY <1>2, <1>3, SpotMoves DEF Spot, Statuses
<1>5. Claims!Queue!Finish(v)
  BY <1>2, <1>3, <1>4 DEF Claims!Queue!Finish, Spots, Hands
<1> QED BY <1>3, <1>5, QueueIs

\* A worker's stages are steps of the queue.
LEMMA DrainMoves ==
    ASSUME PipeInv, NEW w \in Workers, Claims!Drain(w)
    PROVE  Claims!Queue!Next \/ UNCHANGED Claims!Queue!vars
<1> DEFINE v == worker[w].video
<1>1. CASE Claims!ClaimNext(w)
  BY <1>1, QueueTakes
<1>2. CASE Claims!Transcribe(w)
  <2>1. worker[w].at = "transcribe" /\ UNCHANGED <<claims, attempts>>
    BY <1>2 DEF Claims!Transcribe
  <2>2. CASE Claims!RecordFailure(v) /\ Claims!Gives(w)
    BY <2>1, <2>2, QueueReturns
  <2>3. ASSUME NEW n \in 0..MaxWindows,
               worker' = [worker EXCEPT ![w].at = "extract", ![w].windows = n],
               status' = [status EXCEPT ![v] = "extracting"]
        PROVE  UNCHANGED Claims!Queue!vars
    <3>1. PICK c : c = [worker[w] EXCEPT !.at = "extract", !.windows = n]
      OBVIOUS
    <3>2. c.at = "extract" /\ c.video = v /\ worker' = [worker EXCEPT ![w] = c]
      BY <2>3, <3>1 DEF PipeInv, PipeTypes, WorkerLocals
    <3> QED BY <2>1, <2>3, <3>2, NextStage
  <2> QED BY <1>2, <2>2, <2>3 DEF Claims!Transcribe
<1>3. CASE Claims!Extract(w)
  <2>1. worker[w].at = "extract" /\ UNCHANGED <<claims, attempts>>
    BY <1>3 DEF Claims!Extract
  <2>2. CASE Claims!RecordFailure(v) /\ Claims!Gives(w)
    BY <2>1, <2>2, QueueReturns
  <2>3. ASSUME NEW F, worker' = [worker EXCEPT ![w].at = "insert", ![w].found = F],
               status' = status
        PROVE  UNCHANGED Claims!Queue!vars
    <3>1. PICK c : c = [worker[w] EXCEPT !.at = "insert", !.found = F]
      OBVIOUS
    <3>2. c.at = "insert" /\ c.video = v /\ worker' = [worker EXCEPT ![w] = c]
      BY <2>3, <3>1 DEF PipeInv, PipeTypes, WorkerLocals
    <3>3. status' = [status EXCEPT ![v] = "extracting"]
      BY <2>1, <2>3, HoldsRow DEF PipeInv, PipeTypes, RowHeld
    <3> QED BY <2>1, <3>2, <3>3, NextStage
  <2> QED BY <1>3, <2>2, <2>3 DEF Claims!Extract
<1>4. CASE Claims!InsertClaims(w)
  BY <1>4, QueueStores
<1>5. CASE Claims!MarkDone(w)
  BY <1>5, QueueFinishes
<1> QED BY <1>1, <1>2, <1>3, <1>4, <1>5 DEF Claims!Drain

\* A poll adds jobs.
LEMMA PollMoves ==
    ASSUME PipeInv, NEW p \in Pollers, Claims!PollOnce(p)
    PROVE  Claims!Queue!Next \/ UNCHANGED Claims!Queue!vars
<1>1. UNCHANGED <<claims, attempts, worker>>
  BY DEF Claims!PollOnce, Claims!PollStart, Claims!AddQuota, Claims!FetchPlaylist,
         Claims!InsertItem, Claims!videoVars
<1>2. \/ status' = status
      \/ \E v \in Videos : status[v] = "absent" /\ status' = [status EXCEPT ![v] = "pending"]
  BY DEF Claims!PollOnce, Claims!PollStart, Claims!AddQuota, Claims!FetchPlaylist,
         Claims!InsertItem, Claims!videoVars, Claims!Inserted
<1>3. Hands' = Hands
  BY <1>1 DEF Hands, Claims!Holders
<1>4. CASE status' = status
  <2>1. Spots' = Spots
    BY <1>4 DEF Spots, Claims!PlaceOf
  <2> QED BY <1>1, <1>3, <2>1, QueueIs
<1>5. ASSUME NEW v \in Videos, status[v] = "absent", status' = [status EXCEPT ![v] = "pending"]
      PROVE  Claims!Queue!Next
  <2>1. Spots' = [Spots EXCEPT ![v] = "waiting"] /\ Spots[v] = "absent"
    BY <1>5, SpotMoves DEF Spot, Statuses
  <2>2. Claims!Queue!Arrive(v)
    BY <1>1, <1>3, <2>1 DEF Claims!Queue!Arrive, Spots, Hands
  <2> QED BY <2>2, QueueIs
<1> QED BY <1>2, <1>4, <1>5

\* The videos start as an empty queue, and each step of the pipeline is one of the queue.
LEMMA QueueStart == Claims!Init => Claims!Queue!Init
<1> SUFFICES ASSUME Claims!Init PROVE Claims!Queue!Init
  OBVIOUS
<1>1. \A w \in Workers : worker[w].at = "idle"
  BY RestingShape DEF Claims!Init
<1>2. \A v \in Videos : Claims!PlaceOf(v) = "absent" /\ Claims!Holders(v) = {}
  BY <1>1 DEF Claims!Init, Claims!PlaceOf, Claims!Holders
<1> QED BY <1>2 DEF Claims!Init, Claims!Queue!Init

LEMMA QueueMoves ==
    ASSUME PipeInv, [StoresNext]_storesVars
    PROVE  [Claims!Queue!Next]_(Claims!Queue!vars)
<1>1. CASE UNCHANGED videoVars
  <2>1. Spots' = Spots /\ Hands' = Hands
    BY <1>1 DEF videoVars, Spots, Hands, Claims!PlaceOf, Claims!Holders
  <2> QED BY <1>1, <2>1, QueueIs DEF videoVars
<1>2. ASSUME NEW w \in Workers, Claims!Drain(w)
      PROVE  Claims!Queue!Next \/ UNCHANGED Claims!Queue!vars
  BY <1>2, DrainMoves
<1>3. ASSUME NEW p \in Pollers, Claims!PollOnce(p)
      PROVE  Claims!Queue!Next \/ UNCHANGED Claims!Queue!vars
  BY <1>3, PollMoves
<1>4. CASE Claims!GivesUp
  <2>1. UNCHANGED <<status, claims, attempts>>
    BY <1>4 DEF Claims!GivesUp, Claims!videoVars
  <2>2. CASE worker' = worker
    <3>1. Spots' = Spots /\ Hands' = Hands
      BY <2>1, <2>2 DEF Spots, Hands, Claims!PlaceOf, Claims!Holders
    <3> QED BY <2>1, <3>1, QueueIs
  <2>3. ASSUME NEW w \in Workers, worker[w].at # "idle", Claims!Gives(w)
        PROVE  Claims!Queue!Next
    BY <2>1, <2>3, QueueAbandons
  <2> QED BY <1>4, <2>2, <2>3 DEF Claims!GivesUp
<1>5. Claims!Next \/ UNCHANGED videoVars
  BY PartsMove
<1> QED BY <1>1, <1>2, <1>3, <1>4, <1>5 DEF Claims!Next

\* The videos and their workers implement ClaimQueue: whatever fails, is retried or dies, a
\* video is handed out oldest first and to one worker, and its claims are stored at most once.
THEOREM QueueImplemented == StoresSpec => Claims!ImplementsQueue
<1>1. StoresInit => Claims!Queue!Init
  BY QueueStart DEF StoresInit
<1>2. PipeInv /\ [StoresNext]_storesVars => [Claims!Queue!Next]_(Claims!Queue!vars)
  BY QueueMoves
<1> QED BY <1>1, <1>2, PipeInvHolds, PTL DEF StoresSpec, Claims!ImplementsQueue,
       Claims!Queue!Spec

\* Both: of one attempt, tried no oftener than its retries allow, and such a queue.
THEOREM ClaimsAreSound == StoresSpec => ClaimsSound
  BY ClaimsStored, QueueImplemented, PTL DEF ClaimsSound

-----------------------------------------------------------------------------
(* The headlines *)

\* A sequence of one element.
LEMMA OneElement == ASSUME NEW S, NEW x \in S PROVE <<x>> \in Seq(S)
  OBVIOUS

Feeds == DOMAIN Listed
FetchLocals == {"at", "feeds", "items", "when"}
PassLocals == {"at", "rows", "todo", "dilutive"}

\* The tickers, and the symbol of a headline without any.
TickerNames == STRING \ {""}
RowNames == TickerNames \cup {""}

\* A fetch lands headlines of its feeds.
FetchTypes ==
    /\ clock \in Nat /\ DOMAIN fetch = FetchLocals
    /\ fetch.at \in {"idle", "get", "land"}
    /\ fetch.feeds \in Seq(Feeds) /\ fetch.items \in Seq(Headlines)
    /\ fetch.at # "idle" => fetch.feeds # <<>>
    /\ raw \in Seq([hash : Headlines, at : Nat]) /\ fetch.when \in Nat

PassTypes ==
    /\ DOMAIN enrich = PassLocals
    /\ enrich.at \in {"idle", "classify", "store", "event", "undo"}
    /\ enrich.rows \in Seq(Headlines) /\ enrich.todo \in Seq(RowNames)
    /\ enrich.at # "idle" => enrich.rows # <<>>
    /\ enrich.at \in {"store", "event"} => enrich.todo # <<>>

\* A ticker of a headline has its row and its event.
Row(h, t) == \E r \in cache : r.hash = h /\ r.symbol = t
Given(h, t) == Row(h, t) /\ <<h, t>> \in events

\* The rows of a headline have one verdict, and an offering's is known.
OneVerdict(h, d) ==
    /\ \A r \in cache : r.hash = h => r.dilutive = d
    /\ h \in Offering => d = TRUE

Whole(h) ==
    /\ \A i \in DOMAIN Tickers[h] : Given(h, Tickers[h][i])
    /\ \E d : OneVerdict(h, d)

\* The headline in hand, whose tickers are given what is theirs or still to do.
InHand(h) ==
    /\ \A i \in DOMAIN Tickers[h] :
        Given(h, Tickers[h][i]) \/ \E k \in DOMAIN enrich.todo : enrich.todo[k] = Tickers[h][i]
    /\ enrich.at = "event" => Row(h, enrich.todo[1])
    /\ OneVerdict(h, enrich.dilutive)

Handled == enrich.at \in {"store", "event", "undo"}

PassInv ==
    /\ \A i \in DOMAIN enrich.rows : (Handled /\ i = 1) \/ enrich.rows[i] \notin News!Cached
    /\ \A i, j \in DOMAIN enrich.rows : i # j => enrich.rows[i] # enrich.rows[j]
    /\ \A h \in News!Cached : (Handled /\ h = enrich.rows[1]) \/ Whole(h)
    /\ enrich.at \in {"store", "event"} => InHand(enrich.rows[1])

NothingDies == hit \cap {"gives_up", "no_undo"} = {}

NewsInv == FetchTypes /\ PassTypes /\ (NothingDies => PassInv)

\* What the assumption says of the feeds and the headlines.
LEMMA NewsConstants ==
    /\ RssFeeds # <<>> /\ RssFeeds \in Seq(Feeds) /\ ApiFeed \in Feeds
    /\ \A f \in Feeds : Listed[f] \in Seq(Headlines)
    /\ \A h \in Headlines : Tickers[h] \in Seq(TickerNames)
    /\ Batch \in Nat \ {0}
<1>1. News!NewsAssumption
  BY StoresAssumption DEF StoresAssumption
<1>2. RssFeeds \in Seq(Feeds)
  BY <1>1 DEF News!NewsAssumption, Feeds
<1> QED BY <1>1, <1>2 DEF News!NewsAssumption, Feeds, TickerNames

\* The empty list is one.
LEMMA EmptyLists == <<>> \in Seq(Headlines) /\ <<>> \in Seq(RowNames)
  BY EmptySeq, Zenon

\* The batch's limit is a number.
LEMMA BatchNatural == Batch \in Nat /\ Batch # 0
  BY NewsConstants

\* What a thread at rest has.
LEMMA NewsRest ==
    /\ DOMAIN News!NoFetch = FetchLocals /\ News!NoFetch.at = "idle"
    /\ News!NoFetch.feeds = <<>> /\ News!NoFetch.items = <<>> /\ News!NoFetch.when = 0
    /\ DOMAIN News!NoPass = PassLocals /\ News!NoPass.at = "idle"
    /\ News!NoPass.rows = <<>> /\ News!NoPass.todo = <<>>
  BY DEF News!NoFetch, News!NoPass, FetchLocals, PassLocals

\* The news start with empty tables.
LEMMA NewsStart == News!Init => NewsInv
<1> SUFFICES ASSUME News!Init PROVE NewsInv
  OBVIOUS
<1>1. fetch = News!NoFetch /\ enrich = News!NoPass /\ raw = <<>> /\ cache = {} /\ clock = 0
  BY DEF News!Init
<1>2. FetchTypes /\ PassTypes
  BY <1>1, NewsRest DEF FetchTypes, PassTypes
<1>3. PassInv
  BY <1>1, NewsRest DEF PassInv, News!Cached
<1> QED BY <1>2, <1>3 DEF NewsInv

\* The fetch of the scheduler keeps its types, and the enrichment does not see it.
LEMMA FetchStep ==
    ASSUME FetchTypes, News!Fetch PROVE FetchTypes' /\ UNCHANGED <<cache, events, enrich, hit>>
<1>1. UNCHANGED <<cache, events, enrich, clock, hit>>
  BY DEF News!Fetch, News!FetchStart, News!FetchFeed, News!NextFeed, News!LandItem,
         News!tableVars
<1>2. CASE News!FetchStart
  <2>1. PICK feeds \in {RssFeeds, <<ApiFeed>>} :
          fetch' = [News!NoFetch EXCEPT !.at = "get", !.feeds = feeds]
    BY <1>2 DEF News!FetchStart
  <2>2. feeds \in Seq(Feeds) /\ feeds # <<>>
    <3>1. <<ApiFeed>> \in Seq(Feeds) /\ <<ApiFeed>> # <<>>
      BY NewsConstants, OneElement
    <3> QED BY <3>1, NewsConstants
  <2>3. raw' = raw
    BY <1>2 DEF News!FetchStart, News!tableVars
  <2>4. /\ DOMAIN fetch' = FetchLocals /\ fetch'.at = "get" /\ fetch'.feeds = feeds
        /\ fetch'.items = <<>> /\ fetch'.when = 0
    BY <2>1, NewsRest DEF FetchLocals
  <2>5. fetch'.items \in Seq(Headlines) /\ fetch'.when \in Nat
    BY <2>4
  <2> QED BY <1>1, <2>2, <2>3, <2>4, <2>5 DEF FetchTypes
<1>3. CASE News!FetchFeed
  <2>1. raw' = raw /\ fetch.at = "get"
    BY <1>3 DEF News!FetchFeed, News!tableVars
  <2>2. CASE fetch' = [fetch EXCEPT !.at = "land", !.when = clock,
                                    !.items = Listed[Head(fetch.feeds)]]
    <3>1. Head(fetch.feeds) \in Feeds
      BY <2>1 DEF FetchTypes
    <3>2. PICK items \in Seq(Headlines) : items = Listed[Head(fetch.feeds)]
      BY <3>1, NewsConstants
    <3> QED BY <1>1, <2>1, <2>2, <3>2 DEF FetchTypes, FetchLocals
  <2>3. CASE fetch' = [fetch EXCEPT !.at = "land"]
    BY <1>1, <2>1, <2>3 DEF FetchTypes, FetchLocals
  <2>4. CASE fetch' = News!NoFetch
    BY <1>1, <2>1, <2>4, NewsRest DEF FetchTypes
  <2> QED BY <1>3, <1>1, <2>2, <2>3, <2>4 DEF News!FetchFeed
<1>4. CASE News!NextFeed
  <2>1. raw' = raw /\ fetch.at = "land" /\ fetch' = News!FeedEnds
    BY <1>4 DEF News!NextFeed, News!tableVars
  <2>2. CASE Len(fetch.feeds) = 1
    <3>1. fetch' = News!NoFetch
      BY <2>1, <2>2, Zenon DEF News!FeedEnds
    <3> QED BY <1>1, <2>1, <3>1, NewsRest DEF FetchTypes
  <2>3. CASE Len(fetch.feeds) # 1
    <3>1. PICK rest : rest = Tail(fetch.feeds)
      OBVIOUS
    <3>2. rest \in Seq(Feeds) /\ rest # <<>>
      <4>1. fetch.feeds \in Seq(Feeds) /\ fetch.feeds # <<>>
        BY <2>1 DEF FetchTypes
      <4>2. rest \in Seq(Feeds) /\ Len(rest) = Len(fetch.feeds) - 1 /\ Len(fetch.feeds) \in Nat
        BY <3>1, <4>1, HeadTailProperties
      <4>3. Len(rest) # 0 /\ Len(<<>>) = 0
        BY <2>3, <4>2
      <4> QED BY <4>2, <4>3, Zenon
    <3>3. fetch' = [fetch EXCEPT !.at = "get", !.feeds = rest, !.items = <<>>]
      BY <2>1, <2>3, <3>1 DEF News!FeedEnds
    <3> QED BY <1>1, <2>1, <3>2, <3>3 DEF FetchTypes, FetchLocals
  <2> QED BY <2>2, <2>3
<1>5. CASE News!LandItem
  <2>1. fetch.at = "land" /\ fetch.items # <<>>
    BY <1>5 DEF News!LandItem
  <2>2. /\ raw' = raw \/ raw' = Append(raw, [hash |-> Head(fetch.items), at |-> fetch.when])
        /\ fetch' = [fetch EXCEPT !.items = Tail(@)] \/ fetch' = News!NoFetch
    BY <1>5 DEF News!LandItem
  <2>3. Head(fetch.items) \in Headlines /\ Tail(fetch.items) \in Seq(Headlines)
    BY <2>1 DEF FetchTypes
  <2>4. raw' \in Seq([hash : Headlines, at : Nat])
    <3>1. raw \in Seq([hash : Headlines, at : Nat]) /\ fetch.when \in Nat
      BY DEF FetchTypes
    <3>2. [hash |-> Head(fetch.items), at |-> fetch.when] \in [hash : Headlines, at : Nat]
      BY <2>3, <3>1
    <3>3. PICK S : S = [hash : Headlines, at : Nat]
      OBVIOUS
    <3>4. PICK e : e = [hash |-> Head(fetch.items), at |-> fetch.when]
      OBVIOUS
    <3>5. raw \in Seq(S) /\ e \in S
      BY <3>1, <3>2, <3>3, <3>4, Zenon
    <3>6. Append(raw, e) \in Seq(S)
      BY <3>5, AppendProperties
    <3>7. raw' \in Seq(S)
      BY <2>2, <3>4, <3>5, <3>6, Zenon
    <3> QED BY <3>3, <3>7, Zenon
  <2>5. CASE fetch' = News!NoFetch
    BY <1>1, <2>4, <2>5, NewsRest DEF FetchTypes
  <2>6. CASE fetch' = [fetch EXCEPT !.items = Tail(@)]
    BY <1>1, <2>3, <2>4, <2>6 DEF FetchTypes, FetchLocals
  <2> QED BY <2>2, <2>5, <2>6
<1> QED BY <1>1, <1>2, <1>3, <1>4, <1>5 DEF News!Fetch

\* The headline in hand is the first of the batch, and there may be others behind it.
LEMMA BatchIs ==
    ASSUME PassTypes, enrich.at # "idle"
    PROVE  /\ enrich.rows # <<>> /\ Head(enrich.rows) = enrich.rows[1]
           /\ enrich.rows[1] \in Headlines /\ 1 \in DOMAIN enrich.rows
           /\ Tail(enrich.rows) \in Seq(Headlines)
           /\ \A i \in DOMAIN Tail(enrich.rows) :
               /\ i + 1 \in DOMAIN enrich.rows /\ i + 1 # 1 /\ i \in Nat
               /\ Tail(enrich.rows)[i] = enrich.rows[i + 1]
<1>1. PICK s \in Seq(Headlines) : s = enrich.rows
  BY DEF PassTypes
<1>2. s # <<>>
  BY <1>1 DEF PassTypes
<1>3. Head(s) = s[1] /\ s[1] \in Headlines /\ 1 \in DOMAIN s
  BY <1>2
<1>4. /\ Tail(s) \in Seq(Headlines)
      /\ \A i \in DOMAIN Tail(s) :
          i + 1 \in DOMAIN s /\ i + 1 # 1 /\ i \in Nat /\ Tail(s)[i] = s[i + 1]
  BY <1>2
<1> QED BY <1>1, <1>2, <1>3, <1>4

\* The pass goes on to the next headline, or is over.
LEMMA OverIs ==
    ASSUME PassTypes, enrich.at # "idle", enrich' = News!Over(Tail(enrich.rows))
    PROVE  /\ PassTypes' /\ enrich'.at \in {"idle", "classify"}
           /\ \/ enrich'.rows = <<>>
              \/ enrich'.rows = Tail(enrich.rows)
<1>1. PICK rest : rest = Tail(enrich.rows)
  OBVIOUS
<1>2. rest \in Seq(Headlines)
  BY <1>1, BatchIs
<1>3. CASE rest = <<>>
  <2>1. enrich' = News!NoPass
    BY <1>1, <1>3 DEF News!Over
  <2>2. /\ DOMAIN enrich' = PassLocals /\ enrich'.at = "idle" /\ enrich'.rows = <<>>
        /\ enrich'.todo = <<>>
    BY <2>1, NewsRest
  <2>3. PassTypes'
    BY <2>2, EmptyLists DEF PassTypes
  <2> QED BY <2>2, <2>3
<1>4. CASE rest # <<>>
  <2>1. enrich' = [News!NoPass EXCEPT !.at = "classify", !.rows = rest]
    BY <1>1, <1>4 DEF News!Over
  <2>2. /\ DOMAIN enrich' = PassLocals /\ enrich'.at = "classify" /\ enrich'.rows = rest
        /\ enrich'.todo = <<>>
    BY <2>1, NewsRest DEF PassLocals
  <2>3. PassTypes'
    BY <1>2, <1>4, <2>2, EmptyLists DEF PassTypes
  <2> QED BY <1>1, <2>2, <2>3
<1> QED BY <1>3, <1>4

\* It does when no row of the headlines behind is there, and every headline with one is whole.
LEMMA OverKeeps ==
    ASSUME PassTypes, PassInv, enrich.at # "idle", enrich' = News!Over(Tail(enrich.rows)),
           \A i \in DOMAIN enrich.rows : i # 1 => enrich.rows[i] \notin News!Cached',
           \A h \in News!Cached' : Whole(h)'
    PROVE  PassInv'
<1>1. ~Handled' /\ (enrich'.rows = <<>> \/ enrich'.rows = Tail(enrich.rows))
  BY OverIs DEF Handled
<1>2. \A i \in DOMAIN enrich'.rows :
          i + 1 \in DOMAIN enrich.rows /\ i + 1 # 1 /\ i \in Nat
          /\ enrich'.rows[i] = enrich.rows[i + 1]
  <2>1. CASE enrich'.rows = <<>>
    BY <2>1
  <2>2. CASE enrich'.rows = Tail(enrich.rows)
    BY <2>2, BatchIs
  <2> QED BY <1>1, <2>1, <2>2
<1>3. \A i \in DOMAIN enrich'.rows : enrich'.rows[i] \notin News!Cached'
  BY <1>2
<1>4. ASSUME NEW i \in DOMAIN enrich'.rows, NEW j \in DOMAIN enrich'.rows, i # j
      PROVE  enrich'.rows[i] # enrich'.rows[j]
  <2>1. i + 1 # j + 1
    BY <1>2, <1>4
  <2> QED BY <1>2, <2>1 DEF PassInv
<1> QED BY <1>1, <1>3, <1>4 DEF PassInv, Handled

\* What leaves the pass and its tables alone keeps the invariant.
LEMMA NewsUntouched ==
    ASSUME NewsInv, FetchTypes', UNCHANGED <<cache, events, enrich, hit>> PROVE NewsInv'
<1>1. PassTypes'
  BY DEF NewsInv, PassTypes
<1>2. NothingDies' <=> NothingDies
  BY DEF NothingDies
<1>3. News!Cached' = News!Cached /\ (Handled' <=> Handled)
  BY DEF News!Cached, Handled
<1>4. ASSUME PassInv PROVE PassInv'
  <2>1. \A h \in News!Cached' : (Handled /\ h = enrich.rows[1]) \/ Whole(h)'
    BY <1>3, <1>4 DEF PassInv, Whole, Given, Row, OneVerdict
  <2>2. ASSUME enrich.at \in {"store", "event"}, NEW h, h = enrich.rows[1] PROVE InHand(h)'
    <3>1. InHand(h)
      BY <1>4, <2>2 DEF PassInv
    <3> QED BY <3>1 DEF InHand, Given, Row, OneVerdict
  <2>3. \A i \in DOMAIN enrich.rows : (Handled /\ i = 1) \/ enrich.rows[i] \notin News!Cached
    BY <1>4 DEF PassInv
  <2>4. \A i, j \in DOMAIN enrich.rows : i # j => enrich.rows[i] # enrich.rows[j]
    BY <1>4 DEF PassInv
  <2> QED BY <1>3, <2>1, <2>2, <2>3, <2>4 DEF PassInv
<1> QED BY <1>1, <1>2, <1>4 DEF NewsInv

\* A pass starts with the newest headlines that have no row.
LEMMA PassStartStep ==
    ASSUME FetchTypes, PassTypes, News!PassStart
    PROVE  PassTypes' /\ (PassInv => PassInv')
<1>1. PICK rows \in News!NewestFirst(News!ToEnrich) :
        enrich' = [News!NoPass EXCEPT !.at = "classify", !.rows = rows]
  BY DEF News!PassStart
<1>2. UNCHANGED <<cache, events>> /\ enrich.at = "idle" /\ News!ToEnrich # {}
  BY DEF News!PassStart, News!tableVars
<1>3. /\ DOMAIN enrich' = PassLocals /\ enrich'.at = "classify" /\ enrich'.rows = rows
      /\ enrich'.todo = <<>>
  BY <1>1, NewsRest DEF PassLocals
<1>4. News!ToEnrich \subseteq Headlines
  <2>1. \A i \in DOMAIN raw : raw[i].hash \in Headlines
    <3>1. raw \in Seq([hash : Headlines, at : Nat])
      BY DEF FetchTypes
    <3>2. ASSUME NEW i \in DOMAIN raw PROVE raw[i] \in [hash : Headlines, at : Nat]
      <4>1. i \in 1 .. Len(raw)
        BY <3>1
      <4> QED BY <3>1, <4>1, ElementOfSeq
    <3> QED BY <3>2
  <2> QED BY <2>1 DEF News!ToEnrich
<1>5. rows \in Seq(News!ToEnrich) /\ Len(rows) \in Nat
  <2>1. rows \in News!BoundedSeq(News!ToEnrich, Batch)
    BY DEF News!NewestFirst
  <2>2. PICK n \in 0 .. Batch : rows \in [1 .. n -> News!ToEnrich]
    BY <2>1 DEF News!BoundedSeq, News!SeqOf
  <2>3. n \in Nat
    BY BatchNatural
  <2> QED BY <2>2, <2>3
<1>6. rows # <<>>
  <2>1. PICK h : h \in News!ToEnrich
    BY <1>2
  <2>2. CASE rows = <<>>
    <3>1. h \notin News!Range(rows)
      BY <2>2 DEF News!Range
    <3>2. Len(rows) = Batch
      BY <2>1, <3>1 DEF News!NewestFirst
    <3> QED BY <2>2, <3>2, NewsConstants
  <2> QED BY <2>2
<1>7. PassTypes'
  <2>1. rows \in Seq(Headlines)
    BY <1>4, <1>5
  <2> QED BY <1>3, <1>6, <2>1 DEF PassTypes
<1>8. ASSUME PassInv PROVE PassInv'
  <2>1. News!Cached' = News!Cached /\ ~Handled /\ ~Handled'
    BY <1>2, <1>3 DEF News!Cached, Handled
  <2>2. \A i \in DOMAIN rows : rows[i] \notin News!Cached
    <3>1. \A i \in DOMAIN rows : rows[i] \in News!ToEnrich
      BY <1>5
    <3> QED BY <3>1 DEF News!ToEnrich
  <2>3. ASSUME NEW i \in DOMAIN rows, NEW j \in DOMAIN rows, i # j PROVE rows[i] # rows[j]
    <3>1. i \in Nat /\ j \in Nat /\ (i < j \/ j < i)
      BY <1>5, <2>3
    <3> QED BY <3>1 DEF News!NewestFirst
  <2>4. \A h \in News!Cached : Whole(h)'
    BY <1>2, <1>8, <2>1 DEF PassInv, Whole, Given, Row, OneVerdict
  <2> QED BY <1>3, <2>1, <2>2, <2>3, <2>4 DEF PassInv
<1> QED BY <1>7, <1>8

\* A headline stays whole when no statement is about it.
LEMMA StaysWhole ==
    ASSUME NEW h, Whole(h), \A r : r.hash = h => (r \in cache' <=> r \in cache),
           events \subseteq events'
    PROVE  Whole(h)'
  BY DEF Whole, Given, Row, OneVerdict

\* The model's answer to a headline.
LEMMA ClassifyStep ==
    ASSUME PassTypes, News!Classify PROVE PassTypes' /\ (PassInv => PassInv')
<1>1. enrich.at = "classify" /\ UNCHANGED <<cache, events>> /\ ~Handled
  BY DEF News!Classify, News!tableVars, Handled
<1>2. News!Cached' = News!Cached
  BY <1>1 DEF News!Cached
<1>3. PICK h : h = enrich.rows[1]
  OBVIOUS
<1>4. h \in Headlines /\ h = Head(enrich.rows) /\ 1 \in DOMAIN enrich.rows
  BY <1>1, <1>3, BatchIs
<1>5. PassInv => \A g \in News!Cached : Whole(g)'
  BY <1>1, StaysWhole DEF PassInv
<1>6. CASE enrich' = News!Over(Tail(enrich.rows))
  <2>1. PassTypes'
    BY <1>1, <1>6, OverIs
  <2>2. ASSUME PassInv PROVE PassInv'
    <3>1. \A i \in DOMAIN enrich.rows : enrich.rows[i] \notin News!Cached'
      BY <1>1, <1>2, <2>2 DEF PassInv
    <3>2. \A g \in News!Cached' : Whole(g)'
      BY <1>2, <1>5, <2>2
    <3> QED BY <1>1, <1>6, <2>2, <3>1, <3>2, OverKeeps
  <2> QED BY <2>1, <2>2
<1>7. ASSUME NEW said \in BOOLEAN,
             enrich' = [enrich EXCEPT !.at = "store",
                          !.todo = IF Tickers[h] = <<>> THEN <<"">> ELSE Tickers[h],
                          !.dilutive = News!IsDilutive(h, said)]
      PROVE  PassTypes' /\ (PassInv => PassInv')
  <2>1. PICK todo : todo = IF Tickers[h] = <<>> THEN <<"">> ELSE Tickers[h]
    OBVIOUS
  <2>2. PICK d : d = News!IsDilutive(h, said)
    OBVIOUS
  <2>3. h \in Offering => d = TRUE
    BY <2>2, Zenon DEF News!IsDilutive
  <2>4. enrich' = [enrich EXCEPT !.at = "store", !.todo = todo, !.dilutive = d]
    BY <1>7, <2>1, <2>2, Zenon
  <2>5. /\ DOMAIN enrich' = PassLocals /\ enrich'.at = "store" /\ enrich'.rows = enrich.rows
        /\ enrich'.todo = todo /\ enrich'.dilutive = d
    BY <2>4 DEF PassTypes, PassLocals
  <2>6. todo \in Seq(RowNames) /\ todo # <<>>
    <3>1. <<"">> \in Seq(RowNames) /\ <<"">> # <<>>
      BY OneElement DEF RowNames
    <3>2. Tickers[h] \in Seq(TickerNames)
      BY <1>4, NewsConstants
    <3>3. Tickers[h] \in Seq(RowNames)
      <4>1. TickerNames \subseteq RowNames
        BY DEF RowNames
      <4> QED BY <3>2, <4>1, SeqMonotonic, Zenon
    <3> QED BY <2>1, <3>1, <3>3, Zenon
  <2>7. PassTypes'
    BY <1>1, <2>5, <2>6 DEF PassTypes
  <2>8. ASSUME PassInv PROVE PassInv'
    <3>1. h \notin News!Cached
      BY <1>1, <1>3, <1>4, <2>8 DEF PassInv
    <3>2. \A r \in cache : r.hash # h
      BY <3>1 DEF News!Cached
    <3>3. \A i \in DOMAIN Tickers[h] : \E k \in DOMAIN todo : todo[k] = Tickers[h][i]
      <4>1. CASE Tickers[h] = <<>>
        BY <4>1
      <4>2. CASE Tickers[h] # <<>>
        BY <2>1, <4>2
      <4> QED BY <4>1, <4>2
    <3>4. InHand(h)'
      <4>1. OneVerdict(h, enrich.dilutive)'
        BY <1>1, <2>3, <2>5, <3>2 DEF OneVerdict
      <4>2. enrich'.at # "event"
        BY <2>5
      <4> QED BY <2>5, <3>3, <4>1, <4>2 DEF InHand
    <3>5. Handled'
      BY <2>5 DEF Handled
    <3>6. \A i \in DOMAIN enrich.rows : enrich.rows[i] \notin News!Cached
      BY <1>1, <2>8 DEF PassInv
    <3> QED BY <1>2, <1>3, <1>5, <2>5, <2>8, <3>4, <3>5, <3>6 DEF PassInv
  <2> QED BY <2>7, <2>8
<1> QED BY <1>4, <1>6, <1>7 DEF News!Classify

\* A statement that fails leaves the headline to its undo.
LEMMA FailStep ==
    ASSUME PassTypes, enrich.at \in {"store", "event"},
           enrich' = [enrich EXCEPT !.at = "undo"], UNCHANGED <<cache, events>>
    PROVE  PassTypes' /\ (PassInv => PassInv')
<1>1. /\ DOMAIN enrich' = PassLocals /\ enrich'.at = "undo" /\ enrich'.rows = enrich.rows
      /\ enrich'.todo = enrich.todo
  BY DEF PassTypes, PassLocals
<1>2. PassTypes'
  BY <1>1 DEF PassTypes
<1>3. Handled /\ Handled' /\ News!Cached' = News!Cached
  BY <1>1 DEF Handled, News!Cached
<1>4. ASSUME PassInv PROVE PassInv'
  <2>1. \A g : Whole(g) => Whole(g)'
    BY StaysWhole
  <2> QED BY <1>1, <1>3, <1>4, <2>1 DEF PassInv
<1> QED BY <1>2, <1>4

\* The row of a ticker.
LEMMA StoreStep ==
    ASSUME PassTypes, News!StoreCacheRow PROVE PassTypes' /\ (PassInv => PassInv')
<1>1. enrich.at = "store" /\ events' = events /\ Handled
  BY DEF News!StoreCacheRow, Handled
<1>2. PICK h, t : h = enrich.rows[1] /\ t = enrich.todo[1]
  OBVIOUS
<1>3. h = Head(enrich.rows) /\ t = Head(enrich.todo)
  BY <1>1, <1>2, BatchIs DEF PassTypes
<1>4. CASE enrich' = [enrich EXCEPT !.at = "undo"] /\ cache' = cache
  BY <1>1, <1>4, FailStep
<1>5. CASE /\ cache' = IF Row(h, t) THEN cache
                       ELSE cache \cup {[hash |-> h, symbol |-> t, at |-> clock,
                                         dilutive |-> enrich.dilutive]}
           /\ enrich' = [enrich EXCEPT !.at = "event"]
  <2>1. /\ DOMAIN enrich' = PassLocals /\ enrich'.at = "event" /\ enrich'.rows = enrich.rows
        /\ enrich'.todo = enrich.todo /\ enrich'.dilutive = enrich.dilutive
    BY <1>5 DEF PassTypes, PassLocals
  <2>2. PassTypes'
    BY <1>1, <2>1 DEF PassTypes
  <2>3. PICK new : new = [hash |-> h, symbol |-> t, at |-> clock, dilutive |-> enrich.dilutive]
    OBVIOUS
  <2>4. new.hash = h /\ new.symbol = t /\ new.dilutive = enrich.dilutive
    BY <2>3
  <2>5. cache \subseteq cache' /\ \A r \in cache' : r \in cache \/ r = new
    BY <1>5, <2>3
  <2>6. \E r \in cache' : r.hash = h /\ r.symbol = t
    BY <1>5, <2>3, <2>4 DEF Row
  <2>7. ASSUME PassInv PROVE PassInv'
    <3>1. \A g : g # h => (g \in News!Cached' <=> g \in News!Cached)
      BY <2>4, <2>5 DEF News!Cached
    <3>2. \A g : g # h /\ Whole(g) => Whole(g)'
      BY <1>1, <2>4, <2>5, StaysWhole
    <3>3. InHand(h)'
      <4>1. InHand(h)
        BY <1>1, <1>2, <2>7 DEF PassInv
      <4>2. OneVerdict(h, enrich.dilutive)'
        BY <2>1, <2>4, <2>5, <4>1 DEF InHand, OneVerdict
      <4>3. \A s : Given(h, s) => Given(h, s)'
        BY <1>1, <2>5 DEF Given, Row
      <4>4. Row(h, enrich.todo[1])'
        BY <1>2, <2>1, <2>6 DEF Row
      <4> QED BY <2>1, <4>1, <4>2, <4>3, <4>4 DEF InHand
    <3>4. Handled'
      BY <2>1 DEF Handled
    <3>5. ASSUME NEW i \in DOMAIN enrich.rows, i # 1 PROVE enrich.rows[i] \notin News!Cached'
      <4>1. 1 \in DOMAIN enrich.rows
        BY <1>1, BatchIs
      <4>2. enrich.rows[i] # h /\ enrich.rows[i] \notin News!Cached
        BY <1>2, <2>7, <3>5, <4>1 DEF PassInv
      <4> QED BY <3>1, <4>2
    <3>6. \A g \in News!Cached' : g = h \/ Whole(g)'
      BY <1>2, <2>7, <3>1, <3>2 DEF PassInv
    <3> QED BY <1>2, <2>1, <2>7, <3>3, <3>4, <3>5, <3>6 DEF PassInv
  <2> QED BY <2>2, <2>7
<1> QED BY <1>1, <1>3, <1>4, <1>5 DEF News!StoreCacheRow, Row

\* The event of a ticker, and the next one or the next headline.
LEMMA EventStep ==
    ASSUME PassTypes, News!UpsertNewsEvent PROVE PassTypes' /\ (PassInv => PassInv')
<1>1. enrich.at = "event" /\ cache' = cache /\ Handled
  BY DEF News!UpsertNewsEvent, Handled
<1>2. PICK h, t, todo : h = enrich.rows[1] /\ t = enrich.todo[1] /\ todo = enrich.todo
  OBVIOUS
<1>3. /\ h = Head(enrich.rows) /\ t = Head(enrich.todo) /\ h \in Headlines
      /\ todo \in Seq(RowNames) /\ todo # <<>>
  BY <1>1, <1>2, BatchIs DEF PassTypes
<1>4. CASE enrich' = [enrich EXCEPT !.at = "undo"] /\ events' = events
  BY <1>1, <1>4, FailStep
<1>5. CASE /\ events' = IF t = "" THEN events ELSE events \cup {<<h, t>>}
           /\ enrich' = News!NextTicker
  <2>1. News!Cached' = News!Cached /\ events \subseteq events'
    BY <1>1, <1>5 DEF News!Cached
  <2>2. \A g : Whole(g) => Whole(g)'
    BY <1>1, <2>1, StaysWhole
  <2>3. ASSUME PassInv, NEW i \in DOMAIN Tickers[h], Tickers[h][i] = t
        PROVE  Row(h, t)' /\ <<h, t>> \in events'
    <3>1. t # ""
      <4>1. Tickers[h] \in Seq(TickerNames)
        BY <1>3, NewsConstants
      <4>2. t \in TickerNames
        BY <2>3, <4>1
      <4> QED BY <4>2 DEF TickerNames
    <3>2. Row(h, t)
      BY <1>1, <1>2, <2>3 DEF PassInv, InHand
    <3> QED BY <1>1, <1>5, <3>1, <3>2 DEF Row
  <2>4. ASSUME NEW s, Given(h, s) PROVE Row(h, s)' /\ <<h, s>> \in events'
    BY <1>1, <2>1, <2>4 DEF Given, Row
  <2>5. CASE Len(todo) = 1
    <3>1. enrich' = News!Over(Tail(enrich.rows))
      BY <1>2, <1>5, <2>5 DEF News!NextTicker
    <3>2. PassTypes'
      BY <1>1, <3>1, OverIs
    <3>3. ASSUME PassInv PROVE PassInv'
      <4>1. ASSUME NEW i \in DOMAIN Tickers[h]
            PROVE  Row(h, Tickers[h][i])' /\ <<h, Tickers[h][i]>> \in events'
        <5>1. CASE Given(h, Tickers[h][i])
          BY <2>4, <5>1
        <5>2. CASE \E k \in DOMAIN todo : todo[k] = Tickers[h][i]
          <6>1. Tickers[h][i] = t
            BY <1>2, <1>3, <2>5, <5>2
          <6> QED BY <2>3, <3>3, <6>1
        <5> QED BY <1>1, <1>2, <3>3, <5>1, <5>2 DEF PassInv, InHand
      <4>2. Whole(h)'
        <5>1. OneVerdict(h, enrich.dilutive)
          BY <1>1, <1>2, <3>3 DEF PassInv, InHand
        <5>2. \E d : OneVerdict(h, d)'
          BY <1>1, <5>1 DEF OneVerdict
        <5> QED BY <4>1, <5>2 DEF Whole, Given, OneVerdict
      <4>3. \A g \in News!Cached' : Whole(g)'
        BY <1>2, <2>1, <2>2, <3>3, <4>2 DEF PassInv
      <4>4. \A i \in DOMAIN enrich.rows : i # 1 => enrich.rows[i] \notin News!Cached'
        BY <2>1, <3>3 DEF PassInv
      <4> QED BY <1>1, <3>1, <3>3, <4>3, <4>4, OverKeeps
    <3> QED BY <3>2, <3>3
  <2>6. CASE Len(todo) # 1
    <3>1. PICK rest : rest = Tail(todo)
      OBVIOUS
    <3>2. enrich' = [enrich EXCEPT !.at = "store", !.todo = rest]
      BY <1>2, <1>5, <2>6, <3>1 DEF News!NextTicker
    <3>3. /\ DOMAIN enrich' = PassLocals /\ enrich'.at = "store" /\ enrich'.rows = enrich.rows
          /\ enrich'.todo = rest /\ enrich'.dilutive = enrich.dilutive
      BY <3>2 DEF PassTypes, PassLocals
    <3>4. rest \in Seq(RowNames) /\ rest # <<>>
      <4>1. Len(rest) = Len(todo) - 1 /\ Len(todo) \in Nat /\ rest \in Seq(RowNames)
        BY <1>3, <3>1, HeadTailProperties
      <4>2. Len(rest) # 0 /\ Len(<<>>) = 0
        BY <2>6, <4>1
      <4> QED BY <4>1, <4>2, Zenon
    <3>5. PassTypes'
      BY <1>1, <3>3, <3>4 DEF PassTypes
    <3>6. ASSUME PassInv PROVE PassInv'
      <4>1. ASSUME NEW i \in DOMAIN Tickers[h]
            PROVE  \/ Row(h, Tickers[h][i])' /\ <<h, Tickers[h][i]>> \in events'
                   \/ \E k \in DOMAIN rest : rest[k] = Tickers[h][i]
        <5>1. CASE Given(h, Tickers[h][i])
          BY <2>4, <5>1
        <5>2. ASSUME NEW k \in DOMAIN todo, todo[k] = Tickers[h][i]
              PROVE  \/ Row(h, Tickers[h][i])' /\ <<h, Tickers[h][i]>> \in events'
                     \/ \E j \in DOMAIN rest : rest[j] = Tickers[h][i]
          <6>1. CASE k = 1
            BY <1>2, <2>3, <3>6, <5>2, <6>1
          <6>2. CASE k # 1
            <7>1. k - 1 \in DOMAIN rest /\ rest[k - 1] = todo[k]
              BY <1>3, <3>1, <6>2
            <7> QED BY <5>2, <7>1
          <6> QED BY <6>1, <6>2
        <5> QED BY <1>1, <1>2, <3>6, <5>1, <5>2 DEF PassInv, InHand
      <4>2. InHand(h)'
        <5>1. OneVerdict(h, enrich.dilutive)
          BY <1>1, <1>2, <3>6 DEF PassInv, InHand
        <5>2. OneVerdict(h, enrich.dilutive)'
          BY <1>1, <3>3, <5>1 DEF OneVerdict
        <5>3. enrich'.at # "event"
          BY <3>3
        <5> QED BY <3>3, <4>1, <5>2, <5>3 DEF InHand, Given
      <4>3. Handled'
        BY <3>3 DEF Handled
      <4> QED BY <1>1, <1>2, <2>1, <2>2, <3>3, <3>6, <4>2, <4>3 DEF PassInv
    <3> QED BY <3>5, <3>6
  <2> QED BY <2>5, <2>6
<1> QED BY <1>1, <1>3, <1>4, <1>5 DEF News!UpsertNewsEvent

\* The undo of a headline takes all its rows, unless the database refuses that too.
LEMMA UndoStep ==
    ASSUME PassTypes, News!UndoHeadline
    PROVE  PassTypes' /\ (NothingDies /\ PassInv => PassInv')
<1>1. enrich.at = "undo" /\ events' = events /\ enrich' = News!Over(Tail(enrich.rows))
  BY DEF News!UndoHeadline
<1>2. PassTypes'
  BY <1>1, OverIs
<1>3. ASSUME NothingDies, PassInv PROVE PassInv'
  <2>1. PICK h : h = enrich.rows[1]
    OBVIOUS
  <2>2. cache' = {r \in cache : r.hash # h}
    <3>1. cache' = News!Undone
      BY <1>3 DEF News!UndoHeadline, NothingDies
    <3> QED BY <1>1, <2>1, <3>1, BatchIs DEF News!Undone
  <2>3. \A g \in News!Cached' : g \in News!Cached /\ g # h
    BY <2>2 DEF News!Cached
  <2>4. \A g : g # h /\ Whole(g) => Whole(g)'
    BY <1>1, <2>2, StaysWhole
  <2>5. \A g \in News!Cached' : Whole(g)'
    BY <1>3, <2>1, <2>3, <2>4 DEF PassInv
  <2>6. \A i \in DOMAIN enrich.rows : i # 1 => enrich.rows[i] \notin News!Cached'
    BY <1>3, <2>3 DEF PassInv
  <2> QED BY <1>1, <1>3, <2>5, <2>6, OverKeeps
<1> QED BY <1>2, <1>3

\* The enrichment keeps its invariant.
LEMMA EnrichKeeps ==
    ASSUME FetchTypes, PassTypes, News!Enrich
    PROVE  PassTypes' /\ (NothingDies /\ PassInv => PassInv')
  BY PassStartStep, ClassifyStep, StoreStep, EventStep, UndoStep DEF News!Enrich

\* Each step of the news keeps the invariant.
LEMMA NewsStep == NewsInv /\ News!Next => NewsInv'
<1> SUFFICES ASSUME NewsInv, News!Next PROVE NewsInv'
  OBVIOUS
<1>1. CASE News!Fetch
  <2>1. FetchTypes' /\ UNCHANGED <<cache, events, enrich, hit>>
    BY <1>1, FetchStep DEF NewsInv
  <2> QED BY <2>1, NewsUntouched
<1>2. CASE News!Enrich
  <2>1. UNCHANGED <<raw, fetch, clock, hit>>
    BY <1>2 DEF News!Enrich, News!PassStart, News!Classify, News!StoreCacheRow,
       News!UpsertNewsEvent, News!UndoHeadline, News!tableVars
  <2>2. FetchTypes' /\ (NothingDies' <=> NothingDies)
    BY <2>1 DEF NewsInv, FetchTypes, NothingDies
  <2> QED BY <1>2, <2>2, EnrichKeeps DEF NewsInv
<1>3. CASE News!NewsTick
  <2>1. clock' = clock + 1 /\ UNCHANGED <<raw, fetch, cache, events, enrich, hit>>
    BY <1>3 DEF News!NewsTick, News!tableVars
  <2>2. FetchTypes'
    BY <2>1 DEF NewsInv, FetchTypes
  <2> QED BY <2>1, <2>2, NewsUntouched
<1>4. CASE News!ProcessDies
  <2>1. /\ fetch' = News!NoFetch /\ enrich' = News!NoPass
        /\ UNCHANGED <<raw, clock, hit>> /\ ~NothingDies
    BY <1>4 DEF News!ProcessDies, News!tableVars, NothingDies
  <2>2. FetchTypes' /\ PassTypes' /\ ~NothingDies'
    BY <2>1, NewsRest, EmptyLists DEF NewsInv, FetchTypes, PassTypes, NothingDies
  <2> QED BY <2>2 DEF NewsInv
<1> QED BY <1>1, <1>2, <1>3, <1>4 DEF News!Next

\* Another part's steps leave the news alone.
LEMMA NewsStill == NewsInv /\ UNCHANGED newsVars => NewsInv'
<1> SUFFICES ASSUME NewsInv, UNCHANGED newsVars PROVE NewsInv'
  OBVIOUS
<1>1. UNCHANGED <<raw, fetch, clock, cache, events, enrich, hit>>
  BY DEF newsVars
<1>2. FetchTypes'
  BY <1>1 DEF NewsInv, FetchTypes
<1> QED BY <1>1, <1>2, NewsUntouched

\* The invariant of the news holds at the start and after each step.
LEMMA NewsInvHolds == StoresSpec => []NewsInv
<1>1. StoresInit => NewsInv
  BY NewsStart DEF StoresInit
<1>2. NewsInv /\ [StoresNext]_storesVars => NewsInv'
  BY PartsMove, NewsStep, NewsStill
<1> QED BY <1>1, <1>2, PTL DEF StoresSpec

\* What the invariant says of the headlines.
LEMMA HeadlinesWhole == NewsInv => News!WholeHeadlines
<1> SUFFICES ASSUME NewsInv, enrich.at \in {"idle", "classify"},
                    hit \cap {"gives_up", "no_undo"} = {}, NEW h \in News!Cached
             PROVE  /\ \A i \in DOMAIN Tickers[h] :
                        /\ \E r \in {r \in cache : r.hash = h} : r.symbol = Tickers[h][i]
                        /\ <<h, Tickers[h][i]>> \in events
                    /\ \A r, q \in {r \in cache : r.hash = h} : r.dilutive = q.dilutive
                    /\ h \in Offering => \A r \in {r \in cache : r.hash = h} : r.dilutive
  BY DEF News!WholeHeadlines
<1>1. Whole(h)
  BY DEF NewsInv, PassInv, NothingDies, Handled
<1>2. \A i \in DOMAIN Tickers[h] :
        /\ \E r \in {r \in cache : r.hash = h} : r.symbol = Tickers[h][i]
        /\ <<h, Tickers[h][i]>> \in events
  BY <1>1 DEF Whole, Given, Row
<1>3. PICK d : OneVerdict(h, d)
  BY <1>1 DEF Whole
<1>4. \A r, q \in {r \in cache : r.hash = h} : r.dilutive = q.dilutive
  BY <1>3 DEF OneVerdict
<1>5. h \in Offering => \A r \in {r \in cache : r.hash = h} : r.dilutive
  BY <1>3, Zenon DEF OneVerdict
<1> QED BY <1>2, <1>4, <1>5

-----------------------------------------------------------------------------
(* The bars *)

BarTypes ==
    /\ firstPass \in BOOLEAN /\ minute \in Nat /\ lastPass \in Nat
    /\ minute_bars = [s \in Stocks |-> minute_bars[s]]
    /\ since \in [Stocks -> Nat]

\* A symbol counts from the pass that found it listed, a pass follows the last one before its
\* window has passed, and what it should have was asked for.
BarInv ==
    /\ BarTypes
    /\ firstPass => \A s \in Stocks : since[s] = 0
    /\ ~firstPass => minute <= lastPass + Refresh
    /\ \A s \in Stocks : since[s] # 0 =>
        /\ s \in Market!Range(list)
        /\ mishaps \cap {"no_bars", "no_upsert"} = {} =>
            {m \in Traded[s] : m >= since[s] /\ m < lastPass} \subseteq minute_bars[s]

\* What the assumption says of the constants.
LEMMA BarConstants ==
    /\ Refresh \in Nat \ {0} /\ LastMinute \in Nat \ {0}
    /\ \A s \in Stocks : Traded[s] \subseteq 1 .. LastMinute
  BY StoresAssumption DEF StoresAssumption, Market!BarsAssumption, Market!Minutes

\* The day starts, or the process does in its middle.
LEMMA BarStart == Market!Init => BarInv
<1> SUFFICES ASSUME Market!Init PROVE BarInv
  OBVIOUS
<1>1. minute \in Nat
  <2>1. minute = 1 \/ minute = LastMinute \div 2
    BY DEF Market!Init
  <2> QED BY <2>1, BarConstants
<1>2. BarTypes /\ firstPass = TRUE /\ \A s \in Stocks : since[s] = 0
  BY <1>1 DEF Market!Init, BarTypes
<1> QED BY <1>2 DEF BarInv

\* An ingest pass stores what its window asks for, for the symbols listed.
LEMMA IngestStep == BarInv /\ Market!StepIngest => BarInv'
<1> SUFFICES ASSUME BarInv, Market!StepIngest PROVE BarInv'
  OBVIOUS
<1>1. /\ firstPass' = FALSE /\ lastPass' = minute /\ UNCHANGED <<list, minute, mishaps>>
      /\ since' = [s \in Stocks |->
            IF s \notin Market!Range(list) THEN 0
            ELSE IF since[s] # 0 THEN since[s]
            ELSE IF firstPass THEN 1 ELSE Market!Max({1, minute - Refresh})]
  BY DEF Market!StepIngest
<1>2. PICK n : n = Market!Max({1, minute - Refresh})
  OBVIOUS
<1>3. n \in Nat \ {0} /\ n >= minute - Refresh
  <2>1. \E x \in {1, minute - Refresh} : \A y \in {1, minute - Refresh} : x >= y
    BY BarConstants DEF BarInv, BarTypes
  <2>2. n \in {1, minute - Refresh} /\ \A y \in {1, minute - Refresh} : n >= y
    BY <1>2, <2>1, Zenon DEF Market!Max
  <2> QED BY <2>2, BarConstants DEF BarInv, BarTypes
<1>4. ASSUME NEW s \in Stocks
      PROVE  since'[s] = IF s \notin Market!Range(list) THEN 0
                         ELSE IF since[s] # 0 THEN since[s] ELSE IF firstPass THEN 1 ELSE n
  BY <1>1, <1>2
<1>5. minute_bars' = [s \in Stocks |-> minute_bars'[s]]
  BY DEF Market!StepIngest, Market!Stored, BarInv, BarTypes
<1>6. BarTypes'
  BY <1>1, <1>2, <1>3, <1>5 DEF BarInv, BarTypes
<1>7. ASSUME NEW s \in Stocks, since'[s] # 0
      PROVE  /\ s \in Market!Range(list)
             /\ mishaps \cap {"no_bars", "no_upsert"} = {} =>
                 {m \in Traded[s] : m >= since'[s] /\ m < minute} \subseteq minute_bars'[s]
  <2>1. s \in Market!Range(list)
    BY <1>4, <1>7
  <2>2. ASSUME mishaps \cap {"no_bars", "no_upsert"} = {},
               NEW m \in Traded[s], m >= since'[s], m < minute
        PROVE  m \in minute_bars'[s]
    <3>1. minute_bars' = Market!Stored({})
      BY <2>2 DEF Market!StepIngest
    <3>2. minute_bars'[s] = minute_bars[s] \cup (Market!Asked \cap Traded[s])
      BY <2>1, <3>1 DEF Market!Stored
    <3>3. m \in 1 .. LastMinute
      BY BarConstants
    <3>4. CASE firstPass
      BY <2>2, <3>2, <3>3, <3>4 DEF Market!Asked, Market!Minutes
    <3>5. CASE ~firstPass /\ m >= minute - Refresh
      BY <2>2, <3>2, <3>3, <3>5 DEF Market!Asked, Market!Minutes
    <3>6. CASE ~firstPass /\ ~(m >= minute - Refresh)
      <4>1. since[s] # 0 /\ since'[s] = since[s]
        BY <1>3, <1>4, <2>1, <2>2, <3>3, <3>6, BarConstants DEF BarInv, BarTypes
      <4>2. m < lastPass
        BY <3>3, <3>6, BarConstants DEF BarInv, BarTypes
      <4> QED BY <2>2, <3>2, <4>1, <4>2 DEF BarInv
    <3> QED BY <3>4, <3>5, <3>6
  <2> QED BY <2>1, <2>2
<1>8. minute' <= lastPass' + Refresh
  BY <1>1, BarConstants DEF BarInv, BarTypes
<1> QED BY <1>1, <1>6, <1>7, <1>8 DEF BarInv

\* The steps that leave the bars, the passes and the clock alone.
BarsAlone == UNCHANGED <<firstPass, minute_bars, minute, lastPass, mishaps>>

\* Discovery and the dashboard change the list: a symbol counts on while it is listed.
LEMMA ListStep ==
    ASSUME BarInv, Market!StepDiscover \/ \E s \in Stocks : Market!InjectSymbol(s)
    PROVE  BarInv'
<1>1. BarsAlone
  BY DEF Market!StepDiscover, Market!InjectSymbol, BarsAlone
<1>2. /\ since' \in [Stocks -> Nat]
      /\ \A s \in Stocks : since'[s] # 0 =>
          since'[s] = since[s] /\ s \in Market!Range(list')
  <2>1. Market!WhileListed
    BY DEF Market!StepDiscover, Market!InjectSymbol
  <2>2. PICK names : names = Market!Range(list')
    OBVIOUS
  <2>3. since' = [s \in Stocks |-> IF s \in names THEN since[s] ELSE 0]
    BY <2>1, <2>2 DEF Market!WhileListed
  <2> QED BY <2>2, <2>3 DEF BarInv, BarTypes
<1>3. BarTypes'
  BY <1>1, <1>2 DEF BarsAlone, BarInv, BarTypes
<1> QED BY <1>1, <1>2, <1>3 DEF BarsAlone, BarInv

\* A minute passes, within the window of the last pass.
LEMMA MinuteStep == BarInv /\ Market!MinutePasses => BarInv'
<1> SUFFICES ASSUME BarInv, Market!MinutePasses PROVE BarInv'
  OBVIOUS
<1>1. /\ UNCHANGED <<firstPass, minute_bars, lastPass, since, list, mishaps>>
      /\ minute' = minute + 1 /\ (firstPass \/ minute < lastPass + Refresh)
  BY DEF Market!MinutePasses
<1>2. BarTypes'
  BY <1>1 DEF BarInv, BarTypes
<1>3. ~firstPass' => minute' <= lastPass' + Refresh
  BY <1>1, BarConstants DEF BarInv, BarTypes
<1> QED BY <1>1, <1>2, <1>3 DEF BarInv

\* Each step of the market data keeps the invariant.
LEMMA BarStep == BarInv /\ Market!Next => BarInv'
<1> SUFFICES ASSUME BarInv, Market!Next PROVE BarInv'
  OBVIOUS
<1>1. CASE Market!BootBackfill \/ Market!StepArm
  <2>1. UNCHANGED <<firstPass, minute_bars, minute, lastPass, mishaps, since, list>>
    BY <1>1 DEF Market!BootBackfill, Market!StepArm
  <2> QED BY <2>1 DEF BarInv, BarTypes
<1>2. CASE Market!ProcessRestarts
  <2>1. /\ firstPass' = TRUE /\ lastPass' = 0 /\ since' = [s \in Stocks |-> 0]
        /\ UNCHANGED <<minute_bars, minute>>
    BY <1>2 DEF Market!ProcessRestarts
  <2>2. BarTypes' /\ \A s \in Stocks : since'[s] = 0
    BY <2>1 DEF BarInv, BarTypes
  <2> QED BY <2>1, <2>2 DEF BarInv
<1> QED BY <1>1, <1>2, IngestStep, ListStep, MinuteStep DEF Market!Next

\* Another part's steps leave the bars alone.
LEMMA BarStill == BarInv /\ UNCHANGED barVars => BarInv'
  BY DEF BarInv, barVars, BarTypes

\* The invariant of the bars holds at the start and after each step.
LEMMA BarInvHolds == StoresSpec => []BarInv
<1>1. StoresInit => BarInv
  BY BarStart DEF StoresInit
<1>2. BarInv /\ [StoresNext]_storesVars => BarInv'
  BY PartsMove, BarStep, BarStill
<1> QED BY <1>1, <1>2, PTL DEF StoresSpec

\* What the invariant says of the bars.
LEMMA BarsWhole == BarInv => Market!BarsWhole
  BY DEF BarInv, Market!BarsWhole

\* While no process dies and no undo is refused, a headline with a row has one for each of its
\* tickers, each with its event and one verdict, whatever statements fail (enrich_recent_news);
\* and while requests are answered a listed symbol has its bars (ingest_live_minute_bars).
THEOREM RowsWholeAlways == StoresSpec => []RowsWhole
  BY BarInvHolds, BarsWhole, NewsInvHolds, HeadlinesWhole, PTL DEF RowsWhole

-----------------------------------------------------------------------------
(* The watcher *)

FlowTypes ==
    /\ states \in [WatchNames -> Watcher!States \cup {"none"}]
    /\ logged \in [WatchNames -> Watcher!States \cup {"none"}]
    /\ signals \in [WatchNames -> Nat]
    /\ extra \subseteq WatchNames /\ torn \subseteq WatchNames
    /\ queue \in Seq(WatchNames)
    /\ at \in {"idle", "known", "bars", "judged", "signal"}
    /\ at = "idle" <=> queue = <<>>
    /\ at = "judged" => verdict \in {"ready", "blocked", "late"}

\* The readers of the log see of a symbol what the watcher holds of it.
Seen(s) == logged[s] = states[s] /\ signals[s] = (IF states[s] = "ready" THEN 1 ELSE 0)

\* Between the state's event and the signal of a visit the signal alone is missing.
AtSignal(s) ==
    /\ at = "signal" /\ s = Head(queue)
    /\ s \notin torn /\ states[s] = "ready" /\ logged[s] = "ready" /\ signals[s] = 0

FlowInv ==
    /\ FlowTypes
    /\ \A s \in WatchNames :
        /\ signals[s] <= 1 /\ (logged[s] = "none" => signals[s] = 0)
        /\ s \in torn \/ Seen(s) \/ AtSignal(s)
    /\ at = "signal" => AtSignal(Head(queue))

\* What the assumption says of the watcher's constants.
LEMMA FlowConstants ==
    /\ IsFiniteSet(WatchNames) /\ Injectable \subseteq WatchNames
    /\ RowLimit \in Nat /\ MaxSymbols \in Nat \ {0}
<1>1. Watcher!FlowAssumption
  BY StoresAssumption DEF StoresAssumption
<1>2. Watcher!IsFiniteSet(WatchNames) <=> IsFiniteSet(WatchNames)
  BY Zenon DEF Watcher!IsFiniteSet, IsFiniteSet
<1> QED BY <1>1, <1>2 DEF Watcher!FlowAssumption

\* The watcher starts with nothing known.
LEMMA FlowStart == Watcher!Init => FlowInv
<1> SUFFICES ASSUME Watcher!Init PROVE FlowInv
  OBVIOUS
<1>1. \A s \in WatchNames : states[s] = "none" /\ logged[s] = "none" /\ signals[s] = 0
  BY DEF Watcher!Init
<1>2. FlowTypes
  BY FlowConstants DEF Watcher!Init, FlowTypes
<1>3. at = "idle"
  BY DEF Watcher!Init
<1> QED BY <1>1, <1>2, <1>3 DEF FlowInv, Seen

\* The visit is of a symbol, and there may be others behind it.
LEMMA VisitedIs ==
    ASSUME FlowTypes, at # "idle"
    PROVE  Head(queue) \in WatchNames /\ Tail(queue) \in Seq(WatchNames)
<1>1. queue \in Seq(WatchNames) /\ queue # <<>>
  BY DEF FlowTypes
<1> QED BY <1>1, HeadTailProperties

\* A visit's step is about its symbol, and ends the visit or goes on with it.
VisitStep(t) ==
    /\ at # "idle" /\ t = Head(queue)
    /\ \A u \in WatchNames \ {t} :
        /\ states'[u] = states[u] /\ logged'[u] = logged[u] /\ signals'[u] = signals[u]
        /\ u \in torn' <=> u \in torn
    /\ signals'[t] <= 1 /\ (logged'[t] = "none" => signals'[t] = 0)
    /\ at' = "signal" => AtSignal(t)' /\ queue' = queue
    /\ at' # "signal" => t \in torn' \/ Seen(t)'

\* Such a step keeps the invariant.
LEMMA VisitKeeps ==
    ASSUME FlowInv, FlowTypes', NEW t, VisitStep(t) PROVE FlowInv'
<1>1. t = Head(queue)
  BY DEF VisitStep
<1>2. /\ t \in WatchNames
      /\ \A u \in WatchNames \ {t} :
          /\ states'[u] = states[u] /\ logged'[u] = logged[u] /\ signals'[u] = signals[u]
          /\ u \in torn' <=> u \in torn
      /\ signals'[t] <= 1 /\ (logged'[t] = "none" => signals'[t] = 0)
      /\ at' = "signal" => AtSignal(t)' /\ queue' = queue
      /\ at' # "signal" => t \in torn' \/ Seen(t)'
  <2>1. t \in WatchNames
    BY <1>1, VisitedIs DEF VisitStep, FlowInv
  <2>2. /\ \A u \in WatchNames \ {t} :
            /\ states'[u] = states[u] /\ logged'[u] = logged[u] /\ signals'[u] = signals[u]
            /\ u \in torn' <=> u \in torn
        /\ signals'[t] <= 1 /\ (logged'[t] = "none" => signals'[t] = 0)
    BY <1>1 DEF VisitStep
  <2>3. /\ at' = "signal" => AtSignal(t)' /\ queue' = queue
        /\ at' # "signal" => t \in torn' \/ Seen(t)'
    BY <1>1 DEF VisitStep, AtSignal, Seen
  <2> QED BY <2>1, <2>2, <2>3
<1>3. ASSUME NEW u \in WatchNames \ {t}
      PROVE  /\ signals'[u] <= 1 /\ (logged'[u] = "none" => signals'[u] = 0)
             /\ u \in torn' \/ Seen(u)'
  BY <1>1, <1>2 DEF FlowInv, Seen, AtSignal
<1>4. ASSUME NEW u \in WatchNames
      PROVE  /\ signals'[u] <= 1 /\ (logged'[u] = "none" => signals'[u] = 0)
             /\ u \in torn' \/ Seen(u)' \/ AtSignal(u)'
  <2>1. CASE u = t
    BY <1>2, <2>1
  <2>2. CASE u # t
    BY <1>3, <2>2
  <2> QED BY <2>1, <2>2
<1>5. at' = "signal" => AtSignal(Head(queue))'
  BY <1>1, <1>2
<1> QED BY <1>4, <1>5 DEF FlowInv

\* _transition to a state, before the signal.
LEMMA TransitionDoes ==
    ASSUME FlowInv, at \in {"known", "bars", "judged"}, NEW n \in Watcher!States, NEW ok,
           NEW t, t = Head(queue), Watcher!Transition(n, ok)
    PROVE  /\ states' \in [WatchNames -> Watcher!States \cup {"none"}]
           /\ logged' \in [WatchNames -> Watcher!States \cup {"none"}]
           /\ signals' \in [WatchNames -> Nat]
           /\ torn' \subseteq WatchNames
           /\ \A u \in WatchNames \ {t} :
               /\ states'[u] = states[u] /\ logged'[u] = logged[u] /\ signals'[u] = signals[u]
               /\ u \in torn' <=> u \in torn
           /\ signals'[t] <= 1 /\ (logged'[t] = "none" => signals'[t] = 0)
           /\ n # "ready" => t \in torn' \/ Seen(t)'
           /\ states[t] # n /\ ok =>
                 t \notin torn' /\ states'[t] = n /\ logged'[t] = n /\ signals'[t] = 0
           /\ states[t] # n /\ ~ok => t \in torn'
<1>1. t = Head(queue)
  OBVIOUS
<1>2. t \in WatchNames /\ FlowTypes
  BY <1>1, VisitedIs DEF FlowInv
<1>3. "none" \notin Watcher!States
  BY DEF Watcher!States
<1>4. /\ signals[t] <= 1 /\ (logged[t] = "none" => signals[t] = 0)
      /\ t \in torn \/ Seen(t)
  BY <1>2 DEF FlowInv, AtSignal
<1>5. states' = [states EXCEPT ![t] = n] /\ states' \in [WatchNames -> Watcher!States \cup {"none"}]
  BY <1>1, <1>2 DEF Watcher!Transition, Watcher!Visited, FlowTypes
<1>6. CASE states[t] = n
  <2>1. UNCHANGED <<logged, signals, torn>>
    BY <1>1, <1>6 DEF Watcher!Transition, Watcher!Visited
  <2>2. states'[t] = states[t] /\ \A u \in WatchNames \ {t} : states'[u] = states[u]
    BY <1>2, <1>5, <1>6 DEF FlowTypes
  <2>3. t \in torn' \/ Seen(t)'
    BY <1>4, <2>1, <2>2 DEF Seen
  <2> QED BY <1>1, <1>2, <1>4, <1>5, <1>6, <2>1, <2>2, <2>3 DEF FlowTypes
<1>7. CASE states[t] # n /\ ok
  <2>1. /\ logged' = [logged EXCEPT ![t] = n] /\ signals' = [signals EXCEPT ![t] = 0]
        /\ torn' = torn \ {t}
    BY <1>1, <1>7 DEF Watcher!Transition, Watcher!Visited, Watcher!Logged
  <2>2. /\ states'[t] = n /\ logged'[t] = n /\ signals'[t] = 0 /\ t \notin torn'
        /\ \A u \in WatchNames \ {t} :
            /\ states'[u] = states[u] /\ logged'[u] = logged[u] /\ signals'[u] = signals[u]
            /\ u \in torn' <=> u \in torn
    BY <1>2, <1>5, <2>1 DEF FlowTypes
  <2>3. /\ logged' \in [WatchNames -> Watcher!States \cup {"none"}]
        /\ signals' \in [WatchNames -> Nat] /\ torn' \subseteq WatchNames
    BY <1>2, <2>1 DEF FlowTypes
  <2>4. n # "ready" => Seen(t)'
    BY <2>2 DEF Seen
  <2>5. signals'[t] <= 1 /\ logged'[t] # "none"
    BY <1>3, <2>2
  <2> QED BY <1>1, <1>5, <1>7, <2>2, <2>3, <2>4, <2>5
<1>8. CASE states[t] # n /\ ~ok
  <2>1. torn' = torn \cup {t} /\ UNCHANGED <<logged, signals>>
    BY <1>1, <1>8 DEF Watcher!Transition, Watcher!Visited
  <2>2. \A u \in WatchNames \ {t} : states'[u] = states[u]
    BY <1>2, <1>5 DEF FlowTypes
  <2> QED BY <1>1, <1>2, <1>4, <1>5, <1>8, <2>1, <2>2 DEF FlowTypes
<1> QED BY <1>6, <1>7, <1>8

\* The smaller of two.
LEMMA SmallerOfTwo ==
    ASSUME NEW a \in Nat, NEW b \in Nat
    PROVE  Watcher!Min({a, b}) \in {a, b} /\ Watcher!Min({a, b}) <= b
<1>1. \E x \in {a, b} : \A y \in {a, b} : x =< y
  OBVIOUS
<1> QED BY <1>1, Zenon DEF Watcher!Min

\* The beginning of a list of symbols is one.
LEMMA Beginning ==
    ASSUME NEW q \in Seq(WatchNames), NEW n \in Nat
    PROVE  SubSeq(q, 1, Watcher!Min({n, Len(q)})) \in Seq(WatchNames)
<1>1. Len(q) \in Nat
  OBVIOUS
<1>2. PICK m : m = Watcher!Min({n, Len(q)})
  OBVIOUS
<1>3. m \in Nat /\ m <= Len(q)
  BY <1>1, <1>2, SmallerOfTwo
<1>4. \A i \in 1 .. m : q[i] \in WatchNames
  BY <1>1, <1>3
<1>5. SubSeq(q, 1, m) \in Seq(WatchNames)
  <2>1. 1 \in Int /\ m \in Int
    BY <1>3
  <2> QED BY <1>4, <2>1, SubSeqProperties
<1> QED BY <1>2, <1>5

\* The symbols of a set in some order are a list of symbols.
LEMMA OrderedNames ==
    ASSUME NEW S \in SUBSET WatchNames
    PROVE  /\ Watcher!SetToSeq(S) \in Seq(WatchNames)
           /\ \A q \in Watcher!SetToSeqs(S) : q \in Seq(WatchNames)
<1>1. IsFiniteSet(S)
  BY FlowConstants, FS_Subset
<1>2. Cardinality(S) \in Nat /\ ExistsBijection(1 .. Cardinality(S), S)
  BY <1>1, FS_CardinalityType
<1>3. Watcher!Cardinality(S) = Cardinality(S)
  BY Zenon DEF Watcher!Cardinality, Cardinality
<1>4. PICK n : n = Cardinality(S)
  OBVIOUS
<1>5. \E f \in [1 .. n -> S] : Watcher!IsInjective(f)
  BY <1>2, <1>4 DEF ExistsBijection, Bijection, Injection, IsInjective, Watcher!IsInjective
<1>6. Watcher!SetToSeq(S) \in [1 .. n -> S]
  BY <1>3, <1>4, <1>5, Zenon DEF Watcher!SetToSeq
<1>7. \A q \in Watcher!SetToSeqs(S) : q \in [1 .. n -> S]
  BY <1>3, <1>4 DEF Watcher!SetToSeqs
<1>8. \A q \in [1 .. n -> S] : q \in Seq(WatchNames)
  BY <1>2, <1>4
<1> QED BY <1>6, <1>7, <1>8

\* The candidates are symbols of the run.
LEMMA CandidatesAre ==
    ASSUME FlowTypes, NEW inBand \in SUBSET WatchNames, NEW o \in Watcher!Candidates(inBand)
    PROVE  o \in Seq(WatchNames)
<1>1. PICK rows \in Watcher!SessionRows(inBand) :
        o = rows \o Watcher!SetToSeq(extra \ Watcher!Range(rows))
  BY DEF Watcher!Candidates
<1>2. PICK q \in Watcher!SetToSeqs({s \in inBand : bars[s] > 0}) :
        rows = SubSeq(q, 1, Watcher!Min({RowLimit, Len(q)}))
  BY DEF Watcher!SessionRows
<1>3. q \in Seq(WatchNames)
  BY OrderedNames
<1>4. rows \in Seq(WatchNames)
  BY <1>2, <1>3, FlowConstants, Beginning
<1>5. Watcher!SetToSeq(extra \ Watcher!Range(rows)) \in Seq(WatchNames)
  <2>1. extra \ Watcher!Range(rows) \in SUBSET WatchNames
    BY DEF FlowTypes
  <2> QED BY <2>1, OrderedNames
<1> QED BY <1>1, <1>4, <1>5, ConcatProperties


\* A tick takes its candidates.
LEMMA TickStep == FlowInv /\ (Watcher!TickStart \/ Watcher!TickWithout) => FlowInv'
<1> SUFFICES ASSUME FlowInv, Watcher!TickStart \/ Watcher!TickWithout PROVE FlowInv'
  OBVIOUS
<1>1. /\ UNCHANGED <<states, extra, logged, signals, torn, verdict>> /\ at = "idle"
      /\ queue = <<>>
  BY DEF Watcher!TickStart, Watcher!TickWithout, FlowInv, FlowTypes
<1>2. queue' \in Seq(WatchNames)
  <2>1. CASE Watcher!TickStart
    <3>1. PICK inBand \in SUBSET WatchNames : \E o \in Watcher!Candidates(inBand) :
            queue' = SubSeq(o, 1, Watcher!Min({MaxSymbols, Len(o)}))
      BY <2>1 DEF Watcher!TickStart
    <3>0. PICK o \in Watcher!Candidates(inBand) :
            queue' = SubSeq(o, 1, Watcher!Min({MaxSymbols, Len(o)}))
      BY <3>1
    <3>2. o \in Seq(WatchNames)
      BY CandidatesAre DEF FlowInv
    <3> QED BY <3>0, <3>2, FlowConstants, Beginning
  <2>2. CASE Watcher!TickWithout
    BY <2>2 DEF Watcher!TickWithout, FlowInv, FlowTypes
  <2> QED BY <2>1, <2>2
<1>3. at' \in {"idle", "known"} /\ (at' = "idle" <=> queue' = <<>>)
  BY <1>1 DEF Watcher!TickStart, Watcher!TickWithout
<1>4. FlowTypes'
  BY <1>1, <1>2, <1>3 DEF FlowInv, FlowTypes
<1>5. \A s \in WatchNames : Seen(s)' = Seen(s) /\ ~AtSignal(s)
  BY <1>1 DEF Seen, AtSignal
<1> QED BY <1>1, <1>3, <1>4, <1>5 DEF FlowInv

\* Steps around a tick that touch neither the states nor the log.
LEMMA AroundStep ==
    ASSUME FlowInv,
           \/ \E s \in WatchNames : Watcher!Inject(s) \/ Watcher!Ingest(s)
           \/ Watcher!NewDate
    PROVE  FlowInv'
<1>1. /\ UNCHANGED <<states, queue, at, verdict, logged, signals, torn>>
      /\ extra' \subseteq WatchNames
  BY FlowConstants DEF Watcher!Inject, Watcher!Ingest, Watcher!NewDate, FlowInv, FlowTypes
<1>2. FlowTypes'
  BY <1>1 DEF FlowInv, FlowTypes
<1> QED BY <1>1, <1>2 DEF FlowInv, Seen, AtSignal

\* A watcher that is started again knows nothing; what the log says was torn from it.
LEMMA RestartStep == FlowInv /\ Watcher!Die => FlowInv'
<1> SUFFICES ASSUME FlowInv, Watcher!Die PROVE FlowInv'
  OBVIOUS
<1>1. /\ states' = [s \in WatchNames |-> "none"] /\ extra' = {}
      /\ torn' = {s \in WatchNames : logged[s] # "none"}
      /\ queue' = <<>> /\ at' = "idle" /\ UNCHANGED <<logged, signals>>
  BY DEF Watcher!Die
<1>2. FlowTypes'
  BY <1>1 DEF FlowInv, FlowTypes
<1>3. \A s \in WatchNames : s \in torn' \/ Seen(s)'
  BY <1>1 DEF FlowInv, Seen
<1> QED BY <1>1, <1>2, <1>3 DEF FlowInv

\* Where a visit's step leaves the queue.
Onward ==
    \/ at' \in {"bars", "judged", "signal"} /\ queue' = queue
    \/ /\ queue' \in Seq(WatchNames) /\ at' \in {"idle", "known"}
       /\ at' = "idle" <=> queue' = <<>>

\* The next symbol, and the next step of a visit, leave it so.
LEMMA OnwardIs ==
    ASSUME FlowTypes, at # "idle",
           Watcher!NextSymbol \/ \E w \in {"bars", "judged", "signal"} : Watcher!Proceed(w)
    PROVE  Onward /\ (Watcher!NextSymbol => at' \in {"idle", "known"})
<1>1. CASE Watcher!NextSymbol
  <2>1. queue' = Tail(queue) /\ at' = IF queue' = <<>> THEN "idle" ELSE "known"
    BY <1>1 DEF Watcher!NextSymbol
  <2> QED BY <2>1, VisitedIs DEF Onward
<1>2. CASE /\ ~Watcher!NextSymbol
           /\ \E w \in {"bars", "judged", "signal"} : Watcher!Proceed(w)
  BY <1>2 DEF Watcher!Proceed, Onward
<1> QED BY <1>1, <1>2

\* A step of a visit keeps the types.
LEMMA OnwardTypes ==
    ASSUME FlowTypes, at # "idle", Onward, extra' = extra, torn' \subseteq WatchNames,
           states' \in [WatchNames -> Watcher!States \cup {"none"}],
           logged' \in [WatchNames -> Watcher!States \cup {"none"}],
           signals' \in [WatchNames -> Nat],
           at' = "judged" => verdict' \in {"ready", "blocked", "late"}
    PROVE  FlowTypes'
  BY DEF FlowTypes, Onward


\* A visit is cut short: its symbol is torn.
LEMMA AbandonStep ==
    ASSUME FlowInv, at # "idle", Watcher!Abandon, UNCHANGED <<states, logged, signals, extra>>
    PROVE  FlowInv'
<1>1. PICK t : t = Head(queue)
  OBVIOUS
<1>2. t \in WatchNames /\ FlowTypes
  BY <1>1, VisitedIs DEF FlowInv
<1>3. Watcher!NextSymbol /\ torn' = torn \cup {t}
  BY <1>1 DEF Watcher!Abandon, Watcher!Visited
<1>4. Onward /\ at' \in {"idle", "known"}
  BY <1>2, <1>3, OnwardIs
<1>5. FlowTypes'
  BY <1>2, <1>3, <1>4, OnwardTypes DEF FlowTypes
<1>6. signals[t] <= 1 /\ (logged[t] = "none" => signals[t] = 0)
  BY <1>2 DEF FlowInv
<1>7. VisitStep(t)
  BY <1>1, <1>3, <1>4, <1>6 DEF VisitStep
<1> QED BY <1>5, <1>7, VisitKeeps

\* A transition to a state that has no signal.
LEMMA MovedStep ==
    ASSUME FlowInv, at \in {"known", "bars", "judged"}, extra' = extra,
           NEW n \in Watcher!States \ {"ready"}, NEW ok, Watcher!Transition(n, ok),
           Watcher!NextSymbol \/ Watcher!Proceed("bars")
    PROVE  FlowInv'
<1>1. PICK t : t = Head(queue)
  OBVIOUS
<1>2. t \in WatchNames /\ FlowTypes
  BY <1>1, VisitedIs DEF FlowInv
<1>3. Onward /\ at' \in {"idle", "known", "bars"}
  <2>1. CASE Watcher!Proceed("bars")
    BY <2>1 DEF Onward, Watcher!Proceed
  <2>2. CASE Watcher!NextSymbol
    BY <1>2, <2>2, OnwardIs
  <2> QED BY <2>1, <2>2
<1>4. /\ states' \in [WatchNames -> Watcher!States \cup {"none"}]
      /\ logged' \in [WatchNames -> Watcher!States \cup {"none"}]
      /\ signals' \in [WatchNames -> Nat]
      /\ torn' \subseteq WatchNames
      /\ \A u \in WatchNames \ {t} :
          /\ states'[u] = states[u] /\ logged'[u] = logged[u] /\ signals'[u] = signals[u]
          /\ u \in torn' <=> u \in torn
      /\ signals'[t] <= 1 /\ (logged'[t] = "none" => signals'[t] = 0)
      /\ t \in torn' \/ Seen(t)'
  BY <1>1, TransitionDoes
<1>5. FlowTypes'
  BY <1>2, <1>3, <1>4, OnwardTypes
<1>6. VisitStep(t)
  BY <1>1, <1>3, <1>4 DEF VisitStep
<1> QED BY <1>5, <1>6, VisitKeeps

\* The visit goes on, or ends, with its symbol as it was.
LEMMA PassedStep ==
    ASSUME FlowInv, at \in {"known", "bars", "judged"}, at' # "signal", Onward,
           UNCHANGED <<states, logged, signals, torn, extra>>,
           at' = "judged" => verdict' \in {"ready", "blocked", "late"}
    PROVE  FlowInv'
<1>1. PICK t : t = Head(queue)
  OBVIOUS
<1>2. t \in WatchNames /\ FlowTypes
  BY <1>1, VisitedIs DEF FlowInv
<1>3. signals[t] <= 1 /\ (logged[t] = "none" => signals[t] = 0) /\ (t \in torn \/ Seen(t))
  BY <1>2 DEF FlowInv, AtSignal
<1>4. FlowTypes'
  BY <1>2, OnwardTypes DEF FlowTypes
<1>5. t \in torn' \/ Seen(t)'
  BY <1>3 DEF Seen
<1>6. VisitStep(t)
  BY <1>1, <1>3, <1>5 DEF VisitStep
<1> QED BY <1>4, <1>6, VisitKeeps

\* The visit finds its symbol known, or discovers it.
LEMMA DiscoverStep ==
    ASSUME FlowInv, Watcher!Known \/ \E ok \in BOOLEAN : Watcher!Discover(ok) PROVE FlowInv'
<1>1. at = "known" /\ extra' = extra
  BY DEF Watcher!Known, Watcher!Discover
<1>2. CASE Watcher!Known
  <2>1. UNCHANGED <<states, logged, signals, torn, extra>> /\ at' = "bars" /\ Onward
    BY <1>2 DEF Watcher!Known, Watcher!Proceed, Onward
  <2> QED BY <1>1, <2>1, PassedStep
<1>3. ASSUME NEW ok \in BOOLEAN, Watcher!Discover(ok) PROVE FlowInv'
  <2>1. "watching" \in Watcher!States \ {"ready"}
    BY DEF Watcher!States
  <2>2. CASE Watcher!Abandon /\ UNCHANGED <<states, logged, signals>>
    BY <1>1, <2>2, AbandonStep
  <2>3. ASSUME NEW o \in BOOLEAN, Watcher!Transition("watching", o),
               Watcher!Proceed("bars") \/ Watcher!NextSymbol
        PROVE  FlowInv'
    BY <1>1, <2>1, <2>3, MovedStep
  <2> QED BY <1>3, <2>2, <2>3 DEF Watcher!Discover
<1> QED BY <1>2, <1>3

\* Too few bars, or an evaluation.
LEMMA EvaluateStep ==
    ASSUME FlowInv, NEW ok \in BOOLEAN,
           \/ Watcher!WaitForData(ok)
           \/ \E v \in Watcher!States \ {"watching"} : Watcher!Evaluate(v, ok)
    PROVE  FlowInv'
<1>1. at = "bars" /\ extra' = extra
  BY DEF Watcher!WaitForData, Watcher!Evaluate
<1>2. CASE Watcher!WaitForData(ok)
  <2>1. "watching" \in Watcher!States \ {"ready"}
    BY DEF Watcher!States
  <2>2. Watcher!Transition("watching", ok) /\ Watcher!NextSymbol
    BY <1>2 DEF Watcher!WaitForData
  <2> QED BY <1>1, <2>1, <2>2, MovedStep
<1>3. ASSUME NEW v \in Watcher!States \ {"watching"}, Watcher!Evaluate(v, ok) PROVE FlowInv'
  <2>1. UNCHANGED <<states, logged, signals>>
    BY <1>3 DEF Watcher!Evaluate
  <2>2. CASE Watcher!Abandon
    BY <1>1, <2>1, <2>2, AbandonStep
  <2>3. CASE verdict' = v /\ Watcher!Proceed("judged") /\ UNCHANGED torn
    <3>1. verdict' \in {"ready", "blocked", "late"}
      BY <2>3 DEF Watcher!States
    <3>2. Onward /\ at' = "judged"
      BY <2>3 DEF Onward, Watcher!Proceed
    <3> QED BY <1>1, <2>1, <2>3, <3>1, <3>2, PassedStep
  <2> QED BY <1>3, <2>2, <2>3 DEF Watcher!Evaluate
<1> QED BY <1>2, <1>3

\* What the verdict makes of the symbol.
LEMMA VerdictStep ==
    ASSUME FlowInv, NEW ok \in BOOLEAN,
           Watcher!StaysReady \/ Watcher!NotReady(ok) \/ Watcher!BecomesReady(ok)
    PROVE  FlowInv'
<1>1. /\ at = "judged" /\ extra' = extra /\ verdict' = verdict
      /\ verdict \in {"ready", "blocked", "late"} /\ FlowTypes
  BY DEF Watcher!StaysReady, Watcher!NotReady, Watcher!BecomesReady, FlowInv, FlowTypes
<1>2. CASE Watcher!StaysReady
  <2>1. UNCHANGED <<states, logged, signals, torn, extra>> /\ Watcher!NextSymbol
    BY <1>2 DEF Watcher!StaysReady
  <2>2. Onward /\ at' \in {"idle", "known"}
    BY <1>1, <2>1, OnwardIs
  <2> QED BY <1>1, <2>1, <2>2, PassedStep
<1>3. CASE Watcher!NotReady(ok)
  <2>1. verdict \in Watcher!States \ {"ready"}
    BY <1>1, <1>3 DEF Watcher!NotReady, Watcher!States
  <2>2. Watcher!Transition(verdict, ok) /\ Watcher!NextSymbol
    BY <1>3 DEF Watcher!NotReady
  <2> QED BY <1>1, <2>1, <2>2, MovedStep
<1>4. CASE Watcher!BecomesReady(ok)
  <2>1. PICK t : t = Head(queue)
    OBVIOUS
  <2>2. states[t] # "ready" /\ Watcher!Transition("ready", ok) /\ "ready" \in Watcher!States
    BY <1>4, <2>1 DEF Watcher!BecomesReady, Watcher!Visited, Watcher!States
  <2>3. /\ states' \in [WatchNames -> Watcher!States \cup {"none"}]
        /\ logged' \in [WatchNames -> Watcher!States \cup {"none"}]
        /\ signals' \in [WatchNames -> Nat]
        /\ torn' \subseteq WatchNames
        /\ \A u \in WatchNames \ {t} :
            /\ states'[u] = states[u] /\ logged'[u] = logged[u] /\ signals'[u] = signals[u]
            /\ u \in torn' <=> u \in torn
        /\ signals'[t] <= 1 /\ (logged'[t] = "none" => signals'[t] = 0)
        /\ ok => t \notin torn' /\ states'[t] = "ready" /\ logged'[t] = "ready" /\ signals'[t] = 0
        /\ ~ok => t \in torn'
    BY <1>1, <2>1, <2>2, TransitionDoes
  <2>4. CASE ok
    <3>1. at' = "signal" /\ queue' = queue
      BY <1>4, <2>4 DEF Watcher!BecomesReady, Watcher!Proceed
    <3>2. FlowTypes'
      BY <1>1, <2>3, <3>1, OnwardTypes DEF Onward
    <3>3. AtSignal(t)'
      BY <2>1, <2>3, <2>4, <3>1 DEF AtSignal
    <3>4. VisitStep(t)
      BY <1>1, <2>1, <2>3, <3>1, <3>3 DEF VisitStep
    <3> QED BY <3>2, <3>4, VisitKeeps
  <2>5. CASE ~ok
    <3>1. Watcher!NextSymbol
      BY <1>4, <2>5 DEF Watcher!BecomesReady
    <3>2. Onward /\ at' \in {"idle", "known"}
      BY <1>1, <3>1, OnwardIs
    <3>3. FlowTypes'
      BY <1>1, <2>3, <3>2, OnwardTypes
    <3>4. VisitStep(t)
      BY <1>1, <2>1, <2>3, <2>5, <3>2 DEF VisitStep
    <3> QED BY <3>3, <3>4, VisitKeeps
  <2> QED BY <2>4, <2>5
<1> QED BY <1>2, <1>3, <1>4

\* The signal of a stay.
LEMMA SignalStep ==
    ASSUME FlowInv, NEW ok \in BOOLEAN, Watcher!Signal(ok) PROVE FlowInv'
<1>1. at = "signal" /\ UNCHANGED <<states, logged, extra>> /\ FlowTypes
  BY DEF Watcher!Signal, FlowInv
<1>2. CASE Watcher!Abandon /\ UNCHANGED signals
  BY <1>1, <1>2, AbandonStep
<1>3. CASE /\ signals' = [signals EXCEPT ![Watcher!Visited] = @ + 1]
           /\ Watcher!NextSymbol /\ UNCHANGED torn
  <2>1. PICK t : t = Head(queue)
    OBVIOUS
  <2>2. t \in WatchNames /\ AtSignal(t)
    BY <1>1, <2>1, VisitedIs DEF FlowInv
  <2>3. Onward /\ at' \in {"idle", "known"}
    BY <1>1, <1>3, OnwardIs
  <2>4. signals' = [signals EXCEPT ![t] = @ + 1]
    BY <1>3, <2>1 DEF Watcher!Visited
  <2>5. /\ signals' \in [WatchNames -> Nat] /\ signals'[t] = 1
        /\ \A u \in WatchNames \ {t} : signals'[u] = signals[u]
    BY <1>1, <2>2, <2>4 DEF FlowTypes, AtSignal
  <2>6. FlowTypes'
    BY <1>1, <1>3, <2>3, <2>5, OnwardTypes DEF FlowTypes
  <2>7. Seen(t)' /\ logged'[t] # "none"
    BY <1>1, <2>2, <2>5 DEF Seen, AtSignal
  <2>8. VisitStep(t)
    BY <1>1, <1>3, <2>1, <2>3, <2>5, <2>7 DEF VisitStep
  <2> QED BY <2>6, <2>8, VisitKeeps
<1> QED BY <1>2, <1>3 DEF Watcher!Signal

\* Each step of the watcher keeps its invariant.
LEMMA FlowStep == FlowInv /\ Watcher!Next => FlowInv'
<1>1. \A ok \in Watcher!Accepted : ok \in BOOLEAN
  BY DEF Watcher!Accepted
<1> QED BY <1>1, TickStep, AroundStep, RestartStep, DiscoverStep, EvaluateStep, VerdictStep,
      SignalStep DEF Watcher!Next

\* Another part's steps leave the watcher alone.
LEMMA FlowStill == FlowInv /\ UNCHANGED flowVars => FlowInv'
  BY DEF FlowInv, flowVars, FlowTypes, Seen, AtSignal

\* The watcher's invariant holds at the start and after each step.
LEMMA FlowInvHolds == StoresSpec => []FlowInv
<1>1. StoresInit => FlowInv
  BY FlowStart DEF StoresInit
<1>2. FlowInv /\ [StoresNext]_storesVars => FlowInv'
  BY PartsMove, FlowStep, FlowStill
<1> QED BY <1>1, <1>2, PTL DEF StoresSpec

\* Between two ticks no signal is missing.
LEMMA Signalled == FlowInv => Watcher!SignalPerStay
  BY DEF FlowInv, AtSignal, Seen, Watcher!SignalPerStay

-----------------------------------------------------------------------------
(* The notices *)

\* The notifier: an event it has pushed it has seen, and what the store held when its first
\* scan worked it had seen before.
NotifierInv ==
    /\ risks \in Seq(BOOLEAN) /\ before \in 0 .. Len(risks)
    /\ alerts \in [1 .. MaxRisks -> 0 .. 1]
    /\ \A i \in 1 .. MaxRisks : alerts[i] = 1 => i \in seen
    /\ primed =>
        /\ \A i \in Notices!Scanned : i <= before => i \in seen
        /\ \A i \in pushed : i > before

\* The bot that is never started again: it asks from its offset on, and what it has answered
\* is below that.
BotInv ==
    /\ offset \in Nat /\ confirmed \in Nat /\ questions \in Nat /\ batch \in Seq(Nat)
    /\ answers \in [1 .. MaxQuestions -> 0 .. 1]
    /\ \A i \in 1 .. Len(batch) : batch[i] >= offset
    /\ \A i, j \in 1 .. Len(batch) : i < j => batch[i] < batch[j]
    /\ \A q \in 1 .. MaxQuestions : answers[q] = 1 => q < offset

NoticeInv == NotifierInv /\ ("bot_dies" \notin ills => BotInv)

\* What the assumption says of the bounds.
LEMMA NoticeBounds == ScanLimit \in Nat /\ MaxRisks \in Nat /\ MaxQuestions \in Nat
  BY StoresAssumption DEF StoresAssumption, Notices!NoticesAssumption

\* The notifier and the bot start.
LEMMA NoticeStart == Notices!Init => NoticeInv
<1> SUFFICES ASSUME Notices!Init PROVE NoticeInv
  OBVIOUS
<1>1. risks \in Seq(BOOLEAN) /\ before = Len(risks) /\ Len(risks) \in Nat
  <2>1. risks = <<>> \/ risks = <<TRUE>>
    BY DEF Notices!Init
  <2>2. <<TRUE>> \in Seq(BOOLEAN) /\ <<>> \in Seq(BOOLEAN)
    BY OneElement, EmptySeq, Zenon
  <2>3. risks \in Seq(BOOLEAN)
    BY <2>1, <2>2, Zenon
  <2> QED BY <2>3 DEF Notices!Init
<1>2. NotifierInv
  <2>1. alerts \in [1 .. MaxRisks -> 0 .. 1] /\ \A i \in 1 .. MaxRisks : alerts[i] = 0
    BY DEF Notices!Init
  <2>2. pushed = {} /\ \A i \in Notices!Scanned : i \in seen
    BY DEF Notices!Init, Notices!Scanned
  <2> QED BY <1>1, <2>1, <2>2 DEF NotifierInv
<1>3. BotInv
  BY DEF Notices!Init, BotInv
<1> QED BY <1>2, <1>3 DEF NoticeInv

\* A risk event comes behind those there were.
LEMMA HappensStep ==
    ASSUME NotifierInv, NEW major \in BOOLEAN, Notices!Happens(major) PROVE NotifierInv'
<1>1. /\ risks' = Append(risks, major)
      /\ UNCHANGED <<seen, alerts, pushed, before, primed>>
  BY DEF Notices!Happens
<1>2. /\ risks' \in Seq(BOOLEAN) /\ Len(risks') = Len(risks) + 1 /\ Len(risks) \in Nat
      /\ \A i \in 1 .. Len(risks) : risks'[i] = risks[i]
  BY <1>1 DEF NotifierInv
<1>3. \A i \in Notices!Scanned' : i <= before => i \in Notices!Scanned
  BY <1>2 DEF Notices!Scanned, NotifierInv
<1> QED BY <1>1, <1>2, <1>3 DEF NotifierInv

\* A notifier that starts takes what it scans as seen.
LEMMA StartNotifierStep == NotifierInv /\ Notices!StartNotifier => NotifierInv'
<1> SUFFICES ASSUME NotifierInv, Notices!StartNotifier PROVE NotifierInv'
  OBVIOUS
<1>1. /\ risks' = risks /\ alerts' = [i \in 1 .. MaxRisks |-> 0] /\ pushed' = {}
      /\ before' = Len(risks) /\ Len(risks) \in Nat
      /\ (seen' = Notices!Scanned /\ primed' = TRUE) \/ (seen' = {} /\ primed' = FALSE)
  BY DEF Notices!StartNotifier, NotifierInv
<1>2. /\ alerts' \in [1 .. MaxRisks -> 0 .. 1]
      /\ \A i \in 1 .. MaxRisks : alerts'[i] = 0
  BY <1>1
<1>3. Notices!Scanned' = Notices!Scanned
  BY <1>1 DEF Notices!Scanned
<1> QED BY <1>1, <1>2, <1>3 DEF NotifierInv

\* A poll pushes what it has not seen.
LEMMA PollNotices == NotifierInv /\ Notices!Poll => NotifierInv'
<1> SUFFICES ASSUME NotifierInv, Notices!Poll PROVE NotifierInv'
  OBVIOUS
<1>1. PICK went : /\ went \subseteq Notices!NewOnes
                  /\ alerts' = [i \in DOMAIN alerts |->
                                  IF i \in went THEN alerts[i] + 1 ELSE alerts[i]]
  BY DEF Notices!Poll
<1>2. /\ UNCHANGED <<risks, before, primed>>
      /\ seen' = seen \cup Notices!NewOnes /\ pushed' = pushed \cup Notices!NewOnes
  BY DEF Notices!Poll
<1>3. ASSUME NEW i \in 1 .. MaxRisks
      PROVE  alerts'[i] \in 0 .. 1 /\ (alerts'[i] = 1 => i \in seen')
  <2>1. alerts'[i] = IF i \in went THEN alerts[i] + 1 ELSE alerts[i]
    BY <1>1 DEF NotifierInv
  <2>2. i \in went => alerts[i] = 0 /\ i \in seen'
    BY <1>1, <1>2 DEF NotifierInv, Notices!NewOnes
  <2> QED BY <1>2, <2>1, <2>2 DEF NotifierInv
<1>4. alerts' \in [1 .. MaxRisks -> 0 .. 1]
  BY <1>1, <1>3 DEF NotifierInv
<1>5. Notices!Scanned' = Notices!Scanned
  BY <1>2 DEF Notices!Scanned
<1>6. primed => \A i \in Notices!NewOnes : i > before
  BY DEF NotifierInv, Notices!NewOnes, Notices!Scanned
<1> QED BY <1>2, <1>3, <1>4, <1>5, <1>6 DEF NotifierInv

\* getUpdates answers what is not below the offset.
LEMMA GetUpdatesStep == BotInv /\ Notices!GetUpdates => BotInv'
<1> SUFFICES ASSUME BotInv, Notices!GetUpdates PROVE BotInv'
  OBVIOUS
<1>1. UNCHANGED <<questions, offset, answers>>
  BY DEF Notices!GetUpdates
<1>2. PICK c : c = confirmed'
  OBVIOUS
<1>3. c \in Nat /\ c >= offset - 1
  <2>1. c = Notices!Max({confirmed, offset - 1})
    BY <1>2 DEF Notices!GetUpdates
  <2>2. \E x \in {confirmed, offset - 1} : \A y \in {confirmed, offset - 1} : x >= y
    BY DEF BotInv
  <2>3. c \in {confirmed, offset - 1} /\ \A y \in {confirmed, offset - 1} : c >= y
    BY <2>1, <2>2, Zenon DEF Notices!Max
  <2> QED BY <2>3 DEF BotInv
<1>4. c < questions /\ batch' = [i \in 1 .. questions - c |-> c + i]
  BY <1>2 DEF Notices!GetUpdates
<1>5. questions - c \in Nat
  BY <1>3, <1>4 DEF BotInv
<1>6. batch' \in Seq(Nat) /\ Len(batch') = questions - c
  BY <1>3, <1>4, <1>5
<1>7. \A i \in 1 .. Len(batch') : batch'[i] = c + i
  BY <1>4, <1>6
<1>8. \A i \in 1 .. Len(batch') : batch'[i] >= offset'
  BY <1>1, <1>3, <1>5, <1>6, <1>7 DEF BotInv
<1>9. \A i, j \in 1 .. Len(batch') : i < j => batch'[i] < batch'[j]
  BY <1>3, <1>5, <1>6, <1>7
<1> QED BY <1>1, <1>2, <1>3, <1>6, <1>8, <1>9 DEF BotInv

\* An update is answered once the offset is behind it.
LEMMA AnswerStep == BotInv /\ Notices!Answer => BotInv'
<1> SUFFICES ASSUME BotInv, Notices!Answer PROVE BotInv'
  OBVIOUS
<1>1. /\ batch # <<>> /\ batch' = Tail(batch) /\ offset' = Head(batch) + 1
      /\ UNCHANGED <<questions, confirmed>>
      /\ \/ answers' = [answers EXCEPT ![Head(batch)] = @ + 1]
         \/ UNCHANGED answers
  BY DEF Notices!Answer
<1>2. PICK h : h = Head(batch)
  OBVIOUS
<1>3. /\ Len(batch) \in Nat /\ Len(batch) > 0 /\ h = batch[1] /\ h \in Nat /\ h >= offset
      /\ batch' \in Seq(Nat) /\ Len(batch') = Len(batch) - 1
      /\ \A i \in 1 .. Len(batch') : batch'[i] = batch[i + 1]
  BY <1>1, <1>2, HeadTailProperties DEF BotInv
<1>4. ASSUME NEW i \in 1 .. Len(batch') PROVE batch'[i] > h
  <2>1. 1 \in 1 .. Len(batch) /\ i + 1 \in 1 .. Len(batch) /\ 1 < i + 1
    BY <1>3
  <2>2. batch[1] < batch[i + 1] /\ batch'[i] = batch[i + 1] /\ batch[i + 1] \in Nat
    BY <1>3, <2>1 DEF BotInv
  <2> QED BY <1>3, <2>2
<1>5. ASSUME NEW i \in 1 .. Len(batch'), NEW j \in 1 .. Len(batch'), i < j
      PROVE  batch'[i] < batch'[j]
  <2>1. i + 1 \in 1 .. Len(batch) /\ j + 1 \in 1 .. Len(batch) /\ i + 1 < j + 1
    BY <1>3, <1>5
  <2>2. batch[i + 1] < batch[j + 1]
    BY <2>1 DEF BotInv
  <2> QED BY <1>3, <2>2
<1>6. offset' = h + 1 /\ offset' \in Nat
  BY <1>1, <1>2, <1>3
<1>7. /\ answers' \in [1 .. MaxQuestions -> 0 .. 1]
      /\ \A q \in 1 .. MaxQuestions : answers'[q] = 1 => q < offset'
  <2>1. h \in 1 .. MaxQuestions => answers[h] = 0
    BY <1>3 DEF BotInv
  <2>2. CASE answers' = [answers EXCEPT ![h] = @ + 1]
    <3>1. ASSUME NEW q \in 1 .. MaxQuestions
          PROVE  /\ answers'[q] = IF q = h THEN answers[q] + 1 ELSE answers[q]
                 /\ answers'[q] \in 0 .. 1
      BY <2>1, <2>2 DEF BotInv
    <3>2. answers' \in [1 .. MaxQuestions -> 0 .. 1]
      BY <2>2, <3>1 DEF BotInv
    <3>3. ASSUME NEW q \in 1 .. MaxQuestions, answers'[q] = 1 PROVE q < offset'
      <4>1. q = h \/ q < offset
        BY <3>1, <3>3 DEF BotInv
      <4> QED BY <1>3, <1>6, <4>1 DEF BotInv
    <3> QED BY <3>2, <3>3
  <2>3. CASE UNCHANGED answers
    BY <1>3, <1>6, <2>3, NoticeBounds DEF BotInv
  <2> QED BY <1>1, <1>2, <2>2, <2>3
<1>8. \A i \in 1 .. Len(batch') : batch'[i] >= offset'
  BY <1>3, <1>4, <1>6
<1>9. questions' \in Nat /\ confirmed' \in Nat
  BY <1>1 DEF BotInv
<1> QED BY <1>3, <1>5, <1>6, <1>7, <1>8, <1>9 DEF BotInv

\* Each step of the notifier and of the bot keeps the invariant.
LEMMA NoticeStep == NoticeInv /\ Notices!Next => NoticeInv'
<1> SUFFICES ASSUME NoticeInv, Notices!Next PROVE NoticeInv'
  OBVIOUS
<1>1. CASE /\ \/ \E major \in BOOLEAN : Notices!Happens(major)
              \/ Notices!StartNotifier \/ Notices!Poll
           /\ UNCHANGED <<questions, confirmed, batch, offset, answers, ills>>
  <2>1. NotifierInv'
    BY <1>1, HappensStep, StartNotifierStep, PollNotices DEF NoticeInv
  <2>2. "bot_dies" \notin ills' => BotInv'
    BY <1>1 DEF NoticeInv, BotInv
  <2> QED BY <2>1, <2>2 DEF NoticeInv
<1>2. CASE /\ Notices!Ask \/ Notices!GetUpdates \/ Notices!Answer \/ Notices!BotDies
           /\ UNCHANGED <<risks, seen, alerts, pushed, before, primed, ills>>
  <2>1. NotifierInv'
    BY <1>2 DEF NoticeInv, NotifierInv, Notices!Scanned
  <2>2. ASSUME "bot_dies" \notin ills PROVE BotInv'
    <3>1. BotInv
      BY <2>2 DEF NoticeInv
    <3>2. CASE Notices!Ask
      BY <3>1, <3>2 DEF Notices!Ask, BotInv
    <3>3. ~Notices!BotDies
      BY <2>2 DEF Notices!BotDies
    <3> QED BY <1>2, <3>1, <3>2, <3>3, GetUpdatesStep, AnswerStep
  <2> QED BY <1>2, <2>1, <2>2 DEF NoticeInv
<1> QED BY <1>1, <1>2 DEF Notices!Next, Notices!Happens, Notices!StartNotifier, Notices!Poll,
      Notices!Ask, Notices!GetUpdates, Notices!Answer, Notices!BotDies,
      Notices!notifierVars, Notices!botVars

\* Another part's steps leave both alone.
LEMMA NoticeStill == NoticeInv /\ UNCHANGED noticeVars => NoticeInv'
  BY DEF NoticeInv, noticeVars, NotifierInv, BotInv, Notices!Scanned

\* The invariant of the notices holds at the start and after each step.
LEMMA NoticeInvHolds == StoresSpec => []NoticeInv
<1>1. StoresInit => NoticeInv
  BY NoticeStart DEF StoresInit
<1>2. NoticeInv /\ [StoresNext]_storesVars => NoticeInv'
  BY PartsMove, NoticeStep, NoticeStill
<1> QED BY <1>1, <1>2, PTL DEF StoresSpec

\* What the invariant says of the notices.
LEMMA Told == NoticeInv => Notices!ToldOnce
<1> SUFFICES ASSUME NoticeInv PROVE Notices!ToldOnce
  OBVIOUS
<1>1. \A i \in DOMAIN alerts : alerts[i] <= 1
  BY DEF NoticeInv, NotifierInv
<1>2. primed => \A i \in pushed : i > before
  BY DEF NoticeInv, NotifierInv
<1>3. ASSUME "bot_dies" \notin ills PROVE \A q \in DOMAIN answers : answers[q] <= 1
  BY <1>3 DEF NoticeInv, BotInv
<1> QED BY <1>1, <1>2, <1>3 DEF Notices!ToldOnce

\* A stay in ready has one signal and the log shows of each symbol the state the watcher holds,
\* but for a visit that was cut short; an alert is pushed once and none from before the process
\* started, and a bot that is not started again answers a question once (Watcher._transition
\* and tick, TelegramNotifier.poll, the loop of telegram_bot's main): for any symbols, refused
\* events, ends of processes and refused messages.
THEOREM SaidOnceAlways == StoresSpec => []SaidOnce
BY FlowInvHolds, Signalled, NoticeInvHolds, Told, PTL DEF SaidOnce

-----------------------------------------------------------------------------
(* The log *)

Rows == [of : Tickets \cup Watched, kind : Log!OrderKinds \cup Log!WatchKinds]

\* The kind of the last row of a subject among some kinds, and what a subject was put in.
LastOf(x, K) == Log!LastKind({i \in Log!Of(x) : log[i].kind \in K})

\* The events of an order that is where it is.
Lived(k) ==
    CASE k = "none" -> {}
      [] k = "requested" -> {"requested"}
      [] k = "approved" -> {"requested", "approved"}
      [] k = "rejected" -> {"requested", "rejected"}
      [] k = "submitted" -> {"requested", "approved", "submitted"}
      [] k = "filled" -> {"requested", "approved", "submitted", "filled"}
      [] k = "cancelled" -> {"requested", "approved", "submitted", "cancelled"}

AllKinds == Log!OrderKinds \cup Log!WatchKinds

\* The kinds logged of an order are those of its life, and its last row says where it is; of a
\* symbol the last row, and the last but for its discovery.
Noted(x) ==
    /\ x \in Tickets =>
        /\ truth[x] \in {"none"} \cup Log!OrderKinds
        /\ Log!KindsOf(x) = Lived(truth[x])
        /\ LastOf(x, {"submitted", "cancelled"}) =
              CASE truth[x] \in {"submitted", "filled"} -> "submitted"
                [] truth[x] = "cancelled" -> "cancelled"
                [] OTHER -> "none"
    /\ x \in Watched =>
        /\ truth[x] \in {"none"} \cup Log!WatchKinds
        /\ LastOf(x, AllKinds) = truth[x]
        /\ LastOf(x, AllKinds \ {"discovered"}) =
              IF truth[x] = "discovered" THEN "none" ELSE truth[x]

LogInv ==
    /\ log \in Seq(Rows) /\ DOMAIN truth = Tickets \cup Watched
    /\ conn \in {"up", "dropped", "closed"} /\ cut \subseteq Tickets \cup Watched
    /\ lost \in 0 .. 1 /\ (conn = "dropped" => lost = 0)
    /\ \A x \in (Tickets \cup Watched) \ cut : Noted(x)
    /\ DOMAIN stream = {"count", "sending"}
    /\ stream.count \in Int /\ page \in Nat /\ page <= Len(log) /\ stream.count <= Len(log)
    /\ stream.sending \in BOOLEAN
    /\ (stream.sending = FALSE) => stream.count <= page

\* What the assumption says of the log.
LEMMA LogConstants == Tickets \cap Watched = {} /\ QueryLimit \in Nat
  BY StoresAssumption DEF StoresAssumption, Log!LogAssumption

\* The greatest of some numbers, where there is one.
LEMMA GreatestOf ==
    ASSUME NEW S \in SUBSET Int, NEW m \in S, \A n \in S : n <= m PROVE Log!Max(S) = m
<1>1. \A x \in S : (\A y \in S : x >= y) <=> x = m
  OBVIOUS
<1>2. Log!Max(S) = CHOOSE x \in S : \A y \in S : x >= y
  BY Zenon DEF Log!Max
<1> QED BY <1>1, <1>2

\* A row more: its kind is the last of its subject.
LEMMA AppendLast ==
    ASSUME log \in Seq(Rows), NEW x, NEW k, [of |-> x, kind |-> k] \in Rows,
           log' = Append(log, [of |-> x, kind |-> k])
    PROVE  /\ \A y, K : LastOf(y, K)' = IF y = x /\ k \in K THEN k ELSE LastOf(y, K)
           /\ \A y : Log!KindsOf(y)' = IF y = x THEN Log!KindsOf(y) \cup {k} ELSE Log!KindsOf(y)
<1>1. /\ Len(log) \in Nat /\ DOMAIN log = 1 .. Len(log) /\ DOMAIN log' = 1 .. Len(log) + 1
      /\ \A i \in DOMAIN log : log'[i] = log[i]
      /\ log'[Len(log) + 1] = [of |-> x, kind |-> k]
  OBVIOUS
<1>2. PICK n : n = Len(log) + 1
  OBVIOUS
<1>3. /\ n \in Nat /\ DOMAIN log' = DOMAIN log \cup {n} /\ n \notin DOMAIN log
      /\ \A i \in DOMAIN log : i \in Nat /\ i < n
      /\ log'[n].of = x /\ log'[n].kind = k
  BY <1>1, <1>2
<1>4. ASSUME NEW y, NEW K
      PROVE  LastOf(y, K)' = IF y = x /\ k \in K THEN k ELSE LastOf(y, K)
  <2>1. PICK S : S = {i \in Log!Of(y) : log[i].kind \in K}
    OBVIOUS
  <2>2. PICK T : T = {i \in Log!Of(y) : log[i].kind \in K}'
    OBVIOUS
  <2>3. S \subseteq DOMAIN log
    BY <2>1 DEF Log!Of
  <2>4. LastOf(y, K) = IF S = {} THEN "none" ELSE log[Log!Max(S)].kind
    BY <2>1 DEF LastOf, Log!LastKind
  <2>5. LastOf(y, K)' = IF T = {} THEN "none" ELSE log'[Log!Max(T)].kind
    BY <2>2 DEF LastOf, Log!LastKind
  <2>6. T = IF y = x /\ k \in K THEN S \cup {n} ELSE S
    BY <1>1, <1>3, <2>1, <2>2 DEF Log!Of
  <2>7. CASE y = x /\ k \in K
    <3>1. Log!Max(T) = n
      <4>1. T \in SUBSET Int /\ n \in T /\ \A i \in T : i <= n
        BY <1>3, <2>3, <2>6, <2>7
      <4> QED BY <4>1, GreatestOf
    <3> QED BY <1>3, <2>5, <2>6, <2>7, <3>1
  <2>8. CASE ~(y = x /\ k \in K)
    <3>1. T = S
      BY <2>6, <2>8
    <3>2. CASE S = {}
      BY <2>4, <2>5, <2>8, <3>1, <3>2
    <3>3. CASE S # {}
      <4>1. Log!Max(S) \in DOMAIN log
        <5>1. PICK m \in S : \A i \in S : i <= m
          <6>1. S \in SUBSET (1 .. Len(log))
            BY <1>1, <2>3
          <6> QED BY <6>1, <3>3, <1>1, GreatestNatural
        <5>2. S \in SUBSET Int
          BY <1>3, <2>3
        <5> QED BY <2>3, <5>1, <5>2, GreatestOf
      <4> QED BY <1>1, <2>4, <2>5, <2>8, <3>1, <3>3, <4>1
    <3> QED BY <3>2, <3>3
  <2> QED BY <2>7, <2>8
<1>5. ASSUME NEW y
      PROVE  Log!KindsOf(y)' = IF y = x THEN Log!KindsOf(y) \cup {k} ELSE Log!KindsOf(y)
  <2>1. Log!Of(y)' = IF y = x THEN Log!Of(y) \cup {n} ELSE Log!Of(y)
    BY <1>1, <1>3 DEF Log!Of
  <2>2. \A i \in Log!Of(y) : log'[i] = log[i]
    BY <1>1 DEF Log!Of
  <2>3. Log!Of(y) \subseteq DOMAIN log
    BY DEF Log!Of
  <2>4. Log!KindsOf(y)' = {log'[i].kind : i \in Log!Of(y)'}
    BY DEF Log!KindsOf
  <2>5. {log'[i].kind : i \in Log!Of(y)} = Log!KindsOf(y)
    BY <2>2 DEF Log!KindsOf
  <2> QED BY <1>3, <2>1, <2>4, <2>5
<1> QED BY <1>4, <1>5

\* The log starts empty.
LEMMA LogStart == Log!Init => LogInv
<1> SUFFICES ASSUME Log!Init PROVE LogInv
  OBVIOUS
<1>1. /\ log = <<>> /\ conn = "up" /\ lost = 0 /\ cut = {} /\ page = 0
      /\ truth = [x \in Tickets \cup Watched |-> "none"]
      /\ stream = [count |-> -1, sending |-> FALSE]
  BY DEF Log!Init, Log!Quiet
<1>2. \A x, K : LastOf(x, K) = "none" /\ Log!KindsOf(x) = {}
  BY <1>1 DEF LastOf, Log!LastKind, Log!Of, Log!KindsOf
<1>3. \A x \in Tickets \cup Watched : Noted(x)
  BY <1>1, <1>2 DEF Noted, Lived
<1> QED BY <1>1, <1>3 DEF LogInv

\* An event, accepted or refused.
LEMMA EmitStep ==
    ASSUME LogInv, NEW x \in Tickets \cup Watched, NEW k \in AllKinds, Log!Emit(x, k)
    PROVE  LogInv'
<1>1. /\ truth' = [truth EXCEPT ![x] = k] /\ Log!Does(x, k)
      /\ UNCHANGED <<stream, page>>
  BY DEF Log!Emit
<1>2. CASE log' = Append(log, [of |-> x, kind |-> k]) /\ conn' = "up" /\ UNCHANGED <<lost, cut>>
  <2>1. [of |-> x, kind |-> k] \in Rows
    BY DEF Rows, AllKinds
  <2>2. /\ \A y, K : LastOf(y, K)' = IF y = x /\ k \in K THEN k ELSE LastOf(y, K)
        /\ \A y : Log!KindsOf(y)' = IF y = x THEN Log!KindsOf(y) \cup {k} ELSE Log!KindsOf(y)
    BY <1>2, <2>1, AppendLast DEF LogInv
  <2>3. ASSUME NEW y \in (Tickets \cup Watched) \ cut, y # x PROVE Noted(y)'
    <3>1. Noted(y)
      BY DEF LogInv
    <3>2. truth'[y] = truth[y]
      BY <1>1, <2>3 DEF LogInv
    <3>3. /\ Log!KindsOf(y)' = Log!KindsOf(y)
          /\ \A K : LastOf(y, K)' = LastOf(y, K)
      BY <2>2, <2>3
    <3> QED BY <3>1, <3>2, <3>3 DEF Noted
  <2>4. ASSUME x \notin cut PROVE Noted(x)'
    <3>1. Noted(x) /\ truth'[x] = k
      BY <1>1, <2>4 DEF LogInv
    <3>2. CASE x \in Tickets
      <4>1. /\ x \notin Watched /\ k \in Log!AfterKind[truth[x]]
            /\ truth[x] \in {"none"} \cup Log!OrderKinds
        BY <1>1, <3>1, <3>2, LogConstants DEF Noted, Log!Does
      <4>2. \/ truth[x] = "none" /\ k = "requested"
            \/ truth[x] = "requested" /\ k \in {"approved", "rejected"}
            \/ truth[x] = "approved" /\ k = "submitted"
            \/ truth[x] = "submitted" /\ k \in {"filled", "cancelled"}
        BY <4>1 DEF Log!AfterKind, Log!OrderKinds
      <4>3. Log!KindsOf(x) = Lived(truth[x])
        BY <3>1, <3>2 DEF Noted
      <4>4. Lived(k) = Lived(truth[x]) \cup {k}
        BY <4>2 DEF Lived
      <4>5. Log!KindsOf(x)' = Lived(k)
        BY <2>2, <4>3, <4>4
      <4>6. LastOf(x, {"submitted", "cancelled"})' =
              CASE k \in {"submitted", "filled"} -> "submitted"
                [] k = "cancelled" -> "cancelled"
                [] OTHER -> "none"
        <5>1. LastOf(x, {"submitted", "cancelled"}) =
                CASE truth[x] \in {"submitted", "filled"} -> "submitted"
                  [] truth[x] = "cancelled" -> "cancelled"
                  [] OTHER -> "none"
          BY <3>1, <3>2 DEF Noted
        <5>2. LastOf(x, {"submitted", "cancelled"})' =
                IF k \in {"submitted", "cancelled"} THEN k
                ELSE LastOf(x, {"submitted", "cancelled"})
          BY <2>2
        <5> QED BY <4>2, <5>1, <5>2
      <4>7. k \in Log!OrderKinds
        BY <4>2 DEF Log!OrderKinds
      <4> QED BY <3>1, <4>1, <4>5, <4>6, <4>7 DEF Noted
    <3>3. CASE x \in Watched
      <4>1. /\ x \notin Tickets
            /\ \/ truth[x] = "none" /\ k = "discovered"
               \/ truth[x] = "discovered" /\ k = "watching"
               \/ truth[x] \in {"watching", "ready", "blocked"} /\ k \in {"ready", "blocked"}
        BY <1>1, <3>3, LogConstants DEF Log!Does
      <4>2. /\ LastOf(x, AllKinds)' = k
            /\ LastOf(x, AllKinds \ {"discovered"})' =
                  IF k \in AllKinds \ {"discovered"} THEN k
                  ELSE LastOf(x, AllKinds \ {"discovered"})
        BY <2>2
      <4>3. k \in Log!WatchKinds
        BY <4>1 DEF Log!WatchKinds
      <4>4. LastOf(x, AllKinds \ {"discovered"}) =
              IF truth[x] = "discovered" THEN "none" ELSE truth[x]
        BY <3>1, <3>3 DEF Noted
      <4> QED BY <3>1, <4>1, <4>2, <4>3, <4>4 DEF Noted
    <3> QED BY <3>2, <3>3
  <2>5. log' \in Seq(Rows) /\ Len(log') = Len(log) + 1 /\ Len(log) \in Nat
    BY <1>2, <2>1 DEF LogInv
  <2> QED BY <1>1, <1>2, <2>3, <2>4, <2>5 DEF LogInv
<1>3. CASE /\ conn = "dropped" /\ conn' = "closed" /\ lost' = lost + 1 /\ cut' = cut \cup {x}
           /\ UNCHANGED log
  <2>1. ASSUME NEW y \in (Tickets \cup Watched) \ cut' PROVE Noted(y)'
    <3>1. Noted(y) /\ truth'[y] = truth[y]
      BY <1>1, <1>3, <2>1 DEF LogInv
    <3>2. /\ Log!KindsOf(y)' = Log!KindsOf(y)
          /\ \A K : LastOf(y, K)' = LastOf(y, K)
      BY <1>3 DEF Log!KindsOf, LastOf, Log!LastKind, Log!Of
    <3> QED BY <3>1, <3>2 DEF Noted
  <2> QED BY <1>1, <1>3, <2>1 DEF LogInv
<1> QED BY <1>2, <1>3 DEF Log!Emit, Log!Cursor, LogInv

\* What leaves the log and the writers alone.
LEMMA NotedStays ==
    ASSUME UNCHANGED <<log, truth, cut>>, LogInv
    PROVE  \A x \in (Tickets \cup Watched) \ cut' : Noted(x)'
<1> SUFFICES ASSUME NEW x \in (Tickets \cup Watched) \ cut PROVE Noted(x)'
  OBVIOUS
<1>1. Noted(x) /\ truth'[x] = truth[x]
  BY DEF LogInv
<1>2. /\ Log!KindsOf(x)' = Log!KindsOf(x)
      /\ \A K : LastOf(x, K)' = LastOf(x, K)
  BY DEF Log!KindsOf, LastOf, Log!LastKind, Log!Of
<1> QED BY <1>1, <1>2 DEF Noted

\* Each step of the log, its connection and the dashboard's page keeps the invariant.
LEMMA LogStep == LogInv /\ Log!Next => LogInv'
<1> SUFFICES ASSUME LogInv, Log!Next PROVE LogInv'
  OBVIOUS
<1>1. ASSUME NEW x \in Tickets \cup Watched, NEW k \in AllKinds, Log!Emit(x, k) PROVE LogInv'
  BY <1>1, EmitStep
<1>2. CASE Log!Drop \/ Log!Select
  <2>1. UNCHANGED <<log, truth, cut, stream, page>>
    BY <1>2 DEF Log!Drop, Log!Select
  <2>2. conn' \in {"up", "dropped"} /\ lost' \in 0 .. 1 /\ (conn' = "dropped" => lost' = 0)
    BY <1>2 DEF Log!Drop, Log!Select, LogInv
  <2> QED BY <2>1, <2>2, NotedStays DEF LogInv
<1>3. CASE Log!Count \/ Log!Send \/ Log!Reload
  <2>1. UNCHANGED <<log, truth, conn, lost, cut>>
    BY <1>3 DEF Log!Count, Log!Send, Log!Reload
  <2>2. Len(log) \in Nat
    BY DEF LogInv
  <2>3. /\ DOMAIN stream' = {"count", "sending"} /\ stream'.count \in Int /\ page' \in Nat
        /\ page' <= Len(log) /\ stream'.count <= Len(log) /\ stream'.sending \in BOOLEAN
        /\ (stream'.sending = FALSE) => stream'.count <= page'
    <3>1. CASE Log!Count
      BY <2>2, <3>1 DEF Log!Count, LogInv
    <3>2. CASE Log!Send
      BY <2>2, <3>2 DEF Log!Send, LogInv
    <3>3. CASE Log!Reload
      BY <2>2, <3>3 DEF Log!Reload, Log!Quiet
    <3> QED BY <1>3, <3>1, <3>2, <3>3
  <2> QED BY <2>1, <2>3, NotedStays DEF LogInv
<1> QED BY <1>1, <1>2, <1>3 DEF Log!Next, AllKinds

\* Another part's steps leave the log alone.
LEMMA LogStill == LogInv /\ UNCHANGED logVars => LogInv'
<1> SUFFICES ASSUME LogInv, UNCHANGED logVars PROVE LogInv'
  OBVIOUS
<1>1. UNCHANGED <<log, truth, conn, lost, cut, stream, page>>
  BY DEF logVars
<1> QED BY <1>1, NotedStays DEF LogInv

\* The invariant of the log holds at the start and after each step.
LEMMA LogInvHolds == StoresSpec => []LogInv
<1>1. StoresInit => LogInv
  BY LogStart DEF StoresInit
<1>2. LogInv /\ [StoresNext]_storesVars => LogInv'
  BY PartsMove, LogStep, LogStill
<1> QED BY <1>1, <1>2, PTL DEF StoresSpec

\* The lesser of two numbers.
LEMMA LesserOf ==
    ASSUME NEW m \in Nat, NEW n \in Nat, m <= n PROVE Log!Min({n, m}) = m
<1>1. \A x \in {n, m} : (\A y \in {n, m} : x <= y) <=> x = m
  OBVIOUS
<1>2. Log!Min({n, m}) = CHOOSE x \in {n, m} : \A y \in {n, m} : x <= y
  BY Zenon DEF Log!Min
<1> QED BY <1>1, <1>2

\* The last in LifecycleTypes of the kinds of an order that is over is how it ended.
LEMMA EndShown ==
    ASSUME NEW o, Log!KindsOf(o) = Lived(truth[o]),
           truth[o] \in {"rejected", "filled", "cancelled"}
    PROVE  Log!Lifecycle(o) = truth[o]
<1>1. /\ DOMAIN Log!LifecycleTypes = 1 .. 6
      /\ Log!LifecycleTypes[1] = "submitted" /\ Log!LifecycleTypes[2] = "requested"
      /\ Log!LifecycleTypes[3] = "approved" /\ Log!LifecycleTypes[4] = "rejected"
      /\ Log!LifecycleTypes[5] = "filled" /\ Log!LifecycleTypes[6] = "cancelled"
  BY DEF Log!LifecycleTypes
<1>2. PICK known : known = {i \in DOMAIN Log!LifecycleTypes :
                              Log!LifecycleTypes[i] \in Log!KindsOf(o)}
  OBVIOUS
<1>3. Log!Lifecycle(o) = IF known = {} THEN "none" ELSE Log!LifecycleTypes[Log!Max(known)]
  BY <1>2 DEF Log!Lifecycle
<1>4. known \in SUBSET Int
  BY <1>1, <1>2
<1>5. CASE truth[o] = "rejected"
  <2>1. 4 \in known /\ \A i \in known : i <= 4
    BY <1>1, <1>2, <1>5 DEF Lived
  <2> QED BY <1>1, <1>3, <1>4, <1>5, <2>1, GreatestOf
<1>6. CASE truth[o] = "filled"
  <2>1. 5 \in known /\ \A i \in known : i <= 5
    BY <1>1, <1>2, <1>6 DEF Lived
  <2> QED BY <1>1, <1>3, <1>4, <1>6, <2>1, GreatestOf
<1>7. CASE truth[o] = "cancelled"
  <2>1. 6 \in known /\ \A i \in known : i <= 6
    BY <1>1, <1>2, <1>7 DEF Lived
  <2> QED BY <1>1, <1>3, <1>4, <1>7, <2>1, GreatestOf
<1> QED BY <1>5, <1>6, <1>7

\* A log no longer than the query is read whole.
LEMMA ReadWhole ==
    ASSUME LogInv, Len(log) <= QueryLimit
    PROVE  \A x : /\ Log!RebuiltSymbol(x) = LastOf(x, AllKinds)
                  /\ Log!RebuiltOrder(x) = LastOf(x, {"submitted", "cancelled"})
<1>1. Len(log) \in Nat /\ DOMAIN log = 1 .. Len(log)
  BY DEF LogInv
<1>2. Log!First = DOMAIN log
  BY <1>1, LesserOf, LogConstants DEF Log!First
<1>3. \A i \in DOMAIN log : log[i].kind \in AllKinds
  <2>1. \A i \in 1 .. Len(log) : log[i] \in Rows
    BY ElementOfSeq DEF LogInv
  <2> QED BY <1>1, <2>1 DEF Rows, AllKinds
<1>4. ASSUME NEW x
      PROVE  /\ Log!Of(x) \cap Log!First = {i \in Log!Of(x) : log[i].kind \in AllKinds}
             /\ Log!Of(x) \cap Log!First = Log!Of(x)
  BY <1>2, <1>3 DEF Log!Of
<1> QED BY <1>4 DEF Log!RebuiltSymbol, Log!RebuiltOrder, LastOf

\* Whatever is refused, however often the connection is dropped and whatever is logged between
\* two steps of a page: the queue of approvals, the ends of orders, the states of symbols and a
\* replay of them are what the writers did, of all whose events were accepted
\* (query_approval_queue, query_order_lifecycle_snapshot, query_watch_states_snapshot,
\* rebuild_session); a drop costs one event; and a page that waits was shown every event.
THEOREM LogAgreesAlways == StoresSpec => []LogAgrees
<1> SUFFICES ASSUME LogInv PROVE LogAgrees
  BY LogInvHolds, PTL
<1>1. Log!OrdersShown
  <2> SUFFICES ASSUME NEW o \in Tickets \ cut
               PROVE  /\ o \in Log!ApprovalQueue <=> truth[o] = "requested"
                      /\ truth[o] \in {"rejected", "filled", "cancelled"} =>
                            Log!Lifecycle(o) = truth[o]
    BY DEF Log!OrdersShown
  <2>1. Log!KindsOf(o) = Lived(truth[o]) /\ truth[o] \in {"none"} \cup Log!OrderKinds
    BY DEF LogInv, Noted
  <2>2. o \in Log!ApprovalQueue <=> truth[o] = "requested"
    <3>1. o \in Log!ApprovalQueue <=>
            /\ "requested" \in Lived(truth[o])
            /\ Lived(truth[o]) \cap {"approved", "rejected", "submitted", "cancelled"} = {}
      BY <2>1 DEF Log!ApprovalQueue
    <3> QED BY <2>1, <3>1 DEF Lived, Log!OrderKinds
  <2> QED BY <2>1, <2>2, EndShown
<1>2. Log!WatchShown
  <2> SUFFICES ASSUME NEW s \in Watched \ cut, truth[s] \notin {"none", "discovered"}
               PROVE  Log!WatchState(s) = truth[s]
    BY DEF Log!WatchShown
  <2>1. LastOf(s, AllKinds \ {"discovered"}) = truth[s]
    BY DEF LogInv, Noted
  <2>2. \A i \in Log!Of(s) : log[i].kind \in AllKinds
    <3>1. \A i \in 1 .. Len(log) : log[i] \in Rows
      BY ElementOfSeq DEF LogInv
    <3> QED BY <3>1 DEF Rows, AllKinds, Log!Of, LogInv
  <2>3. {i \in Log!Of(s) : log[i].kind # "discovered"} =
          {i \in Log!Of(s) : log[i].kind \in AllKinds \ {"discovered"}}
    BY <2>2
  <2> QED BY <2>1, <2>3 DEF Log!WatchState, LastOf
<1>3. Log!ReplayExact
  <2> SUFFICES ASSUME Len(log) <= QueryLimit
               PROVE  /\ \A s \in Watched \ cut : Log!RebuiltSymbol(s) = truth[s]
                      /\ \A o \in Tickets \ cut :
                            (Log!RebuiltOrder(o) = "cancelled") = (truth[o] = "cancelled")
    BY DEF Log!ReplayExact
  <2>1. \A s \in Watched \ cut : LastOf(s, AllKinds) = truth[s]
    BY DEF LogInv, Noted
  <2>2. ASSUME NEW o \in Tickets \ cut
        PROVE  (LastOf(o, {"submitted", "cancelled"}) = "cancelled") = (truth[o] = "cancelled")
    BY DEF LogInv, Noted
  <2> QED BY <2>1, <2>2, ReadWhole
<1>4. Log!PageUpToDate
  <2>1. Len(log) \in Nat
    BY DEF LogInv
  <2> QED BY <2>1 DEF LogInv, Log!PageUpToDate
<1>5. lost <= 1
  BY DEF LogInv
<1> QED BY <1>1, <1>2, <1>3, <1>4, <1>5 DEF LogAgrees, Log!ViewsAgree

-----------------------------------------------------------------------------
(* The labeler's tables *)

BuildSteps ==
    {"delete features", "delete labels", "delete setups", "setup", "features", "label"}

LabelTypes ==
    /\ found \subseteq Store!Setups /\ setups \subseteq Store!Setups
    /\ features \subseteq Store!Of("v1") /\ labels \subseteq Store!Setups
    /\ job = Store!Idle \/
       job \in [track : BuiltTracks, session : 1 .. Sessions + 1, step : BuildSteps,
                fresh : BOOLEAN]

\* The job is storing the rows of a setup it has inserted.
Storing == job.step \in {"features", "label"}

\* A deletion empties the tables of the rows that hang on setups before those.
Deleting ==
    /\ job.step = "delete labels" /\ job.track = "v1" => features = {}
    /\ job.step = "delete setups" =>
          labels \cap Store!Of(job.track) = {} /\ (job.track = "v1" => features = {})
    /\ job.step \in {"delete features", "delete labels", "delete setups"} => job.session = 1

\* Of a rebuild whose bars stand still, the sessions it has passed are those stored.
Rebuilt ==
    job.fresh /\ job.step \in {"setup", "features", "label"} =>
        \A i \in 1 .. Sessions :
            <<job.track, i>> \in setups <=>
                /\ <<job.track, i>> \in found
                /\ i < job.session \/ (i = job.session /\ Storing)

LabelInv ==
    /\ LabelTypes /\ Deleting /\ Rebuilt
    /\ labels \cup features \subseteq setups
    /\ \A s \in setups \ labels : s \in broken \/ (Storing /\ s = Store!Current)
    /\ Storing => job.session <= Sessions /\ Store!Current \in setups
    /\ job.step = "features" => job.track = "v1"

\* What a job of each kind is.
LEMMA JobShape ==
    ASSUME LabelTypes, job # Store!Idle
    PROVE  /\ job.track \in BuiltTracks /\ job.session \in 1 .. Sessions + 1
           /\ job.step \in BuildSteps /\ job.fresh \in BOOLEAN
  BY DEF LabelTypes

\* The build that is none.
LEMMA IdleShape == Store!Idle.step = "none" /\ Store!Idle.fresh = FALSE
  BY DEF Store!Idle

\* The number of sessions is a number.
LEMMA SessionsNatural == Sessions \in Nat
  BY StoresAssumption DEF StoresAssumption, Store!LabelAssumption

\* The labeler starts with empty tables.
LEMMA LabelStart == Store!Init => LabelInv
<1> SUFFICES ASSUME Store!Init PROVE LabelInv
  OBVIOUS
<1>1. job.step = "none" /\ job.fresh = FALSE
  BY IdleShape DEF Store!Init
<1>2. setups = {} /\ features = {} /\ labels = {} /\ found \subseteq Store!Setups
  BY DEF Store!Init
<1>3. LabelTypes
  BY <1>2 DEF Store!Init, LabelTypes
<1> QED BY <1>1, <1>2, <1>3 DEF LabelInv, Deleting, Rebuilt, Storing

\* The setup a job is at.
LEMMA CurrentIs ==
    ASSUME LabelTypes, job # Store!Idle, job.session <= Sessions
    PROVE  Store!Current \in Store!Setups /\ Store!Current \in Store!Of(job.track)
  BY JobShape, SessionsNatural DEF Store!Current, Store!Setups, Store!Of

\* A job starts.
LEMMA StartStep ==
    ASSUME LabelInv, NEW k \in BuiltTracks, NEW rebuild \in BOOLEAN, Store!Start(k, rebuild)
    PROVE  LabelInv'
<1>1. UNCHANGED <<found, setups, features, labels, broken>>
  BY DEF Store!Start
<1>2. /\ job'.track = k /\ job'.session = 1 /\ job'.fresh = rebuild
      /\ ~rebuild => job'.step = "setup"
      /\ rebuild => job'.step = IF k = "v1" THEN "delete features" ELSE "delete labels"
      /\ job' \in [track : BuiltTracks, session : 1 .. Sessions + 1, step : BuildSteps,
                fresh : BOOLEAN]
  <2>1. PICK t : t = IF ~rebuild THEN "setup"
                     ELSE IF k = "v1" THEN "delete features" ELSE "delete labels"
    OBVIOUS
  <2>2. job' = [track |-> k, session |-> 1, fresh |-> rebuild, step |-> t] /\ t \in BuildSteps
    BY <2>1 DEF Store!Start, BuildSteps
  <2>3. /\ job'.track = k /\ job'.session = 1 /\ job'.fresh = rebuild /\ job'.step = t
    BY <2>2
  <2>4. 1 \in 1 .. Sessions + 1
    BY SessionsNatural
  <2>5. job' \in [track : BuiltTracks, session : 1 .. Sessions + 1, step : BuildSteps,
                 fresh : BOOLEAN]
    BY <2>2, <2>4
  <2> QED BY <2>1, <2>3, <2>5
<1>3. job.step = "none"
  BY IdleShape DEF Store!Start
<1>4. LabelTypes'
  BY <1>1, <1>2 DEF LabelInv, LabelTypes
<1>5. Deleting' /\ Rebuilt'
  BY <1>2 DEF Deleting, Rebuilt
<1> QED BY <1>1, <1>2, <1>3, <1>4, <1>5 DEF LabelInv, Storing

\* A rebuild deletes features, labels and setups, in this order.
LEMMA DeleteStep ==
    ASSUME LabelInv, Store!DeleteFeatures \/ Store!DeleteLabels \/ Store!DeleteSetups
    PROVE  LabelInv'
<1>1. CASE Store!DeleteFeatures
  <2>1. job.step = "delete features" /\ job # Store!Idle
    BY <1>1, IdleShape DEF Store!DeleteFeatures
  <2>2. /\ features' = {} /\ UNCHANGED <<found, setups, labels, broken>>
        /\ job' = [job EXCEPT !.step = "delete labels"]
    BY <1>1 DEF Store!DeleteFeatures
  <2>3. LabelTypes' /\ job'.step = "delete labels" /\ job'.session = job.session
    BY <2>1, <2>2 DEF LabelInv, LabelTypes, BuildSteps
  <2> QED BY <2>1, <2>2, <2>3 DEF LabelInv, Deleting, Rebuilt, Storing
<1>2. CASE Store!DeleteLabels
  <2>1. job.step = "delete labels" /\ job # Store!Idle
    BY <1>2, IdleShape DEF Store!DeleteLabels
  <2>2. PICK gone :
          /\ gone = IF job.track = "v1" THEN labels ELSE labels \cap Store!Of(job.track)
          /\ labels' = labels \ gone /\ broken' = broken \cup gone
    BY <1>2 DEF Store!DeleteLabels
  <2>3. /\ UNCHANGED <<found, setups, features>>
        /\ job' = [job EXCEPT !.step = "delete setups"]
    BY <1>2 DEF Store!DeleteLabels
  <2>4. /\ LabelTypes' /\ job'.step = "delete setups" /\ job'.track = job.track
        /\ job'.session = job.session
    BY <2>1, <2>2, <2>3 DEF LabelInv, LabelTypes, BuildSteps
  <2>5. Deleting'
    BY <2>1, <2>2, <2>3, <2>4 DEF LabelInv, Deleting
  <2>6. \A s \in setups' \ labels' : s \in broken'
    BY <2>1, <2>2, <2>3 DEF LabelInv, Storing
  <2> QED BY <2>1, <2>2, <2>3, <2>4, <2>5, <2>6 DEF LabelInv, Rebuilt, Storing
<1>3. CASE Store!DeleteSetups
  <2>1. job.step = "delete setups" /\ job # Store!Idle
    BY <1>3, IdleShape DEF Store!DeleteSetups
  <2>2. /\ setups' = setups \ Store!Of(job.track) /\ broken' = broken \ Store!Of(job.track)
        /\ UNCHANGED <<found, features, labels>>
        /\ job' = [job EXCEPT !.step = "setup"]
    BY <1>3 DEF Store!DeleteSetups
  <2>3. LabelTypes' /\ job'.step = "setup" /\ job'.track = job.track /\ job'.session = job.session
    BY <2>1, <2>2 DEF LabelInv, LabelTypes, BuildSteps
  <2>4. Rebuilt'
    <3>1. job'.session = 1
      BY <2>1, <2>3 DEF LabelInv, Deleting
    <3>2. \A i \in 1 .. Sessions : <<job'.track, i>> \notin setups'
      BY <2>2, <2>3 DEF Store!Of, LabelInv, LabelTypes
    <3> QED BY <2>3, <3>1, <3>2, SessionsNatural DEF Rebuilt, Storing
  <2>5. features' \cup labels' \subseteq setups'
    BY <2>1, <2>2 DEF LabelInv, LabelTypes, Deleting, Store!Of
  <2> QED BY <2>1, <2>2, <2>3, <2>4, <2>5 DEF LabelInv, Deleting, Storing
<1> QED BY <1>1, <1>2, <1>3

\* A session without a setup is passed over.
LEMMA SkipStep == LabelInv /\ Store!Skip => LabelInv'
<1> SUFFICES ASSUME LabelInv, Store!Skip PROVE LabelInv'
  OBVIOUS
<1>1. /\ job.step = "setup" /\ job.session <= Sessions /\ Store!Current \notin found
      /\ job' = [job EXCEPT !.session = @ + 1]
      /\ UNCHANGED <<found, setups, features, labels, broken>>
  BY DEF Store!Skip, Store!Ready
<1>2. job # Store!Idle
  BY <1>1, IdleShape
<1>3. /\ job'.step = "setup" /\ job'.track = job.track /\ job'.session = job.session + 1
      /\ job'.fresh = job.fresh
  BY <1>1, <1>2 DEF LabelInv, LabelTypes
<1>4. LabelTypes'
  <2>1. job' \in [track : BuiltTracks, session : 1 .. Sessions + 1, step : BuildSteps,
                 fresh : BOOLEAN]
    BY <1>1, <1>2, SessionsNatural DEF LabelInv, LabelTypes
  <2> QED BY <1>1, <2>1 DEF LabelInv, LabelTypes
<1>5. Rebuilt'
  <2>1. job.session \in 1 .. Sessions
    BY <1>1, <1>2, JobShape, SessionsNatural DEF LabelInv
  <2>2. ASSUME job.fresh, NEW i \in 1 .. Sessions
        PROVE  <<job.track, i>> \in setups <=>
                 <<job.track, i>> \in found /\ i < job.session + 1
    BY <1>1, <2>1, <2>2 DEF LabelInv, Rebuilt, Storing, Store!Current
  <2> QED BY <1>1, <1>3, <2>2 DEF Rebuilt, Storing
<1> QED BY <1>1, <1>3, <1>4, <1>5 DEF LabelInv, Deleting, Storing

\* A job that ends, with nothing left behind that is not known to be broken.
LEMMA EndStep ==
    ASSUME LabelInv, job' = Store!Idle, UNCHANGED <<found, setups, features, labels>>,
           \A s \in setups \ labels : s \in broken'
    PROVE  LabelInv'
<1>1. job'.step = "none" /\ ~job'.fresh
  BY IdleShape
<1>2. LabelTypes'
  BY DEF LabelInv, LabelTypes
<1> QED BY <1>1, <1>2 DEF LabelInv, Deleting, Rebuilt, Storing

\* The rows of a setup, one by one.
LEMMA InsertIs ==
    ASSUME LabelInv, Store!Insert
    PROVE  /\ job # Store!Idle /\ UNCHANGED <<found, broken>>
           /\ \/ /\ job.step = "setup" /\ job.session <= Sessions
                 /\ Store!Current \in found \ setups
                 /\ setups' = setups \cup {Store!Current}
                 /\ UNCHANGED <<features, labels>>
                 /\ job' = [job EXCEPT !.step = IF job.track = "v1" THEN "features" ELSE "label"]
              \/ /\ job.step = "features"
                 /\ features' = features \cup {Store!Current}
                 /\ UNCHANGED <<setups, labels>>
                 /\ job' = [job EXCEPT !.step = "label"]
              \/ /\ job.step = "label"
                 /\ labels' = labels \cup {Store!Current}
                 /\ UNCHANGED <<setups, features>>
                 /\ job' = [job EXCEPT !.session = @ + 1, !.step = "setup"]
<1>1. PICK i \in DOMAIN Store!Order(job.track) :
        /\ \/ i = 1 /\ Store!Ready /\ Store!Current \in found \ setups
           \/ i > 1 /\ job.step = Store!Order(job.track)[i]
        /\ setups' = setups \cup
             IF Store!Order(job.track)[i] = "setup" THEN {Store!Current} ELSE {}
        /\ features' = features \cup
             IF Store!Order(job.track)[i] = "features" THEN {Store!Current} ELSE {}
        /\ labels' = labels \cup
             IF Store!Order(job.track)[i] = "label" THEN {Store!Current} ELSE {}
        /\ job' = IF i = Len(Store!Order(job.track))
                    THEN [job EXCEPT !.session = @ + 1, !.step = "setup"]
                    ELSE [job EXCEPT !.step = Store!Order(job.track)[i + 1]]
        /\ UNCHANGED <<found, broken>>
  BY DEF Store!Insert
<1>2. \/ /\ job.track = "v1" /\ Store!Order(job.track)[1] = "setup"
         /\ Store!Order(job.track)[2] = "features" /\ Store!Order(job.track)[3] = "label"
         /\ i = 1 \/ i = 2 \/ (i = 3 /\ i = Len(Store!Order(job.track)))
         /\ i = Len(Store!Order(job.track)) => i = 3
      \/ /\ job.track # "v1" /\ Store!Order(job.track)[1] = "setup"
         /\ Store!Order(job.track)[2] = "label"
         /\ i = 1 \/ (i = 2 /\ i = Len(Store!Order(job.track)))
         /\ i = Len(Store!Order(job.track)) => i = 2
  <2>1. CASE job.track = "v1"
    <3>1. Store!Order(job.track) = <<"setup", "features", "label">>
      BY <2>1 DEF Store!Order
    <3>2. i \in 1 .. 3 /\ Len(Store!Order(job.track)) = 3
      BY <3>1
    <3>3. i = 1 \/ i = 2 \/ (i = 3 /\ i = Len(Store!Order(job.track)))
      BY <3>2
    <3>4. i = Len(Store!Order(job.track)) => i = 3
      BY <3>2
    <3> QED BY <2>1, <3>1, <3>3, <3>4
  <2>2. CASE job.track # "v1"
    <3>1. Store!Order(job.track) = <<"setup", "label">>
      BY <2>2 DEF Store!Order
    <3>2. i \in 1 .. 2
      BY <3>1
    <3> QED BY <2>2, <3>1, <3>2
  <2> QED BY <2>1, <2>2
<1>3. job # Store!Idle
  BY <1>1, <1>2, IdleShape DEF Store!Ready
<1>4. CASE i = 1
  <2>1. /\ setups' = setups \cup {Store!Current} /\ UNCHANGED <<features, labels>>
        /\ job' = [job EXCEPT !.step = IF job.track = "v1" THEN "features" ELSE "label"]
    BY <1>1, <1>2, <1>4
  <2> QED BY <1>1, <1>3, <1>4, <2>1 DEF Store!Ready
<1>5. CASE i = 2 /\ job.track = "v1"
  BY <1>1, <1>2, <1>3, <1>5
<1>6. CASE i = Len(Store!Order(job.track))
  <2>1. Store!Order(job.track)[i] = "label" /\ i > 1
    BY <1>2, <1>6
  <2> QED BY <1>1, <1>3, <1>6, <2>1
<1>7. i = 1 \/ (i = 2 /\ job.track = "v1") \/ i = Len(Store!Order(job.track))
  BY <1>2
<1> QED BY <1>4, <1>5, <1>6, <1>7

\* Each row is inserted behind the one it hangs on.
LEMMA InsertStep == LabelInv /\ Store!Insert => LabelInv'
<1> SUFFICES ASSUME LabelInv, Store!Insert PROVE LabelInv'
  OBVIOUS
<1>1. job # Store!Idle /\ UNCHANGED <<found, broken>>
  BY InsertIs
<1>2. PICK s : s = Store!Current
  OBVIOUS
<1>3. /\ job.track \in BuiltTracks /\ job.session \in 1 .. Sessions + 1
      /\ job.step \in BuildSteps /\ job.fresh \in BOOLEAN
  BY <1>1, JobShape DEF LabelInv
<1>4. CASE /\ job.step = "setup" /\ job.session <= Sessions
           /\ s \in found \ setups
           /\ setups' = setups \cup {s}
           /\ UNCHANGED <<features, labels>>
           /\ job' = [job EXCEPT !.step = IF job.track = "v1" THEN "features" ELSE "label"]
  <2>1. PICK t : t = IF job.track = "v1" THEN "features" ELSE "label"
    OBVIOUS
  <2>2. /\ job'.step = t /\ job'.track = job.track /\ job'.session = job.session
        /\ job'.fresh = job.fresh /\ job' # Store!Idle
    BY <1>1, <1>4, <2>1, IdleShape DEF LabelInv, LabelTypes
  <2>3. LabelTypes'
    BY <1>1, <1>4, <2>1 DEF LabelInv, LabelTypes, BuildSteps
  <2>4. s = <<job.track, job.session>> /\ s = Store!Current'
    BY <1>2, <2>2 DEF Store!Current
  <2>5. Rebuilt'
    BY <1>1, <1>3, <1>4, <2>1, <2>2, <2>4, SessionsNatural DEF LabelInv, Rebuilt, Storing
  <2>6. Storing' /\ job'.session <= Sessions /\ s \in setups'
    BY <1>4, <2>1, <2>2 DEF Storing
  <2> QED BY <1>1, <1>4, <2>1, <2>2, <2>3, <2>4, <2>5, <2>6 DEF LabelInv, Deleting, Storing
<1>5. CASE /\ job.step = "features"
           /\ features' = features \cup {s}
           /\ UNCHANGED <<setups, labels>>
           /\ job' = [job EXCEPT !.step = "label"]
  <2>1. /\ job'.step = "label" /\ job'.track = job.track /\ job'.session = job.session
        /\ job'.fresh = job.fresh
    BY <1>1, <1>5 DEF LabelInv, LabelTypes
  <2>2. s = Store!Current' /\ s \in Store!Of("v1") /\ s \in setups
    BY <1>1, <1>2, <1>5, <2>1, CurrentIs DEF LabelInv, Storing, Store!Current
  <2>3. LabelTypes'
    BY <1>1, <1>5, <2>2 DEF LabelInv, LabelTypes, BuildSteps
  <2>4. Rebuilt'
    BY <1>1, <1>5, <2>1 DEF LabelInv, Rebuilt, Storing
  <2> QED BY <1>1, <1>2, <1>5, <2>1, <2>2, <2>3, <2>4 DEF LabelInv, Deleting, Storing
<1>6. CASE /\ job.step = "label"
           /\ labels' = labels \cup {s}
           /\ UNCHANGED <<setups, features>>
           /\ job' = [job EXCEPT !.session = @ + 1, !.step = "setup"]
  <2>1. /\ job'.step = "setup" /\ job'.track = job.track /\ job'.session = job.session + 1
        /\ job'.fresh = job.fresh
    BY <1>1, <1>6 DEF LabelInv, LabelTypes
  <2>2. s \in setups /\ s \in Store!Setups /\ job.session <= Sessions
    BY <1>1, <1>2, <1>6, CurrentIs DEF LabelInv, Storing
  <2>3. LabelTypes'
    <3>1. job' \in [track : BuiltTracks, session : 1 .. Sessions + 1, step : BuildSteps,
                   fresh : BOOLEAN]
      <4>1. job.session + 1 \in 1 .. Sessions + 1
        BY <1>3, <2>2, SessionsNatural
      <4> QED BY <1>1, <1>6, <4>1 DEF LabelInv, LabelTypes, BuildSteps
    <3> QED BY <1>1, <1>6, <2>2, <3>1 DEF LabelInv, LabelTypes
  <2>4. Rebuilt'
    <3>1. ASSUME job.fresh, NEW i \in 1 .. Sessions
          PROVE  <<job.track, i>> \in setups <=>
                   <<job.track, i>> \in found /\ i < job.session + 1
      BY <1>3, <1>6, <3>1 DEF LabelInv, Rebuilt, Storing
    <3> QED BY <1>1, <1>6, <2>1, <3>1 DEF Rebuilt, Storing
  <2> QED BY <1>1, <1>2, <1>6, <2>1, <2>2, <2>3, <2>4 DEF LabelInv, Deleting, Storing
<1> QED BY <1>2, <1>4, <1>5, <1>6, InsertIs

\* A job is refused, finishes or dies.
LEMMA JobEnds ==
    ASSUME LabelInv, Store!Refused \/ Store!Finish \/ Store!Die PROVE LabelInv'
<1>1. CASE Store!Refused \/ Store!Finish
  <2>1. /\ job' = Store!Idle /\ UNCHANGED <<found, setups, features, labels, broken>>
        /\ job.step = "setup"
    BY <1>1 DEF Store!Refused, Store!Finish, Store!Ready
  <2> QED BY <2>1, EndStep DEF LabelInv, Storing
<1>2. CASE Store!Die
  <2>1. /\ job # Store!Idle /\ job' = Store!Idle
        /\ broken' = broken \cup ((setups \ labels) \cap Store!Of(job.track))
        /\ UNCHANGED <<found, setups, features, labels>>
    BY <1>2 DEF Store!Die
  <2>2. Storing => Store!Current \in Store!Of(job.track)
    BY <2>1, CurrentIs DEF LabelInv
  <2>3. \A s \in setups \ labels : s \in broken'
    BY <2>1, <2>2 DEF LabelInv
  <2> QED BY <2>1, <2>3, EndStep
<1> QED BY <1>1, <1>2

\* The bars change under a job.
LEMMA BarsStep ==
    ASSUME LabelInv, NEW b \in Store!Setups, Store!BarsChange(b) PROVE LabelInv'
<1>1. /\ found' \subseteq Store!Setups /\ UNCHANGED <<setups, features, labels, broken>>
      /\ job' = [job EXCEPT !.fresh = FALSE]
  BY DEF Store!BarsChange, LabelInv, LabelTypes
<1>2. CASE job = Store!Idle
  <2>1. job' = Store!Idle
    BY <1>1, <1>2 DEF Store!Idle
  <2>2. LabelTypes' /\ job.step = "none" /\ ~job'.fresh
    BY <1>1, <1>2, <2>1, IdleShape DEF LabelInv, LabelTypes
  <2> QED BY <1>1, <1>2, <2>1, <2>2 DEF LabelInv, Deleting, Rebuilt, Storing
<1>3. CASE job # Store!Idle
  <2>1. /\ LabelTypes' /\ job'.step = job.step /\ job'.track = job.track
        /\ job'.session = job.session /\ ~job'.fresh
    BY <1>1, <1>3 DEF LabelInv, LabelTypes
  <2>2. Store!Current' = Store!Current
    BY <2>1 DEF Store!Current
  <2> QED BY <1>1, <2>1, <2>2 DEF LabelInv, Deleting, Rebuilt, Storing
<1> QED BY <1>2, <1>3

\* Each step of the labeler keeps its invariant.
LEMMA LabelStep == LabelInv /\ Store!Next => LabelInv'
  BY StartStep, DeleteStep, SkipStep, InsertStep, JobEnds, BarsStep DEF Store!Next

\* Another part's steps leave the tables alone.
LEMMA LabelStill == LabelInv /\ UNCHANGED labelVars => LabelInv'
  BY DEF LabelInv, labelVars, LabelTypes, Deleting, Rebuilt, Storing, Store!Current

\* The labeler's invariant holds at the start and after each step.
LEMMA LabelInvHolds == StoresSpec => []LabelInv
<1>1. StoresInit => LabelInv
  BY LabelStart DEF StoresInit
<1>2. LabelInv /\ [StoresNext]_storesVars => LabelInv'
  BY PartsMove, LabelStep, LabelStill
<1> QED BY <1>1, <1>2, PTL DEF StoresSpec

\* A rebuild that is over has passed every session.
LEMMA WholeAtEnd == LabelInv /\ Store!Next => Store!RebuiltWhole
<1> SUFFICES ASSUME LabelInv, Store!Next, job.fresh, job.session > Sessions, job' = Store!Idle
             PROVE  setups' \cap Store!Of(job.track) = found \cap Store!Of(job.track)
  BY DEF Store!RebuiltWhole
<1>1. job # Store!Idle /\ job.session = Sessions + 1
  BY IdleShape, JobShape, SessionsNatural DEF LabelInv
<1>2. job'.step = "none"
  BY IdleShape
<1>3. setups' = setups /\ UNCHANGED found
  <2>1. CASE Store!Insert
    BY <1>1, <1>2, <2>1, InsertIs DEF LabelInv, LabelTypes
  <2>2. CASE Store!DeleteSetups
    BY <1>1, <1>2, <2>2 DEF Store!DeleteSetups, LabelInv, LabelTypes
  <2>3. CASE Store!DeleteFeatures \/ Store!DeleteLabels
    BY <2>3 DEF Store!DeleteFeatures, Store!DeleteLabels
  <2>4. CASE Store!Skip \/ Store!Refused \/ Store!Finish \/ Store!Die
    BY <2>4 DEF Store!Skip, Store!Refused, Store!Finish, Store!Die
  <2>5. ASSUME NEW k \in BuiltTracks, NEW rebuild \in BOOLEAN, Store!Start(k, rebuild)
        PROVE  FALSE
    BY <1>1, <2>5 DEF Store!Start
  <2>6. ASSUME NEW b \in Store!Setups, Store!BarsChange(b) PROVE FALSE
    BY <1>1, <1>2, <2>6, IdleShape DEF Store!BarsChange, LabelInv, LabelTypes, BuildSteps
  <2> QED BY <2>1, <2>2, <2>3, <2>4, <2>5, <2>6 DEF Store!Next
<1>4. ASSUME NEW i \in 1 .. Sessions
      PROVE  <<job.track, i>> \in setups <=> <<job.track, i>> \in found
  <2>1. job.step \in {"setup", "features", "label"}
    <3>1. job.step \in BuildSteps
      BY <1>1, JobShape DEF LabelInv
    <3>2. job.session # 1
      BY <1>1, <1>4, SessionsNatural
    <3> QED BY <3>1, <3>2 DEF LabelInv, Deleting, BuildSteps
  <2> QED BY <1>1, <1>4, <2>1, SessionsNatural DEF LabelInv, Rebuilt
<1> QED BY <1>3, <1>4 DEF LabelInv, LabelTypes, Store!Of, Store!Setups

\* A label and a feature row have their setup and a setup its label, unless a death or a
\* rebuild of v1 took it, and a rebuild that ends has stored exactly the track's setups
\* (build, the build_* of the tracks and _insert in the labeler): for any tracks, sessions and
\* deaths.
THEOREM TablesWhole == StoresSpec => LabelsKept
<1>1. LabelInv => Store!LabelsKept
  BY IdleShape DEF LabelInv, Store!LabelsKept, Storing
<1>2. ASSUME LabelInv, LabelInv', [StoresNext]_storesVars
      PROVE  [part = "labels" => Store!LabelsKept' /\ Store!RebuiltWhole]_labelVars
  <2>1. Store!LabelsKept'
    BY <1>1, <1>2, PTL
  <2>2. CASE Store!Next
    BY <1>2, <2>1, <2>2, WholeAtEnd
  <2>3. CASE UNCHANGED labelVars
    BY <2>3
  <2> QED BY <1>2, <2>2, <2>3, PartsMove
<1> QED BY <1>2, LabelInvHolds, PTL DEF StoresSpec, LabelsKept

-----------------------------------------------------------------------------
(* The types of the parts: beside each part's invariant, the bounds its variables keep *)

\* The sync's part of a step.
LEMMA SyncTypes == StoresSpec => []TypeOK
<1>1. StoresInit => TypeInv
  BY TypeInit DEF StoresInit
<1>2. TypeInv /\ [StoresNext]_storesVars => TypeInv'
  <2>1. [StoresNext]_storesVars => [Next]_vars
    BY Zenon DEF StoresNext, storesVars
  <2> QED BY <2>1, TypeNext
<1>3. TypeInv => TypeOK
  BY DEF TypeInv
<1> QED BY <1>1, <1>2, <1>3, PTL DEF StoresSpec

PollLocals == {"at", "seen", "todo", "items", "units"}

\* Beside PipeInv: the bounds of the retries and the windows, and the polls.
PipeRanges ==
    /\ \A v \in Videos : retries[v] <= MaxRetries + 1 /\ (status[v] = "done" => attempts[v] # 0)
    /\ \A w \in Workers : worker[w].windows \in 0 .. MaxWindows
    /\ poller = [p \in Pollers |-> poller[p]]
    /\ \A p \in Pollers :
        /\ DOMAIN poller[p] = PollLocals
        /\ poller[p].seen \subseteq Videos /\ poller[p].items \subseteq Videos

\* The windows are counted, and a playlist lists videos.
LEMMA PipeConstants ==
    /\ MaxWindows \in Nat /\ \A l \in Playlists : Items[l] \subseteq Videos
    /\ Claims!Resting.windows = 0
    /\ DOMAIN Claims!NoPoll = PollLocals
    /\ Claims!NoPoll.seen = {} /\ Claims!NoPoll.items = {}
  BY StoresAssumption
  DEF StoresAssumption, Claims!PipelineAssumption, Claims!Resting, Claims!NoPoll, PollLocals

\* The pipeline starts within them.
LEMMA RangesStart == Claims!Init => PipeRanges
  BY PipeConstants, RetriesNatural DEF Claims!Init, PipeRanges

\* A worker's step keeps them.
LEMMA WorkerRanges ==
    ASSUME PipeInv, PipeRanges, NEW w \in Workers, Claims!Drain(w) PROVE PipeRanges'
<1>1. PipeTypes /\ (\A v \in Videos : Tried(v)) /\ RowHeld
  BY DEF PipeInv
<1>2. poller' = poller
  BY DEF Claims!Drain, Claims!ClaimNext, Claims!Transcribe, Claims!Extract,
     Claims!InsertClaims, Claims!MarkDone
<1>3. ASSUME \A x \in Workers : worker'[x].windows = worker[x].windows
                               \/ worker'[x].windows \in 0 .. MaxWindows,
             \A v \in Videos : retries'[v] = retries[v] \/ retries'[v] <= MaxRetries + 1,
             \A v \in Videos : status'[v] = "done" => attempts'[v] # 0
      PROVE  PipeRanges'
  BY <1>2, <1>3 DEF PipeRanges
<1>4. CASE Claims!ClaimNext(w)
  <2>1. PICK v \in Videos :
          /\ status' = [status EXCEPT ![v] = "transcribing"]
          /\ worker' = [worker EXCEPT ![w] =
                          [Claims!Resting EXCEPT !.at = "transcribe", !.video = v]]
          /\ attempts' = [attempts EXCEPT ![v] = @ + 1] /\ retries' = retries
    BY <1>4 DEF Claims!ClaimNext, Claims!Pending
  <2>2. worker'[w].windows = 0 /\ \A x \in Workers \ {w} : worker'[x] = worker[x]
    <3>1. PICK r : r = [Claims!Resting EXCEPT !.at = "transcribe", !.video = v]
      OBVIOUS
    <3>2. r.windows = 0
      BY <3>1, PipeConstants, RestingShape DEF WorkerLocals
    <3>3. worker' = [worker EXCEPT ![w] = r]
      BY <2>1, <3>1, Zenon
    <3> QED BY <1>1, <3>2, <3>3 DEF PipeTypes
  <2>3. \A u \in Videos : status'[u] = "done" => status[u] = "done" /\ attempts'[u] = attempts[u]
    BY <1>1, <2>1 DEF PipeTypes
  <2> QED BY <1>3, <2>1, <2>2, <2>3, PipeConstants DEF PipeRanges
<1>5. ASSUME NEW v \in Videos, v = worker[w].video,
             status[v] \in {"transcribing", "extracting"}, Claims!RecordFailure(v),
             Claims!Gives(w), attempts' = attempts
      PROVE  PipeRanges'
  <2>1. retries[v] <= MaxRetries /\ retries[v] \in Nat
    BY <1>1, <1>5 DEF Tried, PipeTypes
  <2>2. \A u \in Videos : retries'[u] = retries[u] \/ retries'[u] <= MaxRetries + 1
    BY <1>1, <1>5, <2>1, RetriesNatural DEF Claims!RecordFailure, PipeTypes
  <2>3. \A u \in Videos : status'[u] = "done" => status[u] = "done"
    BY <1>1, <1>5 DEF Claims!RecordFailure, PipeTypes
  <2>4. \A x \in Workers : worker'[x] = worker[x] \/ worker'[x] = Claims!Resting
    BY <1>1, <1>5 DEF Claims!Gives, PipeTypes
  <2> QED BY <1>3, <1>5, <2>2, <2>3, <2>4, PipeConstants DEF PipeRanges
<1>6. ASSUME worker[w].at # "idle" PROVE worker[w].video \in Videos
  BY <1>1, <1>6 DEF PipeTypes
<1>7. CASE Claims!Transcribe(w)
  <2>1. worker[w].at = "transcribe" /\ status[worker[w].video] = "transcribing"
    BY <1>1, <1>7 DEF Claims!Transcribe, RowHeld
  <2>2. ASSUME NEW n \in 0 .. MaxWindows,
               worker' = [worker EXCEPT ![w].at = "extract", ![w].windows = n],
               status' = [status EXCEPT ![worker[w].video] = "extracting"],
               UNCHANGED <<retries, attempts>>
        PROVE  PipeRanges'
    <3>1. worker'[w].windows = n /\ \A x \in Workers \ {w} : worker'[x] = worker[x]
      BY <1>1, <2>2 DEF PipeTypes, WorkerLocals
    <3>2. \A u \in Videos : status'[u] = "done" => status[u] = "done"
      BY <1>1, <2>2 DEF PipeTypes
    <3> QED BY <1>3, <2>2, <3>1, <3>2 DEF PipeRanges
  <2> QED BY <1>5, <1>6, <1>7, <2>1, <2>2 DEF Claims!Transcribe
<1>8. CASE Claims!Extract(w)
  <2>1. worker[w].at = "extract" /\ status[worker[w].video] = "extracting" /\ attempts' = attempts
    BY <1>1, <1>8 DEF Claims!Extract, RowHeld
  <2>2. CASE Claims!RecordFailure(worker[w].video) /\ Claims!Gives(w)
    BY <1>5, <1>6, <2>1, <2>2
  <2>3. CASE /\ UNCHANGED <<status, retries>>
             /\ \E S : worker' = [worker EXCEPT ![w].at = "insert", ![w].found = S]
    <3>1. \A x \in Workers : worker'[x].windows = worker[x].windows
      BY <1>1, <2>3 DEF PipeTypes, WorkerLocals
    <3> QED BY <1>3, <2>1, <2>3, <3>1 DEF PipeRanges
  <2> QED BY <1>8, <2>2, <2>3, Zenon DEF Claims!Extract
<1>9. CASE Claims!InsertClaims(w)
  <2>1. UNCHANGED <<status, retries, attempts>>
    BY <1>9 DEF Claims!InsertClaims
  <2>2. \A x \in Workers : worker'[x].windows = worker[x].windows \/ worker'[x].windows = 0
    <3>1. CASE Claims!Gives(w)
      BY <1>1, <3>1, PipeConstants DEF Claims!Gives, PipeTypes
    <3>2. CASE worker' = [worker EXCEPT ![w].at = "done"]
      BY <1>1, <3>2 DEF PipeTypes, WorkerLocals
    <3> QED BY <1>9, <3>1, <3>2 DEF Claims!InsertClaims
  <2> QED BY <1>3, <2>1, <2>2, PipeConstants DEF PipeRanges
<1>10. CASE Claims!MarkDone(w)
  <2>1. PICK v \in Videos : v = worker[w].video /\ status[v] = "extracting"
    BY <1>1, <1>6, <1>10 DEF Claims!MarkDone, RowHeld
  <2>2. /\ status' = [status EXCEPT ![v] = "done"] /\ UNCHANGED <<retries, attempts>>
        /\ \A x \in Workers : worker'[x] = worker[x] \/ worker'[x] = Claims!Resting
    BY <1>1, <1>10, <2>1 DEF Claims!MarkDone, Claims!Gives, PipeTypes
  <2>3. attempts[v] # 0
    BY <1>1, <2>1 DEF Tried, PipeTypes
  <2> QED BY <1>1, <1>3, <2>2, <2>3, PipeConstants DEF PipeRanges, PipeTypes
<1> QED BY <1>4, <1>7, <1>8, <1>9, <1>10 DEF Claims!Drain

\* A poll's step keeps them.
LEMMA PollRanges ==
    ASSUME PipeInv, PipeRanges, NEW p \in Pollers, Claims!PollOnce(p) PROVE PipeRanges'
<1>1. UNCHANGED <<retries, worker, attempts>>
  BY DEF Claims!PollOnce, Claims!PollStart, Claims!AddQuota, Claims!FetchPlaylist,
     Claims!InsertItem, Claims!videoVars
<1>2. \A v \in Videos : status'[v] = "done" => status[v] = "done"
  <2>1. status' = status \/ \E v \in Videos : status' = Claims!Inserted(v)
    BY DEF Claims!PollOnce, Claims!PollStart, Claims!AddQuota, Claims!FetchPlaylist,
       Claims!InsertItem, Claims!videoVars
  <2> QED BY <2>1 DEF Claims!Inserted, PipeInv, PipeTypes
<1>3. PICK r : /\ poller' = [poller EXCEPT ![p] = r] /\ DOMAIN r = PollLocals
               /\ r.seen \subseteq Videos /\ r.items \subseteq Videos
  <2>1. /\ DOMAIN poller[p] = PollLocals
        /\ poller[p].seen \subseteq Videos /\ poller[p].items \subseteq Videos
    BY DEF PipeRanges
  <2>2. CASE Claims!PollStart(p)
    <3>1. PICK r : r = [Claims!NoPoll EXCEPT !.at = "list", !.todo = Playlists,
                           !.seen = {v \in Videos : status[v] # "absent"}]
      OBVIOUS
    <3>2. DOMAIN r = PollLocals /\ r.seen \subseteq Videos /\ r.items = {}
      BY <3>1, PipeConstants DEF PollLocals
    <3>3. poller' = [poller EXCEPT ![p] = r]
      BY <2>2, <3>1, Zenon DEF Claims!PollStart
    <3> QED BY <3>2, <3>3
  <2>3. CASE Claims!AddQuota(p)
    BY <2>3, PipeConstants DEF Claims!AddQuota
  <2>4. ASSUME NEW l \in Playlists, Claims!FetchPlaylist(p, l)
        PROVE  \E r : /\ poller' = [poller EXCEPT ![p] = r] /\ DOMAIN r = PollLocals
                      /\ r.seen \subseteq Videos /\ r.items \subseteq Videos
    <3>1. PICK r, s : /\ r = [poller[p] EXCEPT !.todo = @ \ {l}, !.units = @ + 1,
                                             !.items = Items[l] \ poller[p].seen]
                      /\ s = [poller[p] EXCEPT !.todo = @ \ {l}]
      OBVIOUS
    <3>2. /\ DOMAIN r = PollLocals /\ r.seen \subseteq Videos /\ r.items \subseteq Videos
          /\ DOMAIN s = PollLocals /\ s.seen \subseteq Videos /\ s.items \subseteq Videos
      BY <2>1, <3>1, PipeConstants DEF PollLocals
    <3>3. poller' = [poller EXCEPT ![p] = r] \/ poller' = [poller EXCEPT ![p] = s]
      BY <2>4, <3>1 DEF Claims!FetchPlaylist, PipeRanges
    <3> QED BY <3>2, <3>3
  <2>5. ASSUME NEW v \in Videos, Claims!InsertItem(p, v)
        PROVE  \E r : /\ poller' = [poller EXCEPT ![p] = r] /\ DOMAIN r = PollLocals
                      /\ r.seen \subseteq Videos /\ r.items \subseteq Videos
    <3>1. PICK r : r = [poller[p] EXCEPT !.items = @ \ {v}, !.seen = @ \cup {v}]
      OBVIOUS
    <3>2. DOMAIN r = PollLocals /\ r.seen \subseteq Videos /\ r.items \subseteq Videos
      BY <2>1, <3>1 DEF PollLocals
    <3>3. poller' = [poller EXCEPT ![p] = r]
      BY <2>5, <3>1 DEF Claims!InsertItem, PipeRanges
    <3> QED BY <3>2, <3>3
  <2> QED BY <2>2, <2>3, <2>4, <2>5 DEF Claims!PollOnce
<1>4. poller' = [q \in Pollers |-> IF q = p THEN r ELSE poller[q]]
  BY <1>3 DEF PipeRanges
<1> QED BY <1>1, <1>2, <1>3, <1>4 DEF PipeRanges

\* A process that dies leaves them.
LEMMA GivesUpRanges ==
    ASSUME PipeInv, PipeRanges, Claims!GivesUp PROVE PipeRanges'
<1>1. UNCHANGED <<status, retries, attempts>>
  BY DEF Claims!GivesUp, Claims!videoVars
<1>2. CASE \E w \in Workers : Claims!Gives(w) /\ UNCHANGED poller
  <2>1. \A x \in Workers : worker'[x] = worker[x] \/ worker'[x] = Claims!Resting
    BY <1>2 DEF Claims!Gives, PipeInv, PipeTypes
  <2> QED BY <1>1, <1>2, <2>1, PipeConstants DEF PipeRanges
<1>3. CASE \E p \in Pollers : poller' = [poller EXCEPT ![p] = Claims!NoPoll] /\ UNCHANGED worker
  BY <1>1, <1>3, PipeConstants DEF PipeRanges
<1> QED BY <1>2, <1>3 DEF Claims!GivesUp

\* The types of the pipeline.
LEMMA ClaimTypes == StoresSpec => []Claims!TypeOK
<1> DEFINE Inv == PipeInv /\ PipeRanges
<1>1. StoresInit => Inv
  BY PipeStart, RangesStart DEF StoresInit
<1>2. Inv /\ [StoresNext]_storesVars => Inv'
  <2> SUFFICES ASSUME PipeInv, PipeRanges, [StoresNext]_storesVars PROVE Inv'
    OBVIOUS
  <2>1. PipeInv'
    BY PartsMove, WorkerStep, PollStep, GivesUpStep, PipeStill DEF Claims!Next
  <2>2. PipeRanges /\ UNCHANGED videoVars => PipeRanges'
    BY DEF videoVars, PipeRanges
  <2> QED BY <2>1, <2>2, PartsMove, WorkerRanges, PollRanges, GivesUpRanges DEF Claims!Next
<1>3. Inv => Claims!TypeOK
  <2> SUFFICES ASSUME PipeInv, PipeRanges PROVE Claims!TypeOK
    OBVIOUS
  <2>1. retries \in [Videos -> 0 .. MaxRetries + 1]
    BY RetriesNatural DEF PipeInv, PipeTypes, PipeRanges
  <2>2. ASSUME NEW v \in Videos, NEW r \in claims[v] PROVE r.attempt \in 1 .. attempts[v]
    <3>1. r.attempt = attempts[v] /\ status[v] \in {"extracting", "done"} /\ attempts[v] \in Nat
      BY DEF PipeInv, PipeTypes, Stored
    <3>2. attempts[v] # 0
      BY <3>1 DEF PipeInv, PipeTypes, Tried, PipeRanges
    <3> QED BY <3>1, <3>2
  <2> QED BY <2>1, <2>2 DEF PipeInv, PipeTypes, Statuses, PipeRanges, Claims!TypeOK
<1> QED BY <1>1, <1>2, <1>3, PTL DEF StoresSpec

\* Beside NewsInv: what is read for, or stored of, a headline that has landed.
NewsRanges ==
    /\ News!Cached \subseteq News!Landed
    /\ \A i \in DOMAIN enrich.rows : enrich.rows[i] \in News!Landed
    /\ clock <= MaxNewsTime /\ fetches \in 0 .. MaxFetches

\* The bounds of a run of the news are numbers.
LEMMA NewsBounds == MaxNewsTime \in Nat /\ MaxFetches \in Nat
  BY StoresAssumption DEF StoresAssumption, News!NewsAssumption

\* The news start with nothing landed and nothing read.
LEMMA NewsRangesStart == News!Init => NewsRanges
  BY NewsBounds, NewsRest DEF News!Init, NewsRanges, News!Cached

\* What a fetch lands stays.
LEMMA LandedStays ==
    ASSUME NewsInv, News!Fetch PROVE News!Landed \subseteq News!Landed'
<1>1. raw' = raw \/ \E e : raw' = Append(raw, e)
  BY DEF News!Fetch, News!FetchStart, News!FetchFeed, News!NextFeed, News!LandItem,
         News!tableVars
<1>2. CASE raw' = raw
  BY <1>2 DEF News!Landed
<1>3. ASSUME NEW e, raw' = Append(raw, e) PROVE News!Landed \subseteq News!Landed'
  <2>1. PICK S : raw \in Seq(S)
    BY DEF NewsInv, FetchTypes
  <2>2. \A i \in DOMAIN raw : i \in DOMAIN raw' /\ raw'[i] = raw[i]
    BY <1>3, <2>1
  <2> QED BY <2>2 DEF News!Landed
<1> QED BY <1>1, <1>2, <1>3

\* A pass stores rows of the headlines it took, all of which have landed.
LEMMA EnrichRanges ==
    ASSUME NewsInv, NewsRanges, News!Enrich PROVE NewsRanges'
<1>1. UNCHANGED <<raw, clock, fetches>>
  BY DEF News!Enrich, News!PassStart, News!Classify, News!StoreCacheRow,
     News!UpsertNewsEvent, News!UndoHeadline, News!tableVars
<1>2. News!Landed' = News!Landed
  BY <1>1 DEF News!Landed
<1>3. ASSUME News!Cached' \subseteq News!Landed,
             \A i \in DOMAIN enrich'.rows : enrich'.rows[i] \in News!Landed
      PROVE  NewsRanges'
  BY <1>1, <1>2, <1>3 DEF NewsRanges
<1>4. cache' = cache => News!Cached' \subseteq News!Landed
  BY DEF NewsRanges, News!Cached
<1>5. ASSUME enrich.at # "idle", enrich' = News!Over(Tail(enrich.rows))
      PROVE  \A i \in DOMAIN enrich'.rows : enrich'.rows[i] \in News!Landed
  <2>1. enrich'.rows = <<>> \/ enrich'.rows = Tail(enrich.rows)
    BY <1>5, OverIs DEF NewsInv
  <2>2. CASE enrich'.rows = <<>>
    BY <2>2
  <2>3. CASE enrich'.rows = Tail(enrich.rows)
    BY <1>5, <2>3, BatchIs DEF NewsInv, NewsRanges
  <2> QED BY <2>1, <2>2, <2>3
<1>6. ASSUME enrich'.rows = enrich.rows
      PROVE  \A i \in DOMAIN enrich'.rows : enrich'.rows[i] \in News!Landed
  BY <1>6 DEF NewsRanges
<1>7. DOMAIN enrich = PassLocals
  BY DEF NewsInv, PassTypes
<1>8. CASE News!PassStart
  <2>1. PICK rows \in News!NewestFirst(News!ToEnrich) :
          enrich' = [News!NoPass EXCEPT !.at = "classify", !.rows = rows]
    BY <1>8 DEF News!PassStart
  <2>2. enrich'.rows = rows
    BY <2>1, NewsRest DEF PassLocals
  <2>3. \A i \in DOMAIN rows : rows[i] \in News!ToEnrich
    <3>1. PICK n \in 0 .. Batch : rows \in [1 .. n -> News!ToEnrich]
      BY <2>1 DEF News!NewestFirst, News!BoundedSeq, News!SeqOf
    <3> QED BY <3>1
  <2>4. News!ToEnrich \subseteq News!Landed /\ cache' = cache
    BY <1>8 DEF News!ToEnrich, News!Landed, News!PassStart, News!tableVars
  <2> QED BY <1>3, <1>4, <2>2, <2>3, <2>4
<1>9. CASE News!Classify
  <2>1. enrich.at # "idle" /\ cache' = cache
    BY <1>9 DEF News!Classify, News!tableVars
  <2>2. ASSUME NEW todo, NEW d,
               enrich' = [enrich EXCEPT !.at = "store", !.todo = todo, !.dilutive = d]
        PROVE  enrich'.rows = enrich.rows
    BY <1>7, <2>2 DEF PassLocals
  <2>3. enrich' = News!Over(Tail(enrich.rows)) \/ enrich'.rows = enrich.rows
    BY <1>9, <2>2 DEF News!Classify
  <2> QED BY <1>3, <1>4, <1>5, <1>6, <2>1, <2>3
<1>10. CASE News!StoreCacheRow
  <2>1. enrich'.rows = enrich.rows
    BY <1>7, <1>10 DEF News!StoreCacheRow, PassLocals
  <2>2. PICK h : h = enrich.rows[1] /\ h = Head(enrich.rows) /\ h \in News!Landed
    <3>1. enrich.at # "idle"
      BY <1>10 DEF News!StoreCacheRow
    <3> QED BY <3>1, BatchIs DEF NewsInv, NewsRanges
  <2>3. \A r \in cache' : r \in cache \/ r.hash = h
    BY <1>10, <2>2 DEF News!StoreCacheRow
  <2>4. News!Cached' \subseteq News!Landed
    BY <2>2, <2>3 DEF News!Cached, NewsRanges
  <2> QED BY <1>3, <1>6, <2>1, <2>4
<1>11. CASE News!UpsertNewsEvent
  <2>1. enrich.at # "idle" /\ cache' = cache
    BY <1>11 DEF News!UpsertNewsEvent
  <2>2. enrich' = News!Over(Tail(enrich.rows)) \/ enrich'.rows = enrich.rows
    <3>1. enrich' = News!NextTicker \/ enrich' = [enrich EXCEPT !.at = "undo"]
      BY <1>11, Zenon DEF News!UpsertNewsEvent
    <3> QED BY <1>7, <3>1 DEF News!NextTicker, PassLocals
  <2> QED BY <1>3, <1>4, <1>5, <1>6, <2>1, <2>2
<1>12. CASE News!UndoHeadline
  <2>1. enrich.at # "idle" /\ enrich' = News!Over(Tail(enrich.rows))
    BY <1>12 DEF News!UndoHeadline
  <2>2. cache' \subseteq cache
    BY <1>12 DEF News!UndoHeadline, News!Undone
  <2>3. News!Cached' \subseteq News!Landed
    BY <2>2 DEF News!Cached, NewsRanges
  <2> QED BY <1>3, <1>5, <2>1, <2>3
<1> QED BY <1>8, <1>9, <1>10, <1>11, <1>12 DEF News!Enrich

\* Each step of the news keeps the ranges.
LEMMA NewsRangesStep ==
    ASSUME NewsInv, NewsRanges, News!Next PROVE NewsRanges'
<1>1. CASE News!Fetch
  <2>1. UNCHANGED <<cache, enrich, clock>>
    BY <1>1 DEF News!Fetch, News!FetchStart, News!FetchFeed, News!NextFeed, News!LandItem,
         News!tableVars
  <2>2. fetches' = fetches \/ (fetches < MaxFetches /\ fetches' = fetches + 1)
    BY <1>1 DEF News!Fetch, News!FetchStart, News!FetchFeed, News!NextFeed, News!LandItem
  <2>3. fetches' \in 0 .. MaxFetches
    BY <2>2, NewsBounds DEF NewsRanges
  <2>4. News!Cached' = News!Cached
    BY <2>1 DEF News!Cached
  <2> QED BY <1>1, <2>1, <2>3, <2>4, LandedStays DEF NewsRanges
<1>2. CASE News!NewsTick
  <2>1. UNCHANGED <<raw, cache, enrich, fetches>> /\ clock' <= MaxNewsTime
    BY <1>2, NewsBounds DEF News!NewsTick, News!tableVars, NewsInv, FetchTypes
  <2>2. News!Cached' = News!Cached /\ News!Landed' = News!Landed
    BY <2>1 DEF News!Cached, News!Landed
  <2> QED BY <2>1, <2>2 DEF NewsRanges
<1>3. CASE News!ProcessDies
  <2>1. UNCHANGED <<raw, cache, clock, fetches>> /\ enrich' = News!NoPass
    BY <1>3 DEF News!ProcessDies, News!tableVars
  <2>2. \A i \in DOMAIN enrich'.rows : FALSE
    BY <2>1, NewsRest
  <2>3. News!Cached' = News!Cached /\ News!Landed' = News!Landed
    BY <2>1 DEF News!Cached, News!Landed
  <2> QED BY <2>1, <2>2, <2>3 DEF NewsRanges
<1> QED BY <1>1, <1>2, <1>3, EnrichRanges DEF News!Next

\* The types of the news.
LEMMA NewsTypes == StoresSpec => []News!TypeOK
<1> DEFINE Inv == NewsInv /\ NewsRanges
<1>1. StoresInit => Inv
  BY NewsStart, NewsRangesStart DEF StoresInit
<1>2. Inv /\ [StoresNext]_storesVars => Inv'
  <2> SUFFICES ASSUME NewsInv, NewsRanges, [StoresNext]_storesVars PROVE Inv'
    OBVIOUS
  <2>1. NewsInv'
    BY PartsMove, NewsStep, NewsStill
  <2>2. UNCHANGED newsVars => NewsRanges'
    BY DEF newsVars, NewsRanges, News!Cached, News!Landed
  <2> QED BY <2>1, <2>2, PartsMove, NewsRangesStep
<1>3. Inv => News!TypeOK
  <2> SUFFICES ASSUME NewsInv, NewsRanges PROVE News!TypeOK
    OBVIOUS
  <2>1. News!Landed \subseteq Headlines
    <3>1. raw \in Seq([hash : Headlines, at : Nat])
      BY DEF NewsInv, FetchTypes
    <3>2. ASSUME NEW i \in DOMAIN raw PROVE raw[i] \in [hash : Headlines, at : Nat]
      <4>1. i \in 1 .. Len(raw)
        BY <3>1
      <4> QED BY <3>1, <4>1, ElementOfSeq
    <3> QED BY <3>2 DEF News!Landed
  <2>2. clock \in 0 .. MaxNewsTime
    BY NewsBounds DEF NewsInv, FetchTypes, NewsRanges
  <2> QED BY <2>1, <2>2 DEF NewsInv, FetchTypes, PassTypes, NewsRanges, News!TypeOK
<1> QED BY <1>1, <1>2, <1>3, PTL DEF StoresSpec

\* Beside FlowInv: the bounds of the watcher's queue, its bars and its ticks.
FlowRanges ==
    /\ extra \subseteq Injectable /\ bars \in [WatchNames -> 0 .. MaxBars]
    /\ Len(queue) <= MaxSymbols /\ verdict \in Watcher!States \cup {"none"}
    /\ ticks \in 0 .. MaxTicks /\ troubles \in FlowFaults

\* The bounds of a run of the watcher are numbers.
LEMMA FlowBounds == MaxBars \in Nat /\ MaxTicks \in Nat /\ MaxSymbols \in Nat
  BY StoresAssumption DEF StoresAssumption, Watcher!FlowAssumption

\* The queue of a tick is no longer than it takes symbols.
LEMMA QueueBounded ==
    ASSUME FlowInv, FlowRanges, Watcher!Next PROVE Len(queue') <= MaxSymbols
<1>1. \/ queue' = queue \/ queue' = <<>> \/ (queue # <<>> /\ queue' = Tail(queue))
      \/ Watcher!TickStart
  <2>1. Watcher!NextSymbol => queue' = Tail(queue)
    BY DEF Watcher!NextSymbol
  <2>2. \A w : Watcher!Proceed(w) => queue' = queue
    BY DEF Watcher!Proceed
  <2>3. at # "idle" => queue # <<>>
    BY DEF FlowInv, FlowTypes
  <2> QED BY <2>1, <2>2, <2>3
      DEF Watcher!Next, Watcher!Inject, Watcher!Ingest, Watcher!NewDate, Watcher!TickWithout,
          Watcher!Known, Watcher!StaysReady, Watcher!Die, Watcher!Discover, Watcher!Abandon,
          Watcher!WaitForData, Watcher!BecomesReady, Watcher!Signal, Watcher!NotReady,
          Watcher!Evaluate
<1>2. CASE queue' = queue \/ queue' = <<>>
  BY <1>2, FlowBounds DEF FlowRanges
<1>3. CASE queue # <<>> /\ queue' = Tail(queue)
  <2>1. queue \in Seq(WatchNames)
    BY DEF FlowInv, FlowTypes
  <2>2. Len(queue') = Len(queue) - 1 /\ Len(queue) \in Nat
    BY <1>3, <2>1, HeadTailProperties
  <2> QED BY <2>2, FlowBounds DEF FlowRanges
<1>4. CASE Watcher!TickStart
  <2>1. PICK inBand \in SUBSET WatchNames : \E o \in Watcher!Candidates(inBand) :
          queue' = SubSeq(o, 1, Watcher!Min({MaxSymbols, Len(o)}))
    BY <1>4 DEF Watcher!TickStart
  <2>2. PICK o \in Watcher!Candidates(inBand) :
          queue' = SubSeq(o, 1, Watcher!Min({MaxSymbols, Len(o)}))
    BY <2>1
  <2>3. o \in Seq(WatchNames) /\ Len(o) \in Nat
    BY CandidatesAre DEF FlowInv
  <2>4. PICK m : m = Watcher!Min({MaxSymbols, Len(o)})
    OBVIOUS
  <2>5. m \in {MaxSymbols, Len(o)} /\ m <= Len(o)
    BY <2>3, <2>4, FlowBounds, SmallerOfTwo
  <2>6. m \in Nat /\ m <= MaxSymbols
    <3>1. \E x \in {MaxSymbols, Len(o)} : \A y \in {MaxSymbols, Len(o)} : x =< y
      BY <2>3, FlowBounds
    <3>2. \A y \in {MaxSymbols, Len(o)} : m =< y
      BY <2>4, <3>1, Zenon DEF Watcher!Min
    <3> QED BY <2>3, <2>5, <3>2, FlowBounds
  <2>7. \A i \in 1 .. m : o[i] \in WatchNames
    BY <2>3, <2>5, <2>6
  <2>8. Len(SubSeq(o, 1, m)) = m
    <3>1. 1 \in Int /\ m \in Int
      BY <2>6
    <3>2. Len(SubSeq(o, 1, m)) = IF 1 <= m THEN m - 1 + 1 ELSE 0
      BY <2>7, <3>1, SubSeqProperties
    <3> QED BY <2>6, <3>2
  <2> QED BY <2>2, <2>4, <2>6, <2>8
<1> QED BY <1>1, <1>2, <1>3, <1>4

\* Each step of the watcher keeps the bounds.
LEMMA FlowRangesStep ==
    ASSUME FlowInv, FlowRanges, Watcher!Next PROVE FlowRanges'
<1>1. extra' \subseteq Injectable /\ troubles' \in FlowFaults
  BY DEF FlowRanges, Watcher!Next, Watcher!Inject, Watcher!Ingest, Watcher!NewDate,
     Watcher!TickStart, Watcher!TickWithout, Watcher!Known, Watcher!StaysReady, Watcher!Die,
     Watcher!Discover, Watcher!WaitForData, Watcher!BecomesReady, Watcher!Signal,
     Watcher!NotReady, Watcher!Evaluate
<1>2. bars' \in [WatchNames -> 0 .. MaxBars]
  <2>1. \/ bars' = bars \/ bars' = [s \in WatchNames |-> 0]
        \/ \E s \in WatchNames : bars[s] < MaxBars /\ bars' = [bars EXCEPT ![s] = @ + 1]
    BY DEF Watcher!Next, Watcher!Inject, Watcher!Ingest, Watcher!NewDate,
     Watcher!TickStart, Watcher!TickWithout, Watcher!Known, Watcher!StaysReady, Watcher!Die,
     Watcher!Discover, Watcher!WaitForData, Watcher!BecomesReady, Watcher!Signal,
     Watcher!NotReady, Watcher!Evaluate
  <2>2. ASSUME NEW s \in WatchNames, bars[s] < MaxBars, bars' = [bars EXCEPT ![s] = @ + 1]
        PROVE  bars' \in [WatchNames -> 0 .. MaxBars]
    <3>1. bars \in [WatchNames -> 0 .. MaxBars]
      BY DEF FlowRanges
    <3>2. bars[s] + 1 \in 0 .. MaxBars
      BY <2>2, <3>1, FlowBounds
    <3> QED BY <2>2, <3>1, <3>2
  <2>3. [s \in WatchNames |-> 0] \in [WatchNames -> 0 .. MaxBars]
    BY FlowBounds
  <2> QED BY <2>1, <2>2, <2>3 DEF FlowRanges
<1>3. verdict' \in Watcher!States \cup {"none"}
  <2>1. verdict' = verdict \/ verdict' = "none" \/ verdict' \in Watcher!States
    BY DEF Watcher!Next, Watcher!Inject, Watcher!Ingest, Watcher!NewDate,
     Watcher!TickStart, Watcher!TickWithout, Watcher!Known, Watcher!StaysReady, Watcher!Die,
     Watcher!Discover, Watcher!WaitForData, Watcher!BecomesReady, Watcher!Signal,
     Watcher!NotReady, Watcher!Evaluate
  <2> QED BY <2>1 DEF FlowRanges
<1>4. ticks' \in 0 .. MaxTicks
  <2>1. ticks' = ticks \/ (ticks < MaxTicks /\ ticks' = ticks + 1)
    BY DEF Watcher!Next, Watcher!Inject, Watcher!Ingest, Watcher!NewDate,
     Watcher!TickStart, Watcher!TickWithout, Watcher!Known, Watcher!StaysReady, Watcher!Die,
     Watcher!Discover, Watcher!WaitForData, Watcher!BecomesReady, Watcher!Signal,
     Watcher!NotReady, Watcher!Evaluate
  <2> QED BY <2>1, FlowBounds DEF FlowRanges
<1> QED BY <1>1, <1>2, <1>3, <1>4, QueueBounded DEF FlowRanges

\* The types of the watcher.
LEMMA WatcherTypes == StoresSpec => []Watcher!TypeOK
<1> DEFINE Inv == FlowInv /\ FlowRanges
<1>1. StoresInit => Inv
  <2>1. Watcher!Init => FlowRanges
    BY FlowBounds DEF Watcher!Init, FlowRanges
  <2> QED BY <2>1, FlowStart DEF StoresInit
<1>2. Inv /\ [StoresNext]_storesVars => Inv'
  <2>1. FlowRanges /\ UNCHANGED flowVars => FlowRanges'
    BY DEF flowVars, FlowRanges
  <2> QED BY <2>1, PartsMove, FlowStep, FlowStill, FlowRangesStep
<1>3. Inv => Watcher!TypeOK
  BY DEF FlowInv, FlowTypes, FlowRanges, Watcher!TypeOK
<1> QED BY <1>1, <1>2, <1>3, PTL DEF StoresSpec

\* Beside NoticeInv: the store's rows that are seen, and what the bot asked for and answered,
\* also when it is started again.
NoticeRanges ==
    /\ Len(risks) <= MaxRisks
    /\ seen \subseteq DOMAIN risks /\ pushed \subseteq DOMAIN risks
    /\ answers \in [1 .. MaxQuestions -> Nat] /\ primed \in BOOLEAN
    /\ starts \in 1 .. MaxStarts /\ questions \in 0 .. MaxQuestions
    /\ confirmed \in 0 .. questions
    /\ batch \in Seq(1 .. MaxQuestions) /\ offset \in 0 .. MaxQuestions + 1
    /\ ills \in NoticeFaults

\* The bounds of a run of the notices.
LEMMA NoticeLimits ==
    MaxRisks \in Nat \ {0} /\ MaxStarts \in Nat \ {0} /\ MaxQuestions \in Nat
  BY StoresAssumption DEF StoresAssumption, Notices!NoticesAssumption

\* The notifier and the bot start within them.
LEMMA NoticeRangesStart == Notices!Init => NoticeRanges
<1> SUFFICES ASSUME Notices!Init PROVE NoticeRanges
  OBVIOUS
<1>1. Len(risks) <= MaxRisks
  <2>1. risks = <<>> \/ risks = <<TRUE>>
    BY DEF Notices!Init
  <2>2. Len(<<>>) = 0 /\ Len(<<TRUE>>) = 1
    OBVIOUS
  <2>3. Len(risks) = 0 \/ Len(risks) = 1
    BY <2>1, <2>2, Zenon
  <2> QED BY <2>3, NoticeLimits
<1>2. batch \in Seq(1 .. MaxQuestions)
  <2>1. batch = <<>>
    BY DEF Notices!Init
  <2> QED BY <2>1
<1>3. answers \in [1 .. MaxQuestions -> Nat]
  BY DEF Notices!Init
<1>4. seen \subseteq DOMAIN risks /\ pushed \subseteq DOMAIN risks
  BY DEF Notices!Init
<1>5. /\ starts \in 1 .. MaxStarts
      /\ questions \in 0 .. MaxQuestions /\ confirmed \in 0 .. questions
      /\ offset \in 0 .. MaxQuestions + 1 /\ primed \in BOOLEAN /\ ills \in NoticeFaults
  BY NoticeLimits DEF Notices!Init
<1> QED BY <1>1, <1>2, <1>3, <1>4, <1>5 DEF NoticeRanges

\* The notifier's steps keep them.
LEMMA NotifierRanges ==
    ASSUME NotifierInv, NoticeRanges,
           \/ \E major \in BOOLEAN : Notices!Happens(major)
           \/ Notices!StartNotifier \/ Notices!Poll
    PROVE  NoticeRanges'
<1>1. UNCHANGED <<questions, confirmed, batch, offset, answers, ills>>
  BY DEF Notices!Happens, Notices!StartNotifier, Notices!Poll, Notices!botVars
<1>2. starts' \in 1 .. MaxStarts
  <2>1. starts' = starts \/ (starts < MaxStarts /\ starts' = starts + 1)
    BY DEF Notices!Happens, Notices!StartNotifier, Notices!Poll
  <2> QED BY <2>1, NoticeLimits DEF NoticeRanges
<1>3. primed' \in BOOLEAN
  BY DEF Notices!Happens, Notices!StartNotifier, Notices!Poll, NoticeRanges
<1>4. Len(risks') <= MaxRisks /\ seen' \subseteq DOMAIN risks' /\ pushed' \subseteq DOMAIN risks'
  <2>1. ASSUME NEW major \in BOOLEAN, Notices!Happens(major)
        PROVE  /\ Len(risks') <= MaxRisks
               /\ seen' \subseteq DOMAIN risks' /\ pushed' \subseteq DOMAIN risks'
    <3>1. risks \in Seq(BOOLEAN) /\ Len(risks) < MaxRisks /\ risks' = Append(risks, major)
      BY <2>1 DEF Notices!Happens, NotifierInv
    <3>2. Len(risks') = Len(risks) + 1 /\ Len(risks) \in Nat /\ DOMAIN risks \subseteq DOMAIN risks'
      BY <3>1
    <3>3. UNCHANGED <<seen, pushed>>
      BY <2>1 DEF Notices!Happens
    <3> QED BY <3>1, <3>2, <3>3, NoticeLimits DEF NoticeRanges
  <2>2. CASE Notices!StartNotifier \/ Notices!Poll
    <3>1. risks' = risks
      BY <2>2 DEF Notices!StartNotifier, Notices!Poll
    <3>2. Notices!Scanned \subseteq DOMAIN risks
      BY DEF Notices!Scanned
    <3> QED BY <2>2, <3>1, <3>2 DEF Notices!StartNotifier, Notices!Poll, Notices!NewOnes, NoticeRanges
  <2> QED BY <2>1, <2>2
<1> QED BY <1>1, <1>2, <1>3, <1>4 DEF NoticeRanges

\* The bot's steps keep them.
LEMMA BotRanges ==
    ASSUME NoticeRanges,
           Notices!Ask \/ Notices!GetUpdates \/ Notices!Answer \/ Notices!BotDies
    PROVE  NoticeRanges'
<1>1. UNCHANGED <<risks, seen, pushed, primed, ills>>
  BY DEF Notices!Ask, Notices!GetUpdates, Notices!Answer, Notices!BotDies, Notices!notifierVars
<1>2. CASE Notices!Ask
  <2>1. questions' = questions + 1 /\ questions < MaxQuestions
        /\ UNCHANGED <<starts, confirmed, batch, offset, answers>>
    BY <1>2 DEF Notices!Ask, Notices!notifierVars
  <2>2. questions' \in 0 .. MaxQuestions /\ confirmed \in 0 .. questions'
    BY <2>1, NoticeLimits DEF NoticeRanges
  <2> QED BY <1>1, <2>1, <2>2 DEF NoticeRanges
<1>3. CASE Notices!GetUpdates
  <2>1. PICK c : c = confirmed'
    OBVIOUS
  <2>2. /\ c = Notices!Max({confirmed, offset - 1}) /\ c < questions
        /\ batch' = [i \in 1 .. questions - c |-> c + i]
        /\ UNCHANGED <<starts, questions, offset, answers>>
    BY <1>3, <2>1 DEF Notices!GetUpdates, Notices!notifierVars
  <2>3. c \in Nat
    <3>1. \E x \in {confirmed, offset - 1} : \A y \in {confirmed, offset - 1} : x >= y
      BY NoticeLimits DEF NoticeRanges
    <3>2. c \in {confirmed, offset - 1} /\ \A y \in {confirmed, offset - 1} : c >= y
      BY <2>2, <3>1, Zenon DEF Notices!Max
    <3> QED BY <3>2, NoticeLimits DEF NoticeRanges
  <2>4. batch' \in Seq(1 .. MaxQuestions)
    <3>1. questions - c \in Nat /\ questions \in Nat /\ questions <= MaxQuestions
      BY <2>2, <2>3, NoticeLimits DEF NoticeRanges
    <3>2. PICK n \in Nat : n = questions - c
      BY <3>1
    <3>3. PICK S : S = 1 .. MaxQuestions
      OBVIOUS
    <3>4. \A i \in 1 .. n : c + i \in S
      BY <2>3, <3>1, <3>2, <3>3, NoticeLimits
    <3>5. batch' \in Seq(S)
      <4>1. batch' = [i \in 1 .. n |-> c + i]
        BY <2>2, <3>2
      <4>2. batch' \in [1 .. n -> S]
        BY <3>4, <4>1
      <4> QED BY <3>2, <4>2
    <3> QED BY <3>3, <3>5
  <2>5. c \in 0 .. questions
    BY <2>2, <2>3 DEF NoticeRanges
  <2> QED BY <1>1, <2>1, <2>2, <2>4, <2>5 DEF NoticeRanges
<1>4. CASE Notices!Answer
  <2>1. /\ batch # <<>> /\ batch' = Tail(batch) /\ offset' = Head(batch) + 1
        /\ UNCHANGED <<starts, questions, confirmed>>
        /\ \/ answers' = [answers EXCEPT ![Head(batch)] = @ + 1]
           \/ UNCHANGED answers
    BY <1>4 DEF Notices!Answer, Notices!notifierVars
  <2>2. PICK h : h = Head(batch)
    OBVIOUS
  <2>3. h \in 1 .. MaxQuestions /\ batch' \in Seq(1 .. MaxQuestions)
    BY <2>1, <2>2, HeadTailProperties DEF NoticeRanges
  <2>4. offset' \in 0 .. MaxQuestions + 1
    BY <2>1, <2>2, <2>3, NoticeLimits
  <2>5. answers' \in [1 .. MaxQuestions -> Nat]
    BY <2>1, <2>2, <2>3 DEF NoticeRanges
  <2> QED BY <1>1, <2>1, <2>3, <2>4, <2>5 DEF NoticeRanges
<1>5. CASE Notices!BotDies
  <2>1. /\ starts < MaxStarts /\ starts' = starts + 1 /\ batch' = <<>> /\ offset' = 0
        /\ UNCHANGED <<questions, confirmed, answers>>
    BY <1>5 DEF Notices!BotDies
  <2>2. starts' \in 1 .. MaxStarts /\ 0 \in 0 .. MaxQuestions + 1
    BY <2>1, NoticeLimits DEF NoticeRanges
  <2>3. <<>> \in Seq(1 .. MaxQuestions)
    OBVIOUS
  <2> QED BY <1>1, <2>1, <2>2, <2>3 DEF NoticeRanges
<1> QED BY <1>2, <1>3, <1>4, <1>5

\* The types of the notices.
LEMMA NoticeTypes == StoresSpec => []Notices!TypeOK
<1> DEFINE Inv == NoticeInv /\ NoticeRanges
<1>1. StoresInit => Inv
  BY NoticeStart, NoticeRangesStart DEF StoresInit
<1>2. Inv /\ [StoresNext]_storesVars => Inv'
  <2> SUFFICES ASSUME NoticeInv, NoticeRanges, [StoresNext]_storesVars PROVE Inv'
    OBVIOUS
  <2>1. NoticeInv'
    BY PartsMove, NoticeStep, NoticeStill
  <2>2. Notices!Next => NoticeRanges'
    BY NotifierRanges, BotRanges DEF Notices!Next, NoticeInv
  <2>3. UNCHANGED noticeVars => NoticeRanges'
    BY DEF noticeVars, NoticeRanges
  <2> QED BY <2>1, <2>2, <2>3, PartsMove
<1>3. Inv => Notices!TypeOK
  <2> SUFFICES ASSUME NoticeInv, NoticeRanges PROVE Notices!TypeOK
    OBVIOUS
  <2>1. before \in 0 .. MaxRisks
    <3>1. risks \in Seq(BOOLEAN) /\ Len(risks) \in Nat /\ before \in 0 .. Len(risks)
      BY DEF NoticeInv, NotifierInv
    <3> QED BY <3>1, NoticeLimits DEF NoticeRanges
  <2>2. alerts \in [1 .. MaxRisks -> Nat]
    BY DEF NoticeInv, NotifierInv
  <2> QED BY <2>1, <2>2 DEF NoticeInv, NotifierInv, NoticeRanges, Notices!TypeOK
<1> QED BY <1>1, <1>2, <1>3, PTL DEF StoresSpec

\* Beside LogInv: the log within its bound, and what each writer did, logged or not.
LogRanges ==
    /\ Len(log) <= MaxEvents /\ drops \in 0 .. MaxDrops /\ stream.count >= -1
    /\ truth \in [Tickets \cup Watched -> {"none"} \cup AllKinds]

\* The bounds of a run of the log are numbers.
LEMMA LogBounds == MaxEvents \in Nat /\ MaxDrops \in Nat
  BY StoresAssumption DEF StoresAssumption, Log!LogAssumption

\* The log starts within them.
LEMMA LogRangesStart == Log!Init => LogRanges
<1> SUFFICES ASSUME Log!Init PROVE LogRanges
  OBVIOUS
<1>1. stream.count = -1
  BY DEF Log!Init, Log!Quiet
<1>2. truth \in [Tickets \cup Watched -> {"none"} \cup AllKinds]
  BY DEF Log!Init
<1> QED BY <1>1, <1>2, LogBounds DEF Log!Init, LogRanges

\* Each step of the log keeps them.
LEMMA LogRangesStep ==
    ASSUME LogInv, LogRanges, Log!Next PROVE LogRanges'
<1>1. Len(log) \in Nat
  BY DEF LogInv
<1>2. ASSUME NEW x \in Tickets \cup Watched, NEW k \in AllKinds, Log!Emit(x, k) PROVE LogRanges'
  <2>1. /\ truth' = [truth EXCEPT ![x] = k] /\ Len(log) < MaxEvents
        /\ UNCHANGED <<stream, drops>>
    BY <1>2 DEF Log!Emit
  <2>2. truth' \in [Tickets \cup Watched -> {"none"} \cup AllKinds]
    BY <2>1 DEF LogRanges
  <2>3. Len(log') <= MaxEvents
    <3>1. CASE log' = log
      BY <3>1 DEF LogRanges
    <3>2. CASE log' = Append(log, [of |-> x, kind |-> k])
      <4>1. PICK e : e = [of |-> x, kind |-> k]
        OBVIOUS
      <4>2. PICK S : log \in Seq(S) /\ e \in S
        <5>1. e \in Rows
          BY <4>1 DEF Rows, AllKinds
        <5> QED BY <5>1 DEF LogInv
      <4>3. Len(log') = Len(log) + 1
        BY <3>2, <4>1, <4>2, AppendProperties
      <4> QED BY <1>1, <2>1, <4>3, LogBounds
    <3> QED BY <1>2, <3>1, <3>2 DEF Log!Emit
  <2> QED BY <2>1, <2>2, <2>3 DEF LogRanges
<1>3. CASE Log!Drop \/ Log!Select
  <2>1. UNCHANGED <<log, truth, stream>>
    BY <1>3 DEF Log!Drop, Log!Select
  <2>2. drops' = drops \/ (drops < MaxDrops /\ drops' = drops + 1)
    BY <1>3 DEF Log!Drop, Log!Select
  <2> QED BY <2>1, <2>2, LogBounds DEF LogRanges
<1>4. CASE Log!Count \/ Log!Send \/ Log!Reload
  <2>1. UNCHANGED <<log, truth, drops>>
    BY <1>4 DEF Log!Count, Log!Send, Log!Reload
  <2>2. stream'.count >= -1
    <3>1. CASE Log!Count
      BY <1>1, <3>1 DEF Log!Count
    <3>2. CASE Log!Send
      BY <3>2 DEF Log!Send, LogInv, LogRanges
    <3>3. CASE Log!Reload
      BY <3>3 DEF Log!Reload, Log!Quiet
    <3> QED BY <1>4, <3>1, <3>2, <3>3
  <2> QED BY <2>1, <2>2 DEF LogRanges
<1> QED BY <1>2, <1>3, <1>4 DEF Log!Next, AllKinds

\* The types of the log.
LEMMA LogTypes == StoresSpec => []Log!TypeOK
<1> DEFINE Inv == LogInv /\ LogRanges
<1>1. StoresInit => Inv
  BY LogStart, LogRangesStart DEF StoresInit
<1>2. Inv /\ [StoresNext]_storesVars => Inv'
  <2>1. LogRanges /\ UNCHANGED logVars => LogRanges'
    BY DEF logVars, LogRanges
  <2> QED BY <2>1, PartsMove, LogStep, LogStill, LogRangesStep
<1>3. Inv => Log!TypeOK
  <2> SUFFICES ASSUME LogInv, LogRanges PROVE Log!TypeOK
    OBVIOUS
  <2>1. \A e \in Log!Range(log) :
          e.of \in Tickets \cup Watched /\ e.kind \in Log!OrderKinds \cup Log!WatchKinds
    <3>1. ASSUME NEW i \in DOMAIN log PROVE log[i] \in Rows
      <4>1. i \in 1 .. Len(log) /\ log \in Seq(Rows)
        BY DEF LogInv
      <4> QED BY <4>1, ElementOfSeq
    <3> QED BY <3>1 DEF Log!Range, Rows
  <2>2. Len(log) \in Nat
    BY DEF LogInv
  <2>3. stream.count \in -1 .. MaxEvents /\ page \in 0 .. MaxEvents
    BY <2>2, LogBounds DEF LogInv, LogRanges
  <2> QED BY <2>1, <2>3 DEF LogInv, LogRanges, AllKinds, Log!TypeOK
<1> QED BY <1>1, <1>2, <1>3, PTL DEF StoresSpec

\* Beside LabelInv: the setups that were left without their label, and the bounds.
LabelRanges ==
    broken \subseteq Store!Setups /\ builds \in 0 .. MaxBuilds /\ changes \in 0 .. MaxChanges

\* The bounds of a run of the builds are numbers.
LEMMA LabelBounds == MaxBuilds \in Nat /\ MaxChanges \in Nat
  BY StoresAssumption DEF StoresAssumption, Store!LabelAssumption

\* Each step of the builds keeps them.
LEMMA LabelRangesStep ==
    ASSUME LabelInv, LabelRanges, Store!Next PROVE LabelRanges'
<1>1. broken' \subseteq Store!Setups
  <2>1. \/ broken' \subseteq broken \/ broken' \subseteq broken \cup labels
        \/ broken' \subseteq broken \cup setups
    BY DEF Store!Next, Store!Start, Store!DeleteFeatures, Store!DeleteLabels,
       Store!DeleteSetups, Store!Skip, Store!Refused, Store!Insert, Store!Finish, Store!Die,
       Store!BarsChange
  <2> QED BY <2>1 DEF LabelInv, LabelTypes, LabelRanges
<1>2. builds' = builds \/ (builds < MaxBuilds /\ builds' = builds + 1)
  BY DEF Store!Next, Store!Start, Store!DeleteFeatures, Store!DeleteLabels,
     Store!DeleteSetups, Store!Skip, Store!Refused, Store!Insert, Store!Finish, Store!Die,
     Store!BarsChange
<1>3. changes' = changes \/ (changes < MaxChanges /\ changes' = changes + 1)
  BY DEF Store!Next, Store!Start, Store!DeleteFeatures, Store!DeleteLabels,
     Store!DeleteSetups, Store!Skip, Store!Refused, Store!Insert, Store!Finish, Store!Die,
     Store!BarsChange
<1> QED BY <1>1, <1>2, <1>3, LabelBounds DEF LabelRanges

\* The types of the labeler's tables.
LEMMA StoreTypes == StoresSpec => []Store!TypeOK
<1> DEFINE Inv == LabelInv /\ LabelRanges
<1>1. StoresInit => Inv
  <2>1. Store!Init => LabelRanges
    BY LabelBounds DEF Store!Init, LabelRanges
  <2> QED BY <2>1, LabelStart DEF StoresInit
<1>2. Inv /\ [StoresNext]_storesVars => Inv'
  <2>1. LabelRanges /\ UNCHANGED labelVars => LabelRanges'
    BY DEF labelVars, LabelRanges
  <2> QED BY <2>1, PartsMove, LabelStep, LabelStill, LabelRangesStep
<1>3. Inv => Store!TypeOK
  <2> SUFFICES ASSUME LabelInv, LabelRanges PROVE Store!TypeOK
    OBVIOUS
  <2>1. job.track \in BuiltTracks \cup {"none"} /\ job.session \in 0 .. Sessions + 1
    <3>1. CASE job = Store!Idle
      BY <3>1, SessionsNatural DEF Store!Idle
    <3>2. CASE job # Store!Idle
      BY <3>2, JobShape, SessionsNatural DEF LabelInv
    <3> QED BY <3>1, <3>2
  <2>2. features \subseteq Store!Setups
    BY DEF LabelInv, LabelTypes, Store!Of
  <2> QED BY <2>1, <2>2 DEF LabelInv, LabelTypes, LabelRanges, Store!TypeOK
<1> QED BY <1>1, <1>2, <1>3, PTL DEF StoresSpec

\* What holds of m, and of n + 1 when it holds of n, holds from m on to k.
LEMMA Induct ==
    ASSUME NEW m \in Nat, NEW k \in Nat, NEW S,
           m \in S, \A n \in m .. k : n \in S /\ n < k => n + 1 \in S
    PROVE  m .. k \subseteq S
<1> SUFFICES ASSUME NEW x \in m .. k, x \notin S PROVE FALSE
  OBVIOUS
<1> DEFINE T == {n \in m .. k : n \notin S}
<1>1. T \in SUBSET Nat /\ T # {}
  OBVIOUS
<1>2. PICK l \in T : \A y \in T : l <= y
  BY <1>1, LeastNatural
<1>3. l \in m .. k /\ l \notin S /\ l # m
  OBVIOUS
<1>4. l - 1 \in m .. k /\ l - 1 < l /\ l - 1 < k /\ (l - 1) + 1 = l
  BY <1>3
<1>5. l - 1 \in S
  BY <1>2, <1>4
<1> QED BY <1>3, <1>4, <1>5

\* f begins with start and goes on by step.
IsWalk(f, N, V, start, step) ==
    /\ f \in [0 .. N -> V] /\ f[0] = start
    /\ \A n \in 1 .. N : f[n] = step[<<f[n - 1], n>>]

\* A function on 0 .. N that is given by its start and by a step exists.
LEMMA Recursion ==
    ASSUME NEW N \in Nat, NEW V, NEW start, start \in V,
           NEW step, step \in [V \X (1 .. N) -> V]
    PROVE  \E f : IsWalk(f, N, V, start, step)
<1> DEFINE Walks(f, k) ==
             f[0] = start /\ \A n \in 1 .. k : f[n] = step[<<f[n - 1], n>>]
           S == {k \in 0 .. N : \E f \in [0 .. k -> V] : Walks(f, k)}
<1>1. 0 \in S
  <2> DEFINE f == [n \in 0 .. 0 |-> start]
  <2>1. f \in [0 .. 0 -> V] /\ Walks(f, 0) /\ 0 \in 0 .. N
    OBVIOUS
  <2> HIDE DEF f, Walks
  <2> QED BY <2>1
<1>2. ASSUME NEW k \in 0 .. N, k \in S, k < N PROVE k + 1 \in S
  <2>1. PICK f \in [0 .. k -> V] : Walks(f, k)
    BY <1>2
  <2> DEFINE g == [n \in 0 .. (k + 1) |-> IF n <= k THEN f[n] ELSE step[<<f[k], k + 1>>]]
  <2>2. g \in [0 .. (k + 1) -> V] /\ k + 1 \in 0 .. N
    BY <1>2
  <2>3. ASSUME NEW n \in 1 .. (k + 1) PROVE g[n] = step[<<g[n - 1], n>>]
    <3>1. g[n - 1] = f[n - 1]
      OBVIOUS
    <3>2. CASE n \in 1 .. k
      BY <2>1, <3>1, <3>2
    <3>3. CASE n = k + 1
      <4>1. g[k + 1] = step[<<f[k], k + 1>>] /\ n - 1 = k
        BY <3>3
      <4> HIDE DEF g
      <4> QED BY <3>1, <3>3, <4>1
    <3> QED BY <3>2, <3>3
  <2>4. Walks(g, k + 1)
    <3>1. g[0] = start
      BY <2>1
    <3> HIDE DEF g
    <3> QED BY <2>3, <3>1
  <2> HIDE DEF g, Walks
  <2> QED BY <2>2, <2>4
<1> HIDE DEF S
<1>3. 0 .. N \subseteq S
  BY <1>1, <1>2, Induct
<1>4. N \in S
  BY <1>3
<1> QED BY <1>4 DEF S, IsWalk

\* A list of symbols without repetitions.
Lists == {q \in Seq(Stocks) : Market!IsInjective(q)}

\* The empty one is.
LEMMA NoList == <<>> \in Lists
  BY DEF Lists, Market!IsInjective

\* It stays one when a symbol that is not in it joins.
LEMMA OneMore ==
    ASSUME NEW q \in Lists, NEW s \in Stocks, s \notin Market!Range(q) PROVE Append(q, s) \in Lists
<1>1. PICK n : n = Len(q)
  OBVIOUS
<1>2. /\ q \in Seq(Stocks) /\ n \in Nat /\ DOMAIN q = 1 .. n
      /\ \A i, j \in 1 .. n : q[i] = q[j] => i = j
      /\ \A i \in 1 .. n : q[i] # s
  BY <1>1 DEF Lists, Market!IsInjective, Market!Range
<1>3. PICK r : r = Append(q, s)
  OBVIOUS
<1>4. /\ r \in Seq(Stocks) /\ DOMAIN r = 1 .. n + 1 /\ r[n + 1] = s
      /\ \A i \in 1 .. n : r[i] = q[i]
  BY <1>1, <1>2, <1>3, AppendProperties
<1>5. ASSUME NEW i \in 1 .. n + 1, NEW j \in 1 .. n + 1, r[i] = r[j] PROVE i = j
  <2>1. (i \in 1 .. n \/ i = n + 1) /\ (j \in 1 .. n \/ j = n + 1)
    BY <1>2
  <2> QED BY <1>2, <1>4, <1>5, <2>1
<1> QED BY <1>3, <1>4, <1>5 DEF Lists, Market!IsInjective

\* A part of it is one.
LEMMA PartOf ==
    ASSUME NEW q \in Lists, NEW m \in Nat \ {0}, NEW n \in Nat, n <= Len(q)
    PROVE  SubSeq(q, m, n) \in Lists
<1>1. /\ q \in Seq(Stocks) /\ Len(q) \in Nat /\ DOMAIN q = 1 .. Len(q)
      /\ \A i, j \in 1 .. Len(q) : q[i] = q[j] => i = j
  BY DEF Lists, Market!IsInjective
<1>2. PICK r : r = SubSeq(q, m, n)
  OBVIOUS
<1>3. m \in Int /\ n \in Int /\ \A i \in m .. n : q[i] \in Stocks
  BY <1>1
<1>4. /\ r \in Seq(Stocks) /\ Len(r) = IF m <= n THEN n - m + 1 ELSE 0
      /\ \A i \in 1 .. n - m + 1 : r[i] = q[m + i - 1]
  BY <1>2, <1>3, SubSeqProperties
<1>5. ASSUME NEW i \in DOMAIN r, NEW j \in DOMAIN r, r[i] = r[j] PROVE i = j
  <2>1. i \in 1 .. n - m + 1 /\ j \in 1 .. n - m + 1
    BY <1>4
  <2>2. m + i - 1 \in 1 .. Len(q) /\ m + j - 1 \in 1 .. Len(q)
    BY <1>1, <2>1
  <2>3. m + i - 1 = m + j - 1
    BY <1>1, <1>4, <1>5, <2>1, <2>2
  <2> QED BY <2>1, <2>3
<1> QED BY <1>2, <1>4, <1>5 DEF Lists, Market!IsInjective

\* The first symbols of a list.
LEMMA FirstIs ==
    ASSUME NEW q \in Lists, NEW top \in Nat PROVE Market!First(q, top) \in Lists
<1>1. Len(q) \in Nat
  BY DEF Lists
<1>2. PICK m : m = Market!Min({top, Len(q)})
  OBVIOUS
<1>3. \E x \in {top, Len(q)} : \A y \in {top, Len(q)} : x <= y
  BY <1>1
<1>4. m \in {top, Len(q)} /\ \A y \in {top, Len(q)} : m <= y
  BY <1>2, <1>3, Zenon DEF Market!Min
<1>5. m \in Nat /\ m <= Len(q)
  BY <1>1, <1>4
<1> QED BY <1>2, <1>5, PartOf DEF Market!First

\* What joins a list leaves it one.
LEMMA JoinedIs ==
    ASSUME NEW names \in Lists, NEW others \in Seq(Stocks), NEW allowed
    PROVE  Market!Joined(names, others, allowed) \in Lists
<1> DEFINE N == Len(others)
           After(q, i) == IF others[i] \in allowed \ Market!Range(q)
                          THEN Append(q, others[i]) ELSE q
           step == [p \in Lists \X (1 .. N) |-> After(p[1], p[2])]
<1>1. N \in Nat /\ \A i \in 1 .. N : others[i] \in Stocks
  OBVIOUS
<1>2. ASSUME NEW q \in Lists, NEW i \in 1 .. N PROVE After(q, i) \in Lists
  BY <1>1, OneMore
<1>3. step \in [Lists \X (1 .. N) -> Lists]
  BY <1>2
<1>4. \A q \in Lists, i \in 1 .. N : step[<<q, i>>] = After(q, i)
  OBVIOUS
<1> HIDE DEF step, N
<1>w. PICK f : IsWalk(f, N, Lists, names, step)
  <2>1. N \in Nat /\ names \in Lists
    BY <1>1
  <2> HIDE DEF After
  <2> QED BY <1>3, <2>1, Recursion
<1>5. /\ f \in [0 .. N -> Lists] /\ f[0] = names
      /\ \A i \in 1 .. N : f[i] = step[<<f[i - 1], i>>]
  BY <1>w DEF IsWalk
<1>6. f = [i \in 0 .. N |-> IF i = 0 THEN names ELSE After(f[i - 1], i)]
  <2>1. ASSUME NEW i \in 1 .. N PROVE f[i] = After(f[i - 1], i)
    <3>1. i - 1 \in 0 .. N
      BY <1>1
    <3>2. f[i - 1] \in Lists
      BY <1>5, <3>1
    <3> QED BY <1>4, <1>5, <3>2
  <2>2. \A i \in 0 .. N : f[i] = IF i = 0 THEN names ELSE After(f[i - 1], i)
    <3> HIDE DEF After
    <3> QED BY <1>1, <1>5, <2>1
  <2> HIDE DEF After
  <2> QED BY <1>5, <2>2
<1>7. PICK g : /\ g = [i \in 0 .. Len(others) |->
                         IF i = 0 THEN names
                         ELSE IF others[i] \in allowed \ Market!Range(g[i - 1])
                              THEN Append(g[i - 1], others[i]) ELSE g[i - 1]]
               /\ Market!Joined(names, others, allowed) = g[Len(others)]
  BY <1>6, Zenon DEF Market!Joined, N
<1>8. g[0] = names /\ \A i \in 1 .. N : g[i] = After(g[i - 1], i)
  <2>1. Len(others) \in Nat
    OBVIOUS
  <2>2. g[0] = names
    BY <1>7, <2>1
  <2>3. ASSUME NEW i \in 1 .. N PROVE g[i] = After(g[i - 1], i)
    <3>1. i \in 0 .. Len(others) /\ i # 0
      BY <2>1 DEF N
    <3> QED BY <1>7, <3>1
  <2> QED BY <2>2, <2>3
<1> DEFINE S == {n \in 0 .. N : g[n] \in Lists}
<1>9. 0 \in S
  BY <1>1, <1>8
<1>10. ASSUME NEW n \in 0 .. N, n \in S, n < N PROVE n + 1 \in S
  <2>1. n + 1 \in 1 .. N /\ (n + 1) - 1 = n
    BY <1>1, <1>10
  <2> HIDE DEF After
  <2> QED BY <1>2, <1>8, <1>10, <2>1
<1> HIDE DEF S, After
<1>11. 0 .. N \subseteq S
  BY <1>1, <1>9, <1>10, Induct
<1>12. N \in S
  BY <1>1, <1>11
<1> QED BY <1>7, <1>12 DEF S, N

\* What the assumption says of the lists and of the bounds of the market data.
LEMMA BarBounds ==
    /\ TopNames \in Nat \ {0} /\ MaxUniverse \in Nat \ {0} /\ LastMinute \in Nat
    /\ LastMinute > 1
    /\ Fallback \in Lists /\ \A q \in Screens \cup NewsNames : q \in Seq(Stocks)
  BY StoresAssumption DEF StoresAssumption, Market!BarsAssumption, Lists

\* The screener's lists are lists of symbols, and so is what build_runtime starts with.
LEMMA ScreensAre ==
    /\ \A q \in Market!Screen : q \in Lists
    /\ \A q \in Market!Watchlist : q \in Lists
<1>1. ASSUME NEW q \in Screens PROVE Market!Screened(q) \in Lists
  <2>1. 2 * TopNames \in Nat /\ TopNames \in Nat /\ q \in Seq(Stocks)
    BY BarBounds
  <2>2. PICK r : r = Market!InBand(q, 2 * TopNames)
    OBVIOUS
  <2>3. r \in Lists
    BY <2>1, <2>2, NoList, JoinedIs, FirstIs DEF Market!InBand
  <2>4. r \in Seq(Stocks)
    BY <2>3 DEF Lists
  <2> QED BY <2>1, <2>2, <2>4, NoList, JoinedIs, FirstIs DEF Market!Screened
<1>2. \A q \in Market!Screen : q \in Lists
  BY <1>1, NoList DEF Market!Screen
<1> QED BY <1>2, BarBounds DEF Market!Watchlist

\* A list that is too long loses its oldest symbols.
LEMMA RotatedIs == ASSUME NEW q \in Lists PROVE Market!Rotated(q) \in Lists
<1>1. Len(q) \in Nat
  BY DEF Lists
<1>2. PICK n : n = Len(q) - MaxUniverse + 1
  OBVIOUS
<1>3. PICK m : m = Market!Max({1, n})
  OBVIOUS
<1>4. \E x \in {1, n} : \A y \in {1, n} : x >= y
  BY <1>1, <1>2, BarBounds
<1>5. m \in {1, n} /\ \A y \in {1, n} : m >= y
  BY <1>3, <1>4, Zenon DEF Market!Max
<1>6. m \in Nat \ {0}
  BY <1>1, <1>2, <1>5, BarBounds
<1> QED BY <1>1, <1>2, <1>3, <1>6, PartOf DEF Market!Rotated

\* Beside BarInv: the watched symbols are a list, what is stored is of them, and the clock,
\* the passes and the times a symbol counts from are within the day.
BarRanges ==
    /\ list \in Lists /\ daily_bars \subseteq Stocks
    /\ stale \in BOOLEAN
    /\ \A s \in Stocks : minute_bars[s] \subseteq Traded[s]
    /\ minute \in 1 .. LastMinute /\ lastPass <= minute
    /\ \A s \in Stocks : since[s] <= minute

\* The day starts within them.
LEMMA BarRangesStart == Market!Init => BarRanges
<1> SUFFICES ASSUME Market!Init PROVE BarRanges
  OBVIOUS
<1>1. minute \in 1 .. LastMinute
  <2>1. minute = 1 \/ minute = LastMinute \div 2
    BY DEF Market!Init
  <2> QED BY <2>1, BarBounds
<1>2. list \in Lists
  BY ScreensAre DEF Market!Init
<1>3. \A s \in Stocks : minute_bars[s] = {} /\ since[s] = 0
  BY DEF Market!Init
<1>4. daily_bars = {} /\ stale = FALSE /\ lastPass = 0
  BY DEF Market!Init
<1>5. stale \in BOOLEAN
  BY <1>4, Zenon
<1>6. 0 <= minute
  BY <1>1, BarBounds
<1> QED BY <1>1, <1>2, <1>3, <1>4, <1>5, <1>6 DEF BarRanges

\* The symbols of a list.
LEMMA SymbolsOf == ASSUME NEW q \in Lists PROVE Market!Range(q) \in SUBSET Stocks
<1>1. q \in Seq(Stocks)
  BY DEF Lists
<1>2. \A i \in DOMAIN q : q[i] \in Stocks
  BY <1>1
<1> QED BY <1>2 DEF Market!Range

\* What the steps around an ingest pass leave within them.
LEMMA AroundRanges ==
    ASSUME BarInv, BarRanges,
           \/ Market!BootBackfill \/ Market!StepArm \/ Market!StepDiscover
           \/ \E s \in Stocks : Market!InjectSymbol(s)
    PROVE  BarRanges'
<1>1. UNCHANGED <<stale, minute_bars, minute, lastPass>>
  BY DEF Market!BootBackfill, Market!StepArm, Market!StepDiscover, Market!InjectSymbol
<1>2. ASSUME NEW names \in SUBSET Stocks, daily_bars' \in Market!DailyHistory(names)
      PROVE  daily_bars' \subseteq Stocks
  BY <1>2 DEF Market!DailyHistory, BarRanges
<1>3. \A s \in Stocks : since'[s] <= minute
  <2>1. CASE UNCHANGED since
    BY <2>1 DEF BarRanges
  <2>2. CASE Market!WhileListed
    <3>1. PICK names : names = Market!Range(list')
      OBVIOUS
    <3>2. since' = [s \in Stocks |-> IF s \in names THEN since[s] ELSE 0]
      BY <2>2, <3>1 DEF Market!WhileListed
    <3> QED BY <3>2 DEF BarRanges
  <2> QED BY <2>1, <2>2
      DEF Market!BootBackfill, Market!StepArm, Market!StepDiscover, Market!InjectSymbol
<1>4. list' \in Lists /\ daily_bars' \subseteq Stocks
  <2>1. CASE Market!BootBackfill
    <3>1. PICK old : old = list /\ old \in Lists
      BY DEF BarRanges
    <3>2. PICK names : names = Market!Range(old)
      OBVIOUS
    <3>3. names \in SUBSET Stocks
      BY <3>1, <3>2, SymbolsOf
    <3>4. list' = list /\ daily_bars' \in Market!DailyHistory(names)
      BY <2>1, <3>1, <3>2 DEF Market!BootBackfill
    <3> QED BY <1>2, <3>3, <3>4 DEF BarRanges
  <2>2. CASE Market!StepArm
    BY <2>2 DEF Market!StepArm, BarRanges
  <2>3. CASE Market!StepDiscover
    <3>1. PICK screened \in Market!Screen : \E news \in NewsNames :
            /\ daily_bars' \in
                  Market!DailyHistory(Market!Range(Market!Joined(screened, news, Stocks)))
            /\ list' = Market!Rotated(
                  Market!Joined(list, Market!Joined(screened, news, Stocks), Stocks))
      BY <2>3 DEF Market!StepDiscover
    <3>2. PICK news \in NewsNames :
            /\ daily_bars' \in
                  Market!DailyHistory(Market!Range(Market!Joined(screened, news, Stocks)))
            /\ list' = Market!Rotated(
                  Market!Joined(list, Market!Joined(screened, news, Stocks), Stocks))
      BY <3>1
    <3>3. PICK universe : universe = Market!Joined(screened, news, Stocks)
      OBVIOUS
    <3>4. universe \in Lists /\ universe \in Seq(Stocks)
      BY <3>3, ScreensAre, BarBounds, JoinedIs DEF Lists
    <3>5. PICK names : names = Market!Range(universe)
      OBVIOUS
    <3>6. daily_bars' \subseteq Stocks
      <4>1. names \in SUBSET Stocks
        BY <3>4, <3>5, SymbolsOf
      <4>2. daily_bars' \in Market!DailyHistory(names)
        BY <3>2, <3>3, <3>5
      <4> QED BY <1>2, <4>1, <4>2
    <3>7. PICK old : old = list /\ old \in Lists
      BY DEF BarRanges
    <3>8. PICK joined : joined = Market!Joined(old, universe, Stocks)
      OBVIOUS
    <3>9. joined \in Lists
      BY <3>4, <3>7, <3>8, JoinedIs
    <3>10. list' = Market!Rotated(joined)
      BY <3>2, <3>3, <3>7, <3>8
    <3> QED BY <3>6, <3>9, <3>10, RotatedIs
  <2>4. ASSUME NEW s \in Stocks, Market!InjectSymbol(s)
        PROVE  list' \in Lists /\ daily_bars' \subseteq Stocks
    <3>1. PICK old : old = list /\ old \in Lists
      BY DEF BarRanges
    <3>2. list' = Append(old, s) /\ s \notin Market!Range(old) /\ daily_bars' = daily_bars
      BY <2>4, <3>1 DEF Market!InjectSymbol
    <3> QED BY <3>1, <3>2, OneMore DEF BarRanges
  <2> QED BY <2>1, <2>2, <2>3, <2>4
<1> QED BY <1>1, <1>3, <1>4 DEF BarRanges

\* An ingest pass stores bars there are, and starts no later than now.
LEMMA IngestRanges == ASSUME BarInv, BarRanges, Market!StepIngest PROVE BarRanges'
<1>1. UNCHANGED <<list, daily_bars, minute>> /\ lastPass' = minute
  BY DEF Market!StepIngest
<1>2. stale' \in BOOLEAN
  <2>1. stale' = Market!StaleNow(minute_bars')
    BY DEF Market!StepIngest
  <2> QED BY <2>1, Zenon DEF Market!StaleNow
<1>3. ASSUME NEW s \in Stocks PROVE minute_bars'[s] \subseteq Traded[s]
  <2>1. minute_bars[s] \subseteq Traded[s]
    BY DEF BarRanges
  <2>2. minute_bars' = minute_bars \/ \E refused : minute_bars' = Market!Stored(refused)
    BY DEF Market!StepIngest
  <2> QED BY <2>1, <2>2 DEF Market!Stored
<1>4. ASSUME NEW s \in Stocks PROVE since'[s] <= minute
  <2>1. PICK n : n = Market!Max({1, minute - Refresh})
    OBVIOUS
  <2>2. \E x \in {1, minute - Refresh} : \A y \in {1, minute - Refresh} : x >= y
    BY BarConstants DEF BarInv, BarTypes
  <2>3. n \in {1, minute - Refresh}
    BY <2>1, <2>2, Zenon DEF Market!Max
  <2>4. n <= minute /\ 1 <= minute /\ 0 <= minute
    BY <2>3, BarConstants DEF BarRanges
  <2>5. since' = [t \in Stocks |->
            IF t \notin Market!Range(list) THEN 0
            ELSE IF since[t] # 0 THEN since[t]
            ELSE IF firstPass THEN 1 ELSE n]
    BY <2>1 DEF Market!StepIngest
  <2>6. since[s] <= minute
    BY DEF BarRanges
  <2> QED BY <2>4, <2>5, <2>6
<1>5. lastPass' <= minute'
  BY <1>1 DEF BarRanges
<1> QED BY <1>1, <1>2, <1>3, <1>4, <1>5 DEF BarRanges

\* Each step of the market data keeps them.
LEMMA BarRangesStep == ASSUME BarInv, BarRanges, Market!Next PROVE BarRanges'
<1>1. CASE Market!MinutePasses
  <2>1. /\ UNCHANGED <<list, stale, minute_bars, daily_bars, lastPass, since>>
        /\ minute < LastMinute /\ minute' = minute + 1
    BY <1>1 DEF Market!MinutePasses
  <2>2. minute' \in 1 .. LastMinute /\ lastPass <= minute'
    BY <2>1, BarBounds DEF BarInv, BarTypes, BarRanges
  <2>3. \A s \in Stocks : since[s] <= minute'
    BY <2>1, BarBounds DEF BarInv, BarTypes, BarRanges
  <2> QED BY <2>1, <2>2, <2>3 DEF BarRanges
<1>2. CASE Market!ProcessRestarts
  <2>1. /\ list' \in Lists /\ stale' = FALSE /\ lastPass' = 0
        /\ since' = [s \in Stocks |-> 0] /\ UNCHANGED <<minute_bars, daily_bars, minute>>
    BY <1>2, ScreensAre DEF Market!ProcessRestarts
  <2>2. \A s \in Stocks : since'[s] = 0
    BY <2>1
  <2>3. stale' \in BOOLEAN
    BY <2>1, Zenon
  <2>4. 0 <= minute
    BY BarBounds DEF BarRanges
  <2> QED BY <2>1, <2>2, <2>3, <2>4 DEF BarRanges
<1> QED BY <1>1, <1>2, IngestRanges, AroundRanges DEF Market!Next

\* The types of the market data.
LEMMA MarketTypes == StoresSpec => []Market!TypeOK
<1> DEFINE Inv == BarInv /\ BarRanges
<1>1. StoresInit => Inv
  BY BarStart, BarRangesStart DEF StoresInit
<1>2. Inv /\ [StoresNext]_storesVars => Inv'
  <2>1. BarRanges /\ UNCHANGED barVars => BarRanges'
    BY DEF barVars, BarRanges
  <2> QED BY <2>1, PartsMove, BarStep, BarStill, BarRangesStep
<1>3. Inv => Market!TypeOK
  <2> SUFFICES ASSUME BarInv, BarRanges PROVE Market!TypeOK
    OBVIOUS
  <2>1. list \in Seq(Stocks) /\ Market!IsInjective(list)
    BY DEF BarRanges, Lists
  <2>2. since \in [Stocks -> 0 .. LastMinute] /\ lastPass \in 0 .. minute
    BY BarBounds DEF BarInv, BarTypes, BarRanges
  <2> QED BY <2>1, <2>2 DEF BarInv, BarTypes, BarRanges, Market!TypeOK, Market!Minutes
<1> QED BY <1>1, <1>2, <1>3, PTL DEF StoresSpec

\* Every variable of every part of the stores has its type, whatever is asked of them and
\* whatever fails: the watched list keeps no symbol twice however discovery extends and rotates
\* it (run_live_paper.py step_discover), a claim's attempt is one of its video's, the bars
\* stored are bars there were, and every retry, queue and batch stays within its limit.
THEOREM StoresTyped == StoresSpec => []Types
  BY SyncTypes, ClaimTypes, NewsTypes, MarketTypes, WatcherTypes, LogTypes, NoticeTypes,
     StoreTypes, PTL DEF Types
=============================================================================

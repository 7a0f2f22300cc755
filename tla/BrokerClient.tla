---------------------------- MODULE BrokerClient ----------------------------
(***************************************************************************)
(* The REST client (alpaca_paper/client.py) under the loop's threads: a    *)
(* cache of account and positions that is 2.5 s young at most, emptied by  *)
(* every write, and requests that are sent again after some failures.      *)
(*                                                                         *)
(* The account is a version number: it grows with every change, a fill or  *)
(* a write that took effect.  A value read is a version.                   *)
(***************************************************************************)
EXTENDS Integers, FiniteSets

CONSTANTS
    Threads,
    None,
    MaxRetries,   \* max_retries
    TTL,          \* cache_ttl
    MaxTime,      \* bound on the clock
    MaxChanges,   \* bound on the account's version
    MaxWrites,    \* bound on the writes of a run
    FaultSets     \* the combinations of faults a run may see

(* rate      429: the request had no effect                                *)
(* server    5xx: it had one or not                                        *)
(* connect   URLError: it was not sent                                     *)
(* timeout   no answer in time: it had an effect or not                    *)
FaultKinds == {"rate", "server", "connect", "timeout"}

ClientAssumption ==
    /\ {MaxRetries, TTL, MaxTime, MaxChanges, MaxWrites} \subseteq Nat
    /\ FaultSets \subseteq SUBSET FaultKinds
    /\ None \notin Threads

VARIABLES
    acct,     \* the broker: the version of the account
    placed,   \* the broker: how often each write took effect
    now,
    cache,    \* a version and the time it was stored, or None
    call,     \* the call a thread is in
    wrote,    \* the version of a thread's last write that returned
    done,     \* history: of a thread's last call, whether the value it returned is
              \* older than the call, and whether it misses the thread's write
    writes,   \* the number of writes, for the bound
    named,    \* the writes that have a client_order_id
    faults,   \* which faults this behaviour may see
    callers   \* the threads that make calls in this behaviour

setting == <<faults, callers>>
vars == <<acct, placed, now, cache, call, wrote, done, writes, named, setting>>

Versions == 0..MaxChanges
Writes == 1..MaxWrites

NoCall == [op |-> "none", pc |-> "none", attempt |-> 0, val |-> 0, since |-> 0,
           write |-> 0, answered |-> FALSE]
Nothing == [op |-> "none", stale |-> FALSE, missed |-> FALSE]

Init ==
    /\ acct = 0
    /\ placed = [w \in Writes |-> 0]
    /\ now = 0
    /\ cache = None
    /\ call = [t \in Threads |-> NoCall]
    /\ done = [t \in Threads |-> Nothing]
    /\ wrote = [t \in Threads |-> 0]
    /\ writes = 0
    /\ named = {}
    /\ faults \in FaultSets
    /\ callers \in SUBSET Threads \ {{}}

Tick ==
    /\ now < MaxTime
    /\ now' = now + 1
    /\ UNCHANGED <<acct, placed, cache, call, wrote, done, writes, named, setting>>

\* something fills
Changes ==
    /\ acct < MaxChanges
    /\ acct' = acct + 1
    /\ UNCHANGED <<placed, now, cache, call, wrote, done, writes, named, setting>>

-----------------------------------------------------------------------------
(* Reads *)

Hit == IF cache = None THEN FALSE ELSE now - cache.at < TTL

Returned(t, op, v, since) ==
    done' = [done EXCEPT ![t] = [op |-> op, stale |-> v < since,
                                 missed |-> v < wrote[t]]]

\* get_account, get_positions: a young value of the cache, or a request
ReadStart(t) ==
    /\ call[t] = NoCall
    /\ IF Hit
       THEN /\ Returned(t, "read", cache.val, acct)
            /\ UNCHANGED call
       ELSE /\ call' = [call EXCEPT ![t] = [NoCall EXCEPT !.op = "read",
                            !.pc = "send", !.since = acct]]
            /\ UNCHANGED done
    /\ UNCHANGED <<acct, placed, now, cache, wrote, writes, named, setting>>

\* mutant of FreshStart: the cache is asked first
FreshCached(t) ==
    /\ call[t] = NoCall
    /\ IF Hit
       THEN /\ Returned(t, "fresh", cache.val, acct)
            /\ UNCHANGED call
       ELSE /\ call' = [call EXCEPT ![t] = [NoCall EXCEPT !.op = "fresh",
                            !.pc = "send", !.since = acct]]
            /\ UNCHANGED done
    /\ UNCHANGED <<acct, placed, now, cache, wrote, writes, named, setting>>

\* get_positions(fresh=True)
FreshStart(t) ==
    /\ call[t] = NoCall
    /\ call' = [call EXCEPT ![t] = [NoCall EXCEPT !.op = "fresh", !.pc = "send",
                    !.since = acct]]
    /\ UNCHANGED <<acct, placed, now, cache, wrote, done, writes, named, setting>>

\* the broker answers a read
Answer(t) ==
    /\ call[t].op \in {"read", "fresh"} /\ call[t].pc = "send"
    /\ call' = [call EXCEPT ![t].pc = "store", ![t].val = acct]
    /\ UNCHANGED <<acct, placed, now, cache, wrote, done, writes, named, setting>>

\* the value is stored with the time it arrived, over what another thread stored
Store(t) ==
    /\ call[t].pc = "store"
    /\ cache' = [val |-> call[t].val, at |-> now]
    /\ Returned(t, call[t].op, call[t].val, call[t].since)
    /\ call' = [call EXCEPT ![t] = NoCall]
    /\ UNCHANGED <<acct, placed, now, wrote, writes, named, setting>>

-----------------------------------------------------------------------------
(* Writes *)

\* _invalidate_cache
Emptied == None

\* submit_order, cancel_order, replace_order, close_position: the cache is emptied
\* before the request.  An entry is named by its client_order_id; a protective stop
\* and a partial close are not.
WriteStart(t) ==
    /\ call[t] = NoCall
    /\ writes < MaxWrites
    /\ writes' = writes + 1
    /\ named' \in {named, named \cup {writes + 1}}
    /\ call' = [call EXCEPT ![t] = [NoCall EXCEPT !.op = "write", !.pc = "send",
                     !.since = acct, !.write = writes + 1]]
    /\ cache' = Emptied
    /\ UNCHANGED <<acct, placed, now, wrote, done, setting>>

\* mutant of Refused: the broker is given a new name on every attempt
RefusedNever(t) == FALSE

\* the broker refuses the client_order_id of an order it has
Refused(t) == call[t].write \in named /\ placed[call[t].write] > 0

TakesEffect(t) ==
    /\ ~Refused(t)
    /\ acct < MaxChanges
    /\ acct' = acct + 1
    /\ placed' = [placed EXCEPT ![call[t].write] = @ + 1]

NoEffect == UNCHANGED <<acct, placed>>

WriteOk(t) ==
    /\ call[t].op = "write" /\ call[t].pc = "send"
    /\ TakesEffect(t)
    /\ wrote' = [wrote EXCEPT ![t] = acct']
    /\ done' = [done EXCEPT ![t] = Nothing]
    /\ call' = [call EXCEPT ![t] = NoCall]
    /\ UNCHANGED <<now, cache, writes, named, setting>>

Raises(t) ==
    /\ done' = [done EXCEPT ![t] = Nothing]
    /\ call' = [call EXCEPT ![t] = NoCall]

\* 4xx other than 429 is raised at once
WriteRefused(t) ==
    /\ call[t].op = "write" /\ call[t].pc = "send"
    /\ Refused(t)
    /\ Raises(t)
    /\ UNCHANGED <<acct, placed, now, cache, wrote, writes, named, setting>>

-----------------------------------------------------------------------------
(* Failures of a request *)

Again(t, answered) ==
    IF call[t].attempt < MaxRetries
    THEN /\ call' = [call EXCEPT ![t].attempt = @ + 1, ![t].answered = answered]
         /\ UNCHANGED done
    ELSE Raises(t)

MayTakeEffect(t) == NoEffect \/ (call[t].op = "write" /\ TakesEffect(t))

\* 429 and 5xx, also of a POST, are tried again, as is a request that was not sent;
\* an answer that does not come is not a URLError, and is raised
Fail(t) ==
    /\ call[t].pc = "send"
    /\ \/ "rate" \in faults /\ NoEffect /\ Again(t, TRUE)
       \/ "server" \in faults /\ MayTakeEffect(t) /\ Again(t, TRUE)
       \/ "connect" \in faults /\ NoEffect /\ Again(t, call[t].answered)
       \/ "timeout" \in faults /\ MayTakeEffect(t) /\ Raises(t)
    /\ UNCHANGED <<now, cache, wrote, writes, named, setting>>

Calls(t) ==
    \/ ReadStart(t) \/ FreshStart(t) \/ Answer(t) \/ Store(t)
    \/ WriteStart(t) \/ WriteOk(t) \/ WriteRefused(t) \/ Fail(t)

Next == Tick \/ Changes \/ \E t \in callers : Calls(t)

Spec == Init /\ [][Next]_vars

-----------------------------------------------------------------------------
(* Properties *)

\* Every variable has its type.
TypeOK ==
    /\ acct \in Versions /\ now \in 0..MaxTime /\ writes \in 0..MaxWrites
    /\ named \subseteq 1..writes
    /\ faults \in FaultSets /\ callers \subseteq Threads
    /\ cache # None => cache.val \in 0..acct /\ cache.at \in 0..now
    /\ \A t \in Threads :
        /\ call[t].attempt \in 0..MaxRetries
        /\ call[t].pc \in {"none", "send", "store"}
        /\ {call[t].val, call[t].since, wrote[t]} \subseteq 0..acct

\* A read that asks for a fresh value gets one that is not older than the call,
\* whatever the other threads store: the guard decides on it that an entry is
\* unfilled.
FreshIsFresh ==
    \A t \in Threads : done[t].op = "fresh" => ~done[t].stale

\* A thread that is alone sees its own writes: a read after a write that returned
\* is not answered from before it.
ReadYourWrites ==
    \A t \in Threads : callers = {t} => ~done[t].missed

\* An order with a client_order_id is placed at most once, whatever is sent again.
NamedOnce == \A w \in named : placed[w] <= 1

\* While the broker has no server errors, no write takes effect twice.
WrittenOnce == "server" \notin faults => \A w \in Writes : placed[w] <= 1
=============================================================================

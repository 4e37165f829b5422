----------------------------- MODULE TileCache -----------------------------
(***************************************************************************)
(* The bounded in-process tile cache of the dataset MCP service            *)
(* (dataset-mcp/app/query/tile_cache.py): a TTL/LRU store of encoded tiles *)
(* and the table of shared computations in front of it.                    *)
(*                                                                         *)
(* asyncio runs one task at a time and the cache's lock is never held      *)
(* across an await, so the code between two suspension points is one       *)
(* action.  A caller suspends at three places: on the event of a retiring  *)
(* computation ("retired"), on the shared task ("awaiting") and on the     *)
(* cleanup task it started as the last waiter ("cleanup").                 *)
(*                                                                         *)
(* A flight is an _InFlight object with its compute task and its cleanup   *)
(* task.  Flight identities are reused once nothing refers to them.        *)
(***************************************************************************)
EXTENDS Integers, FiniteSets, SequencesExt

CONSTANTS
    Callers,      \* requests that may be inside get_or_compute
    Keys,         \* TileCacheKey values
    Flights,      \* identities of _InFlight objects
    NoKey, NoFlight,
    Sizes,        \* byte sizes a cache entry may be charged
    MaxBytes, MaxEntries, MaxInFlight,
    TTL           \* clock ticks an entry stays valid

ASSUME CallersAssumption == IsFiniteSet(Callers)
ASSUME NoneAssumption == NoKey \notin Keys /\ NoFlight \notin Flights
ASSUME SizesAssumption == Sizes \subseteq Nat \ {0}
ASSUME LimitsAssumption ==          \* the constructor's checks
    /\ MaxBytes \in Nat \ {0}
    /\ MaxEntries \in Nat \ {0}
    /\ MaxInFlight \in Nat \ {0}
    /\ TTL \in Nat \ {0}

VARIABLES
    pc,           \* where each caller is suspended
    key,          \* the key of its current call
    at,           \* the flight it holds a reference to
    cancelled,    \* a cancellation was requested and not yet delivered
    outcome,      \* how its last call ended
    entries,      \* _entries, least recently used first
    bytes,        \* _bytes
    inFlight,     \* _in_flight: key -> registered flight
    task,         \* state of the flight's compute task
    taskKey,      \* the key the task computes and stores
    waiters,      \* _InFlight.waiters
    cleanup       \* "none", or the state of the cleanup task of a retiring flight

callerVars == <<pc, key, at, cancelled, outcome>>
storeVars  == <<entries, bytes>>
flightVars == <<inFlight, task, taskKey, waiters, cleanup>>
vars == <<callerVars, storeVars, flightVars>>

Finished   == {"tile", "failed", "cancelled"}     \* Task.done()
Unfinished == {"running", "cancelling"}
Entry == [key : Keys, size : Sizes, left : 0..TTL]

TypeOK ==
    /\ pc \in [Callers -> {"idle", "retired", "awaiting", "cleanup"}]
    /\ key \in [Callers -> Keys \cup {NoKey}]
    /\ at \in [Callers -> Flights \cup {NoFlight}]
    /\ cancelled \in [Callers -> BOOLEAN]
    /\ outcome \in [Callers -> Finished \cup {"none", "full"}]
    /\ entries \in Seq(Entry)
    /\ inFlight \in [Keys -> Flights \cup {NoFlight}]
    /\ task \in [Flights -> Finished \cup Unfinished \cup {"none"}]
    /\ taskKey \in [Flights -> Keys \cup {NoKey}]
    /\ waiters \in [Flights -> Nat]
    /\ cleanup \in [Flights -> {"none", "scheduled", "awaiting", "done"}]

Init ==
    /\ pc = [c \in Callers |-> "idle"]
    /\ key = [c \in Callers |-> NoKey]
    /\ at = [c \in Callers |-> NoFlight]
    /\ cancelled = [c \in Callers |-> FALSE]
    /\ outcome = [c \in Callers |-> "none"]
    /\ entries = << >>
    /\ bytes = 0
    /\ inFlight = [k \in Keys |-> NoFlight]
    /\ task = [f \in Flights |-> "none"]
    /\ taskKey = [f \in Flights |-> NoKey]
    /\ waiters = [f \in Flights |-> 0]
    /\ cleanup = [f \in Flights |-> "none"]

-----------------------------------------------------------------------------
(* The store: _cached, _store and _remove_entry.                           *)

\* Bytes of the first n entries of a sequence, for every n.
Sums(es) ==
    LET upTo[n \in 0..Len(es)] == IF n = 0 THEN 0 ELSE upTo[n - 1] + es[n].size
    IN upTo

BytesOf(es) == Sums(es)[Len(es)]

IsCached(k) == \E i \in DOMAIN entries : entries[i].key = k
IsFresh(k)  == \E i \in DOMAIN entries : entries[i].key = k /\ entries[i].left > 0

Position(k) == CHOOSE i \in DOMAIN entries : entries[i].key = k
Without(k)  == IF IsCached(k) THEN RemoveAt(entries, Position(k)) ELSE entries
SizeOf(k)   == IF IsCached(k) THEN entries[Position(k)].size ELSE 0

\* _cached on a valid entry: the entry becomes the most recently used one.
Touch(k) ==
    /\ entries' = Append(Without(k), entries[Position(k)])
    /\ UNCHANGED bytes

\* Mutant: an expired entry is left in place.
DropNothing(k) == UNCHANGED storeVars

\* _cached on an expired entry removes it; on a missing one it does nothing.
DropExpired(k) ==
    /\ entries' = Without(k)
    /\ bytes' = bytes - SizeOf(k)

\* The eviction loop of _store stops at the first n that makes both bounds hold.
Fits(es, total, n) ==
    /\ total - BytesOf(SubSeq(es, 1, n)) <= MaxBytes
    /\ Len(es) - n <= MaxEntries

\* Mutant: evicted entries stay in the byte account.
StoreUncredited(k, size) ==
    IF size > MaxBytes
    THEN UNCHANGED storeVars
    ELSE LET added == Append(Without(k), [key |-> k, size |-> size, left |-> TTL])
         IN \E n \in 0..Len(added) :
                /\ Fits(added, bytes + size, n)
                /\ \A m \in 0..(n - 1) : ~Fits(added, bytes + size, m)
                /\ entries' = SubSeq(added, n + 1, Len(added))
                /\ bytes' = bytes + size

Store(k, size) ==
    IF size > MaxBytes
    THEN UNCHANGED storeVars
    ELSE LET added == Append(Without(k), [key |-> k, size |-> size, left |-> TTL])
             total == bytes - SizeOf(k) + size
         IN \E n \in 0..Len(added) :
                /\ Fits(added, total, n)
                /\ \A m \in 0..(n - 1) : ~Fits(added, total, m)
                /\ entries' = SubSeq(added, n + 1, Len(added))
                /\ bytes' = total - BytesOf(SubSeq(added, 1, n))

Aged(e) == [e EXCEPT !.left = IF @ > 0 THEN @ - 1 ELSE 0]

\* Time passes; "left" is expires_at minus the clock, stopped at 0.
Tick ==
    /\ \E i \in DOMAIN entries : entries[i].left > 0
    /\ entries' = [i \in DOMAIN entries |-> Aged(entries[i])]
    /\ UNCHANGED <<bytes, callerVars, flightVars>>

-----------------------------------------------------------------------------
(* get_or_compute: the loop up to its first suspension.                    *)

Registered == {k \in Keys : inFlight[k] # NoFlight}

\* f may stand for the new _InFlight of caller c.  A registered flight is held by
\* a caller inside the call, so as many identities as callers always suffice.
IsFree(f, c) ==
    /\ task[f] \notin Unfinished
    /\ cleanup[f] \in {"none", "done"}
    /\ \A d \in Callers \ {c} : at[d] # f
    /\ \A k \in Keys : inFlight[k] # f

Return(c, result) ==
    /\ pc' = [pc EXCEPT ![c] = "idle"]
    /\ key' = [key EXCEPT ![c] = NoKey]
    /\ at' = [at EXCEPT ![c] = NoFlight]
    /\ cancelled' = [cancelled EXCEPT ![c] = FALSE]
    /\ outcome' = [outcome EXCEPT ![c] = result]

Suspend(c, place, k, f) ==
    /\ pc' = [pc EXCEPT ![c] = place]
    /\ key' = [key EXCEPT ![c] = k]
    /\ at' = [at EXCEPT ![c] = f]
    /\ outcome' = [outcome EXCEPT ![c] = "none"]
    /\ UNCHANGED cancelled

Hit(c, k) ==
    /\ IsFresh(k)
    /\ Touch(k)
    /\ Return(c, "tile")
    /\ UNCHANGED flightVars

Reject(c, k) ==
    /\ ~IsFresh(k)
    /\ inFlight[k] = NoFlight
    /\ Cardinality(Registered) >= MaxInFlight
    /\ DropExpired(k)
    /\ Return(c, "full")
    /\ UNCHANGED flightVars

\* Mutant: the capacity test is off by one.
StartOneMore(c, k) ==
    /\ ~IsFresh(k)
    /\ inFlight[k] = NoFlight
    /\ Cardinality(Registered) <= MaxInFlight
    /\ DropExpired(k)
    /\ \E f \in Flights :
          /\ IsFree(f, c)
          /\ inFlight' = [inFlight EXCEPT ![k] = f]
          /\ task' = [task EXCEPT ![f] = "running"]
          /\ taskKey' = [taskKey EXCEPT ![f] = k]
          /\ waiters' = [waiters EXCEPT ![f] = 1]
          /\ cleanup' = [cleanup EXCEPT ![f] = "none"]
          /\ Suspend(c, "awaiting", k, f)

Start(c, k) ==
    /\ ~IsFresh(k)
    /\ inFlight[k] = NoFlight
    /\ Cardinality(Registered) < MaxInFlight
    /\ DropExpired(k)
    /\ \E f \in Flights :
          /\ IsFree(f, c)
          /\ inFlight' = [inFlight EXCEPT ![k] = f]
          /\ task' = [task EXCEPT ![f] = "running"]
          /\ taskKey' = [taskKey EXCEPT ![f] = k]
          /\ waiters' = [waiters EXCEPT ![f] = 1]
          /\ cleanup' = [cleanup EXCEPT ![f] = "none"]
          /\ Suspend(c, "awaiting", k, f)

\* Mutant: a retiring computation may be joined.
JoinRetiring(c, k) ==
    /\ ~IsFresh(k)
    /\ inFlight[k] # NoFlight
    /\ task[inFlight[k]] \in Unfinished
    /\ DropExpired(k)
    /\ waiters' = [waiters EXCEPT ![inFlight[k]] = @ + 1]
    /\ Suspend(c, "awaiting", k, inFlight[k])
    /\ UNCHANGED <<inFlight, task, taskKey, cleanup>>

Join(c, k) ==
    /\ ~IsFresh(k)
    /\ inFlight[k] # NoFlight
    /\ cleanup[inFlight[k]] = "none"
    /\ task[inFlight[k]] \in Unfinished
    /\ DropExpired(k)
    /\ waiters' = [waiters EXCEPT ![inFlight[k]] = @ + 1]
    /\ Suspend(c, "awaiting", k, inFlight[k])
    /\ UNCHANGED <<inFlight, task, taskKey, cleanup>>

\* Mutant: the finished task of a retiring computation is joined too.
JoinFinishedRetiring(c, k) ==
    /\ ~IsFresh(k)
    /\ inFlight[k] # NoFlight
    /\ task[inFlight[k]] \in Finished
    /\ DropExpired(k)
    /\ Return(c, task[inFlight[k]])
    /\ UNCHANGED flightVars

\* The task is done but one of its waiters has not run yet: shield returns the
\* finished task, so this caller is counted, takes its result and is released
\* without suspending.
JoinFinished(c, k) ==
    /\ ~IsFresh(k)
    /\ inFlight[k] # NoFlight
    /\ cleanup[inFlight[k]] = "none"
    /\ task[inFlight[k]] \in Finished
    /\ DropExpired(k)
    /\ inFlight' = IF waiters[inFlight[k]] = 0
                   THEN [inFlight EXCEPT ![k] = NoFlight] ELSE inFlight
    /\ Return(c, task[inFlight[k]])
    /\ UNCHANGED <<task, taskKey, waiters, cleanup>>

AwaitRetired(c, k) ==
    /\ ~IsFresh(k)
    /\ inFlight[k] # NoFlight
    /\ cleanup[inFlight[k]] # "none"
    /\ DropExpired(k)
    /\ Suspend(c, "retired", k, inFlight[k])
    /\ UNCHANGED flightVars

Lookup(c, k) ==
    \/ Hit(c, k)
    \/ Reject(c, k)
    \/ Start(c, k)
    \/ Join(c, k)
    \/ JoinFinished(c, k)
    \/ AwaitRetired(c, k)

Call(c) == pc[c] = "idle" /\ \E k \in Keys : Lookup(c, k)

\* The retired event is set: the caller runs the loop again.
Retry(c) ==
    /\ pc[c] = "retired"
    /\ ~cancelled[c]
    /\ cleanup[at[c]] = "done"
    /\ Lookup(c, key[c])

-----------------------------------------------------------------------------
(* Cancellation of a caller, and _release_waiter.                          *)

\* The client disconnects or the server shuts down; it may do so repeatedly.
Cancel(c) ==
    /\ pc[c] # "idle"
    /\ ~cancelled[c]
    /\ cancelled' = [cancelled EXCEPT ![c] = TRUE]
    /\ UNCHANGED <<pc, key, at, outcome, storeVars, flightVars>>

CancelledWhileRetired(c) ==
    /\ pc[c] = "retired"
    /\ cancelled[c]
    /\ Return(c, "cancelled")
    /\ UNCHANGED <<storeVars, flightVars>>

\* A pending cancellation wins over a result the task already has.
Result(c) == IF cancelled[c] THEN "cancelled" ELSE task[at[c]]

Wakes(c) == pc[c] = "awaiting" /\ (cancelled[c] \/ task[at[c]] \in Finished)

IsCurrent(c) == inFlight[key[c]] = at[c]

\* Mutant: the waiter is not counted out while others remain.
LeaveUncounted(c) ==
    /\ Wakes(c)
    /\ IsCurrent(c) => waiters[at[c]] # 1
    /\ Return(c, Result(c))
    /\ UNCHANGED <<storeVars, flightVars>>

\* Other waiters remain, or (the early return) the flight is not the registered one.
LeaveOthers(c) ==
    /\ Wakes(c)
    /\ IsCurrent(c) => waiters[at[c]] # 1
    /\ waiters' = [waiters EXCEPT ![at[c]] = IF IsCurrent(c) THEN @ - 1 ELSE @]
    /\ Return(c, Result(c))
    /\ UNCHANGED <<storeVars, inFlight, task, taskKey, cleanup>>

LeaveFinished(c) ==
    /\ Wakes(c)
    /\ IsCurrent(c)
    /\ waiters[at[c]] = 1
    /\ task[at[c]] \in Finished
    /\ waiters' = [waiters EXCEPT ![at[c]] = 0]
    /\ inFlight' = [inFlight EXCEPT ![key[c]] = NoFlight]
    /\ Return(c, Result(c))
    /\ UNCHANGED <<storeVars, task, taskKey, cleanup>>

\* Mutant: a retiring computation gives up its place in the table at once.
LeaveUnregistering(c) ==
    /\ Wakes(c)
    /\ IsCurrent(c)
    /\ waiters[at[c]] = 1
    /\ task[at[c]] \notin Finished
    /\ waiters' = [waiters EXCEPT ![at[c]] = 0]
    /\ cleanup' = [cleanup EXCEPT ![at[c]] = "scheduled"]
    /\ inFlight' = [inFlight EXCEPT ![key[c]] = NoFlight]
    /\ pc' = [pc EXCEPT ![c] = "cleanup"]
    /\ cancelled' = [cancelled EXCEPT ![c] = FALSE]
    /\ UNCHANGED <<key, at, outcome, storeVars, task, taskKey>>

\* Mutant: the last waiter starts the cleanup and does not wait for it.
LeaveReturning(c) ==
    /\ Wakes(c)
    /\ IsCurrent(c)
    /\ waiters[at[c]] = 1
    /\ task[at[c]] \notin Finished
    /\ waiters' = [waiters EXCEPT ![at[c]] = 0]
    /\ cleanup' = [cleanup EXCEPT ![at[c]] = "scheduled"]
    /\ Return(c, "cancelled")
    /\ UNCHANGED <<storeVars, inFlight, task, taskKey>>

\* The last waiter leaves a running task: it starts the cleanup task and waits.
LeaveRetiring(c) ==
    /\ Wakes(c)
    /\ IsCurrent(c)
    /\ waiters[at[c]] = 1
    /\ task[at[c]] \notin Finished
    /\ waiters' = [waiters EXCEPT ![at[c]] = 0]
    /\ cleanup' = [cleanup EXCEPT ![at[c]] = "scheduled"]
    /\ pc' = [pc EXCEPT ![c] = "cleanup"]
    /\ cancelled' = [cancelled EXCEPT ![c] = FALSE]
    /\ UNCHANGED <<key, at, outcome, storeVars, inFlight, task, taskKey>>

\* Mutant: a repeated cancellation ends the wait for cleanup.
CancelledOutOfCleanup(c) ==
    /\ pc[c] = "cleanup"
    /\ cancelled[c]
    /\ Return(c, "cancelled")
    /\ UNCHANGED <<storeVars, flightVars>>

\* A repeated cancellation is noted and the wait goes on.
CancelledInCleanup(c) ==
    /\ pc[c] = "cleanup"
    /\ cancelled[c]
    /\ cancelled' = [cancelled EXCEPT ![c] = FALSE]
    /\ UNCHANGED <<pc, key, at, outcome, storeVars, flightVars>>

LeaveCleanup(c) ==
    /\ pc[c] = "cleanup"
    /\ cleanup[at[c]] = "done"
    /\ Return(c, "cancelled")
    /\ UNCHANGED <<storeVars, flightVars>>

-----------------------------------------------------------------------------
(* The compute task (_compute_and_store) and the cleanup task (_retire).   *)

TaskStores(f) ==
    /\ task[f] \in Unfinished
    /\ \E size \in Sizes : Store(taskKey[f], size)
    /\ task' = [task EXCEPT ![f] = "tile"]
    /\ UNCHANGED <<callerVars, inFlight, taskKey, waiters, cleanup>>

\* compute raises: its own error, or the cancellation delivered to it.
TaskRaises(f) ==
    /\ task[f] \in Unfinished
    /\ \E error \in {"failed", "cancelled"} :
          /\ error = "cancelled" => task[f] = "cancelling"
          /\ task' = [task EXCEPT ![f] = error]
    /\ UNCHANGED <<callerVars, storeVars, inFlight, taskKey, waiters, cleanup>>

RetireBegins(f) ==
    /\ cleanup[f] = "scheduled"
    /\ cleanup' = [cleanup EXCEPT ![f] = "awaiting"]
    /\ task' = [task EXCEPT ![f] = IF @ = "running" THEN "cancelling" ELSE @]
    /\ UNCHANGED <<callerVars, storeVars, inFlight, taskKey, waiters>>

\* Mutant: the event is set only when the task really was cancelled.
RetireEndsIfCancelled(f) ==
    /\ cleanup[f] = "awaiting"
    /\ task[f] = "cancelled"
    /\ inFlight' = [inFlight EXCEPT ![taskKey[f]] = NoFlight]
    /\ cleanup' = [cleanup EXCEPT ![f] = "done"]
    /\ UNCHANGED <<callerVars, storeVars, task, taskKey, waiters>>

\* Mutant: the event is set but the flight stays in the table.
RetireEndsRegistered(f) ==
    /\ cleanup[f] = "awaiting"
    /\ task[f] \in Finished
    /\ cleanup' = [cleanup EXCEPT ![f] = "done"]
    /\ UNCHANGED <<callerVars, storeVars, inFlight, task, taskKey, waiters>>

RetireEnds(f) ==
    /\ cleanup[f] = "awaiting"
    /\ task[f] \in Finished
    /\ inFlight' = IF inFlight[taskKey[f]] = f
                   THEN [inFlight EXCEPT ![taskKey[f]] = NoFlight] ELSE inFlight
    /\ cleanup' = [cleanup EXCEPT ![f] = "done"]
    /\ UNCHANGED <<callerVars, storeVars, task, taskKey, waiters>>

-----------------------------------------------------------------------------
Leave(c) == \/ LeaveOthers(c)
            \/ LeaveFinished(c)
            \/ LeaveRetiring(c)
            \/ LeaveCleanup(c)
            \/ CancelledWhileRetired(c)
            \/ CancelledInCleanup(c)

TaskStep(f) == TaskStores(f) \/ TaskRaises(f) \/ RetireBegins(f) \/ RetireEnds(f)

Next ==
    \/ \E c \in Callers : Call(c) \/ Retry(c) \/ Cancel(c) \/ Leave(c)
    \/ \E f \in Flights : TaskStep(f)
    \/ Tick

Spec == Init /\ [][Next]_vars

\* The event loop runs every ready task; compute ends because the query client
\* gives every query a deadline.  Nobody is obliged to call or to cancel.
Fairness ==
    /\ \A c \in Callers : WF_vars(Retry(c)) /\ WF_vars(Leave(c)) /\ WF_vars(LeaveCleanup(c))
    /\ \A f \in Flights : WF_vars(TaskStep(f))

FairSpec == Spec /\ Fairness

-----------------------------------------------------------------------------
(* Properties.                                                             *)

Attached(f) == {c \in Callers : pc[c] = "awaiting" /\ at[c] = f}
Computing == {f \in Flights : task[f] \in Unfinished}

\* _InFlight.waiters counts the callers suspended on the shared task, no more
\* and no less: one too few and a live caller's computation is cancelled, one
\* too many and an abandoned computation is never cancelled.
WaitersExact ==
    \A f \in Flights : waiters[f] = Cardinality(Attached(f))

\* A computation being cancelled has no waiter, also when callers join between
\* the last release and the start of _retire; joining again would hand those
\* callers a CancelledError nobody sent them.
NobodyAwaitsACancelledTask ==
    \A c \in Callers :
        pc[c] = "awaiting" => /\ cleanup[at[c]] = "none"
                              /\ task[at[c]] \notin {"cancelling", "cancelled"}

\* get_or_compute ends with CancelledError only for a caller that was cancelled
\* (a caller reaches "cleanup" only by being cancelled).
OnlyTheCancelledSeeCancellation ==
    [][\A c \in Callers :
          (outcome'[c] = "cancelled" /\ outcome[c] # "cancelled")
              => (cancelled[c] \/ pc[c] = "cleanup")]_vars

\* At most one computation of a key runs at a time, a retiring one included:
\* it holds its place in the table until its task has really ended.
OneComputationPerKey ==
    \A f, g \in Computing : taskKey[f] = taskKey[g] => f = g

\* No more than max_in_flight computations run, the cancelled ones whose
\* worker cleanup is still going on included.
ComputationsBounded == Cardinality(Computing) <= MaxInFlight

\* Every running computation is held by a request that has not returned: the
\* last waiter stays until cleanup ends however often it is cancelled, so the
\* HTTP admission it owns covers the worker.
ComputationsAreOwned ==
    \A f \in Computing :
        \E c \in Callers : at[c] = f /\ pc[c] \in {"awaiting", "cleanup"}

\* No entry exists for a key while it is being computed: _store has nothing to
\* replace, and a late tile of a cancelled computation never overwrites another.
NoEntryWhileComputing == \A f \in Computing : ~IsCached(taskKey[f])

\* The computations that run are one per key that is not in the store, each held by
\* a request: what single flight promises, retiring computations included.
SingleFlight == OneComputationPerKey /\ NoEntryWhileComputing /\ ComputationsAreOwned

\* The byte account equals what the entries hold, entries are one per key, and
\* both limits hold after every operation.
StoreAccounting ==
    /\ bytes = BytesOf(entries)
    /\ bytes <= MaxBytes
    /\ Len(entries) <= MaxEntries
    /\ \A i, j \in DOMAIN entries : entries[i].key = entries[j].key => i = j

\* A caller holds the computation it awaits or whose cleanup it awaits; every other
\* wait holds none.
Held == [c \in Callers |-> IF pc[c] \in {"awaiting", "cleanup"} THEN at[c] ELSE NoFlight]

Owned == INSTANCE OwnedWork
         WITH Users <- Callers, Work <- Flights, None <- NoFlight, Limit <- MaxInFlight,
              holds <- Held, running <- Computing, strays <- {}

\* Computations are owned work without strays: a request leaves one that still runs
\* only to other waiters, and no computation starts beyond the limit or for a request
\* that holds another.
ImplementsOwnedWork == Owned!Spec

\* A caller waiting for a retiring computation is woken: the event is set
\* whatever way the cancelled task ends.
RetiredWaitEnds ==
    \A c \in Callers : \A f \in Flights :
        (pc[c] = "retired" /\ at[c] = f) ~> ~(pc[c] = "retired" /\ at[c] = f)

\* If callers stop being cancelled, every call of get_or_compute ends.  (While
\* cancellations go on, a caller may find a retiring computation every time it
\* runs the loop again.)
CallsEnd ==
    (<>[][\A c \in Callers : cancelled'[c] => cancelled[c]]_vars)
        => \A c \in Callers : (pc[c] # "idle") ~> (pc[c] = "idle")
=============================================================================

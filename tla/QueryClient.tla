---------------------------- MODULE QueryClient ----------------------------
(***************************************************************************)
(* ClickHouseClient: bounded concurrent queries with a deadline, retries   *)
(* of refused queries, and the killing of queries nobody waits for any     *)
(* more (dataset-mcp/query_engine/client.py).                              *)
(*                                                                         *)
(* An attempt is one POST and the query it becomes on a replica.  Steps    *)
(* are cut where query awaits.  The replicas are external: a request is    *)
(* refused, or runs and is answered; one whose connection is closed while  *)
(* it travels may still run.  Time is counted in ticks, for the deadline   *)
(* of a call and for the five seconds of a kill.                           *)
(***************************************************************************)
EXTENDS Integers, FiniteSets, TLC

CONSTANTS
    Calls,         \* callers of query
    Attempts,      \* identities of query identifiers
    Replicas,
    None,
    MaxPending,    \* max_pending_queries
    Deadline,      \* timeout_seconds
    KillBudget     \* the timeout of _kill_query

ASSUME NoneAssumption == None \notin Calls /\ None \notin Attempts /\ None \notin Replicas
ASSUME CallsAssumption == IsFiniteSet(Calls)
ASSUME LimitsAssumption == MaxPending \in Nat \ {0} /\ Deadline \in Nat \ {0} /\ KillBudget \in Nat

VARIABLES
    pending,
    place,         \* where each call of query is suspended
    attempt,       \* its attempt
    cause,         \* why it gave the attempt up
    cancelled,     \* its caller has cancelled it
    expired,       \* the timeout around the whole call has fired
    outcome,       \* how it ended
    left,          \* ticks to its deadline
    budget,        \* ticks left to its kill
    query,         \* what has become of each attempt
    replica,       \* the replica it was sent to
    owner,         \* the call it belongs to
    unkilled       \* history: attempts whose kill failed, or came before them

callVars  == <<place, attempt, cause, cancelled, expired, outcome>>
timeVars  == <<left, budget>>
queryVars == <<query, replica, owner, unkilled>>
vars == <<pending, callVars, timeVars, queryVars>>

Places   == {"idle", "selecting", "sending", "sleeping", "killing"}
Outcomes == {"none", "full", "ok", "error", "large", "unavailable", "timeout", "cancelled"}

TypeOK ==
    /\ pending \in 0..MaxPending
    /\ place \in [Calls -> Places]
    /\ attempt \in [Calls -> Attempts \cup {None}]
    /\ cause \in [Calls -> Outcomes]
    /\ cancelled \in [Calls -> BOOLEAN]
    /\ expired \in [Calls -> BOOLEAN]
    /\ outcome \in [Calls -> Outcomes]
    /\ left \in [Calls -> Int]
    /\ budget \in [Calls -> 0..KillBudget]
    /\ query \in [Attempts -> {"free", "travelling", "running", "ok", "error", "busy"}]
    /\ replica \in [Attempts -> Replicas \cup {None}]
    /\ owner \in [Attempts -> Calls \cup {None}]
    /\ unkilled \subseteq Attempts

Init ==
    /\ pending = 0
    /\ place = [c \in Calls |-> "idle"]
    /\ attempt = [c \in Calls |-> None]
    /\ cause = [c \in Calls |-> "none"]
    /\ cancelled = [c \in Calls |-> FALSE]
    /\ expired = [c \in Calls |-> FALSE]
    /\ outcome = [c \in Calls |-> "none"]
    /\ left = [c \in Calls |-> 0]
    /\ budget = [c \in Calls |-> 0]
    /\ query = [a \in Attempts |-> "free"]
    /\ replica = [a \in Attempts |-> None]
    /\ owner = [a \in Attempts |-> None]
    /\ unkilled = {}

-----------------------------------------------------------------------------
(* The replicas.  What they tell a closed connection is lost.              *)

Listened(a) == \E c \in Calls : attempt[c] = a /\ place[c] = "sending"

Forget(a) ==
    /\ query' = [query EXCEPT ![a] = "free"]
    /\ replica' = [replica EXCEPT ![a] = None]
    /\ owner' = [owner EXCEPT ![a] = None]
    /\ unkilled' = unkilled \ {a}

Answer(a, what) ==
    IF Listened(a)
    THEN query' = [query EXCEPT ![a] = what] /\ UNCHANGED <<replica, owner, unkilled>>
    ELSE IF owner[a] = None
         THEN Forget(a)
         ELSE query' = [query EXCEPT ![a] = "ok"] /\ UNCHANGED <<replica, owner, unkilled>>

RunQuery(a) ==
    /\ query[a] = "travelling"
    /\ query' = [query EXCEPT ![a] = "running"]
    /\ UNCHANGED <<pending, callVars, timeVars, replica, owner, unkilled>>

\* Too many simultaneous queries; or the connection was closed too early.
RefuseQuery(a) ==
    /\ query[a] = "travelling"
    /\ Answer(a, "busy")
    /\ UNCHANGED <<pending, callVars, timeVars>>

\* The result, an error, or the end at max_execution_time.
EndQuery(a) ==
    /\ query[a] = "running"
    /\ \E what \in {"ok", "error"} : Answer(a, what)
    /\ UNCHANGED <<pending, callVars, timeVars>>

-----------------------------------------------------------------------------
(* query.                                                                  *)

\* Mutant: a call that is cancelled keeps its place in the queue.
ReturnPending(c, how) ==
    /\ pending' = IF how = "cancelled" THEN pending ELSE pending - 1
    /\ place' = [place EXCEPT ![c] = "idle"]
    /\ outcome' = [outcome EXCEPT ![c] = how]
    /\ attempt' = [attempt EXCEPT ![c] = None]
    /\ cause' = [cause EXCEPT ![c] = "none"]
    /\ left' = [left EXCEPT ![c] = 0]
    /\ budget' = [budget EXCEPT ![c] = 0]

\* query returns or raises.
Return(c, how) ==
    /\ pending' = pending - 1
    /\ place' = [place EXCEPT ![c] = "idle"]
    /\ outcome' = [outcome EXCEPT ![c] = how]
    /\ attempt' = [attempt EXCEPT ![c] = None]
    /\ cause' = [cause EXCEPT ![c] = "none"]
    /\ left' = [left EXCEPT ![c] = 0]
    /\ budget' = [budget EXCEPT ![c] = 0]

Enter(c, full) ==
    /\ place[c] = "idle"
    /\ IF full
       THEN /\ outcome' = [outcome EXCEPT ![c] = "full"]
            /\ UNCHANGED <<pending, place, left>>
       ELSE /\ outcome' = [outcome EXCEPT ![c] = "none"]
            /\ pending' = pending + 1
            /\ place' = [place EXCEPT ![c] = "selecting"]
            /\ left' = [left EXCEPT ![c] = Deadline]
    /\ cancelled' = [cancelled EXCEPT ![c] = FALSE]
    /\ expired' = [expired EXCEPT ![c] = FALSE]
    /\ UNCHANGED <<attempt, cause, budget, queryVars>>

\* Mutant: one caller too many.
CallOneMore(c) == Enter(c, pending > MaxPending)

Call(c) == Enter(c, pending >= MaxPending)

\* The router names a replica, and the query is sent under a new identifier.
Send(c) ==
    /\ place[c] = "selecting"
    /\ \E a \in Attempts, n \in Replicas :
          /\ query[a] = "free"
          /\ query' = [query EXCEPT ![a] = "travelling"]
          /\ replica' = [replica EXCEPT ![a] = n]
          /\ owner' = [owner EXCEPT ![a] = c]
          /\ attempt' = [attempt EXCEPT ![c] = a]
    /\ place' = [place EXCEPT ![c] = "sending"]
    /\ UNCHANGED <<pending, cause, cancelled, expired, outcome, timeVars, unkilled>>

\* The name of the service has no address.
SelectFails(c) ==
    /\ place[c] = "selecting"
    /\ Return(c, "unavailable")
    /\ UNCHANGED <<cancelled, expired, queryVars>>

\* The result, or an error that is not retried.
Receive(c) ==
    /\ place[c] = "sending"
    /\ query[attempt[c]] \in {"ok", "error"}
    /\ Return(c, query[attempt[c]])
    /\ Forget(attempt[c])
    /\ UNCHANGED <<cancelled, expired>>

\* An admission refusal: the call sleeps and tries again.
Refused(c) ==
    /\ place[c] = "sending"
    /\ query[attempt[c]] = "busy"
    /\ place' = [place EXCEPT ![c] = "sleeping"]
    /\ attempt' = [attempt EXCEPT ![c] = None]
    /\ Forget(attempt[c])
    /\ UNCHANGED <<pending, cause, cancelled, expired, outcome, timeVars>>

Wake(c) ==
    /\ place[c] = "sleeping"
    /\ place' = [place EXCEPT ![c] = "selecting"]
    /\ UNCHANGED <<pending, attempt, cause, cancelled, expired, outcome, timeVars, queryVars>>

\* _attempt gives up and runs _finish_cancellation.
GiveUp(c, why) ==
    /\ place[c] = "sending"
    /\ place' = [place EXCEPT ![c] = "killing"]
    /\ cause' = [cause EXCEPT ![c] = why]
    /\ budget' = [budget EXCEPT ![c] = KillBudget]
    /\ UNCHANGED <<pending, attempt, outcome, left, queryVars>>

\* More bytes than the caller accepts.  Replicas answer when a query has ended
\* (wait_end_of_query).
TooLarge(c) ==
    /\ place[c] = "sending" /\ query[attempt[c]] \in {"ok", "error"}
    /\ GiveUp(c, "large")
    /\ UNCHANGED <<cancelled, expired>>

TransportFails(c) ==
    /\ GiveUp(c, "unavailable")
    /\ UNCHANGED <<cancelled, expired>>

\* The timeout around the attempt, or the HTTP client's, fires.
AttemptTimesOut(c) ==
    /\ left[c] <= 0
    /\ GiveUp(c, "timeout")
    /\ UNCHANGED <<cancelled, expired>>

\* An error delivered at an await of query or _attempt.
Interrupt(c, why) ==
    \/ /\ place[c] \in {"selecting", "sleeping"}
       /\ Return(c, why)
       /\ UNCHANGED queryVars
    \/ GiveUp(c, why)
    \/ /\ place[c] = "killing"
       /\ UNCHANGED <<pending, place, attempt, cause, outcome, timeVars, queryVars>>

\* Mutant: the timeout covers the attempts only, not what is between them.
ExpireInAttempt(c) ==
    /\ place[c] \in {"sending", "killing"} /\ left[c] <= 0 /\ ~expired[c]
    /\ expired' = [expired EXCEPT ![c] = TRUE]
    /\ Interrupt(c, "timeout")
    /\ UNCHANGED cancelled

\* The timeout around the whole call fires.
Expire(c) ==
    /\ place[c] # "idle" /\ left[c] <= 0 /\ ~expired[c]
    /\ expired' = [expired EXCEPT ![c] = TRUE]
    /\ Interrupt(c, "timeout")
    /\ UNCHANGED cancelled

\* Mutant: every cancellation starts another cleanup.
CancelRestarting(c) ==
    /\ place[c] # "idle"
    /\ cancelled' = [cancelled EXCEPT ![c] = TRUE]
    /\ \/ place[c] # "killing" /\ Interrupt(c, "cancelled")
       \/ /\ place[c] = "killing"
          /\ budget' = [budget EXCEPT ![c] = KillBudget]
          /\ UNCHANGED <<pending, place, attempt, cause, outcome, left, queryVars>>
    /\ UNCHANGED expired

\* The caller is cancelled, possibly again.
Cancel(c) ==
    /\ place[c] # "idle"
    /\ cancelled' = [cancelled EXCEPT ![c] = TRUE]
    /\ Interrupt(c, "cancelled")
    /\ UNCHANGED expired

-----------------------------------------------------------------------------
(* _finish_cancellation and _kill_query.                                   *)

\* Mutant: interruptions of the cleanup are forgotten.
ReasonForgetful(c) == cause[c]

\* Cancellation wins, then the deadline of the call, then the attempt's own error.
Reason(c) ==
    IF cancelled[c] THEN "cancelled"
    ELSE IF expired[c] THEN "timeout" ELSE cause[c]

\* The attempt loses its call; a query that still travels or runs is a stray.
Abandon(a) ==
    IF query[a] \in {"travelling", "running"}
    THEN /\ owner' = [owner EXCEPT ![a] = None]
         /\ unkilled' = unkilled \cup {a}
         /\ UNCHANGED <<query, replica>>
    ELSE Forget(a)

\* Mutant: the kill is routed like a query of its own.
KillElsewhere(c) ==
    /\ place[c] = "killing"
    /\ \E n \in Replicas :
          IF query[attempt[c]] = "running" /\ n # replica[attempt[c]]
          THEN /\ owner' = [owner EXCEPT ![attempt[c]] = None]
               /\ UNCHANGED <<query, replica, unkilled>>
          ELSE IF query[attempt[c]] = "travelling" THEN Abandon(attempt[c])
               ELSE Forget(attempt[c])
    /\ Return(c, Reason(c))
    /\ UNCHANGED <<cancelled, expired>>

\* The kill has stopped the query; one that has not arrived yet escapes it.
Kill(c) ==
    /\ place[c] = "killing"
    /\ IF query[attempt[c]] = "travelling"
       THEN Abandon(attempt[c])
       ELSE Forget(attempt[c])
    /\ Return(c, Reason(c))
    /\ UNCHANGED <<cancelled, expired>>

\* The kill is rejected, fails, or takes too long.
KillFails(c) ==
    /\ place[c] = "killing"
    /\ Abandon(attempt[c])
    /\ Return(c, Reason(c))
    /\ UNCHANGED <<cancelled, expired>>

\* Timers fire when they are due.
Due(c) == \/ place[c] # "idle" /\ left[c] <= 0 /\ ~expired[c]
          \/ place[c] = "killing" /\ budget[c] = 0

Tick ==
    /\ \E c \in Calls : place[c] # "idle"
    /\ \A c \in Calls : ~Due(c)
    /\ left' = [c \in Calls |-> IF place[c] # "idle" THEN left[c] - 1 ELSE 0]
    /\ budget' = [c \in Calls |-> IF place[c] = "killing" THEN budget[c] - 1 ELSE budget[c]]
    /\ UNCHANGED <<pending, callVars, queryVars>>

-----------------------------------------------------------------------------
Next ==
    \/ \E a \in Attempts : RunQuery(a) \/ RefuseQuery(a) \/ EndQuery(a)
    \/ \E c \in Calls :
          \/ Call(c) \/ Send(c) \/ SelectFails(c) \/ Receive(c) \/ Refused(c) \/ Wake(c)
          \/ TooLarge(c) \/ TransportFails(c) \/ AttemptTimesOut(c)
          \/ Expire(c) \/ Cancel(c) \/ Kill(c) \/ KillFails(c)
    \/ Tick

Spec == Init /\ [][Next]_vars

\* Time passes and timers fire.  Replicas and the network owe nothing.
Fairness ==
    /\ WF_vars(Tick)
    /\ \A c \in Calls : WF_vars(Expire(c)) /\ WF_vars(budget[c] = 0 /\ KillFails(c))

FairSpec == Spec /\ Fairness

-----------------------------------------------------------------------------
(* Properties.                                                             *)

Active == {c \in Calls : place[c] # "idle"}

\* However calls end, pending counts those under way: a leaked place would
\* shrink the queue for good.
PendingExact == pending = Cardinality(Active)

\* "the query may continue until its server limit" only if its kill failed, or
\* reached the replica before it: every other running query has its call.
RunningIsOwned ==
    \A a \in Attempts :
        query[a] = "running" =>
            \/ a \in unkilled
            \/ \E c \in Active : attempt[c] = a /\ owner[a] = c

\* "Only retry explicit admission refusals, never an ambiguous transport failure
\* or a query that has started executing": a call has one query at a time.
OneQueryPerCall ==
    \A a, b \in Attempts :
        (owner[a] = owner[b] /\ owner[a] # None) => a = b

\* What runs on the replicas is one query per call, the last the call sent, unless a
\* kill failed or was overtaken.
QueriesAreOwned == RunningIsOwned /\ OneQueryPerCall

\* A query that a replica has, or is about to have.
Underway == {a \in Attempts : query[a] \in {"travelling", "running"}}

Owned == INSTANCE OwnedWork
         WITH Users <- Calls, Work <- Attempts, Limit <- MaxPending,
              holds <- attempt, running <- Underway, strays <- unkilled

\* Queries are owned work, one per call: a call returns when its query has ended or
\* has been killed, and leaves a stray only where the kill failed or came first; the
\* queue bounds the queries under way but for the strays.
ImplementsOwnedWork == Owned!Spec

\* A call ends as cancelled exactly if its caller cancelled it, and as timed out
\* if its deadline passed, also if that happens during the cleanup of another
\* error.
OutcomeIsJust ==
    \A c \in Calls :
        place[c] = "idle" => /\ outcome[c] = "cancelled" <=> cancelled[c]
                             /\ (expired[c] /\ ~cancelled[c]) => outcome[c] = "timeout"

\* "Cleanup owns its five-second budget, even when the outer request deadline
\* expires during an HTTP-timeout cleanup or cancellation repeats": no call is
\* under way for longer than its deadline and one cleanup.
EndsInTime == \A c \in Calls : left[c] >= 0 - KillBudget

\* Every call ends, also if the replicas never answer or refuse for ever.
CallsEnd == \A c \in Calls : place[c] # "idle" ~> place[c] = "idle"
=============================================================================

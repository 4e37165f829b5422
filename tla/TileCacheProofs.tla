-------------------------- MODULE TileCacheProofs --------------------------
(***************************************************************************)
(* Proofs about TileCache, for every set of callers, keys and flights and  *)
(* every limit: type correctness, and the safety of the shared             *)
(* computations.                                                           *)
(***************************************************************************)
EXTENDS TileCache, FiniteSetTheorems, NaturalsInduction, TLAPS

-----------------------------------------------------------------------------
(* The store keeps its type.                                               *)

\* Removing an entry from the store's sequence leaves a sequence of entries.
LEMMA WithoutType ==
    ASSUME entries \in Seq(Entry), NEW k
    PROVE  Without(k) \in Seq(Entry)
<1>1. CASE ~IsCached(k)
  BY <1>1 DEF Without
<1>2. CASE IsCached(k)
  <2>1. Position(k) \in 1..Len(entries)
    BY <1>2 DEF IsCached, Position
  <2>2. /\ SubSeq(entries, 1, Position(k) - 1) \in Seq(Entry)
        /\ SubSeq(entries, Position(k) + 1, Len(entries)) \in Seq(Entry)
    BY <2>1
  <2> QED
    BY <1>2, <2>2 DEF Without, RemoveAt
<1> QED
  BY <1>1, <1>2

\* A hit reorders the store and nothing else.
LEMMA TouchType ==
    ASSUME entries \in Seq(Entry), NEW k, IsFresh(k), Touch(k)
    PROVE  entries' \in Seq(Entry)
<1>1. entries[Position(k)] \in Entry
  BY DEF IsFresh, Position
<1> QED
  BY <1>1, WithoutType DEF Touch

\* Storing a tile, with the evictions it causes, keeps the store's type.
LEMMA StoreType ==
    ASSUME entries \in Seq(Entry), NEW k \in Keys, NEW size \in Sizes, Store(k, size)
    PROVE  entries' \in Seq(Entry)
<1>1. CASE size > MaxBytes
  BY <1>1 DEF Store, storeVars
<1>2. CASE ~(size > MaxBytes)
  <2> DEFINE added == Append(Without(k), [key |-> k, size |-> size, left |-> TTL])
  <2>0. [key |-> k, size |-> size, left |-> TTL] \in Entry
    BY LimitsAssumption DEF Entry
  <2>1. added \in Seq(Entry)
    BY <2>0, WithoutType
  <2>2. PICK n \in 0..Len(added) : entries' = SubSeq(added, n + 1, Len(added))
    BY <1>2 DEF Store
  <2> HIDE DEF added
  <2> QED
    BY <2>1, <2>2
<1> QED
  BY <1>1, <1>2

\* Time changes only what entries have left.
LEMMA TickType ==
    ASSUME entries \in Seq(Entry), Tick
    PROVE  entries' \in Seq(Entry)
<1>1. ASSUME NEW e \in Entry PROVE Aged(e) \in Entry
  <2>1. CASE e.left > 0
    <3>1. e.left - 1 \in 0..TTL
      BY <2>1, LimitsAssumption DEF Entry
    <3> QED
      BY <2>1, <3>1 DEF Entry, Aged
  <2>2. CASE ~(e.left > 0)
    BY <2>2, LimitsAssumption DEF Entry, Aged
  <2> QED
    BY <2>1, <2>2
<1>2. DOMAIN entries = 1..Len(entries)
  OBVIOUS
<1> QED
  BY <1>1, <1>2 DEF Tick

-----------------------------------------------------------------------------
(* The inductive invariant of the shared computations.                     *)

Retiring(f) == cleanup[f] \in {"scheduled", "awaiting"}

\* A caller inside the call has a key and a flight; one that awaits a task
\* awaits the registered computation of its key, which is not retiring.
CallersHold ==
    \A c \in Callers :
        pc[c] # "idle" =>
            /\ key[c] \in Keys
            /\ at[c] \in Flights
            /\ pc[c] = "awaiting" => inFlight[key[c]] = at[c] /\ cleanup[at[c]] = "none"

\* A registered flight computes the key it is registered under, and somebody
\* waits for it unless it is retiring.
RegisteredHold ==
    \A k \in Keys :
        inFlight[k] # NoFlight =>
            /\ taskKey[inFlight[k]] = k
            /\ task[inFlight[k]] # "none"
            /\ cleanup[inFlight[k]] # "done"
            /\ cleanup[inFlight[k]] = "none" => waiters[inFlight[k]] # 0

\* A flight whose task or cleanup still runs is registered; a retiring one has
\* the caller that retired it; only cleanup cancels a task.
FlightsHold ==
    \A f \in Flights :
        /\ task[f] \in Unfinished \/ Retiring(f) =>
              taskKey[f] \in Keys /\ inFlight[taskKey[f]] = f
        /\ Retiring(f) => \E c \in Callers : pc[c] = "cleanup" /\ at[c] = f
        /\ task[f] = "cancelling" => cleanup[f] = "awaiting"
        /\ task[f] = "cancelled" => cleanup[f] \in {"awaiting", "done"}

CapacityHolds == IsFiniteSet(Registered) /\ Cardinality(Registered) <= MaxInFlight

IInv ==
    /\ TypeOK
    /\ CallersHold
    /\ RegisteredHold
    /\ FlightsHold
    /\ WaitersExact
    /\ CapacityHolds

LEMMA AttachedFinite ==
    ASSUME NEW f PROVE IsFiniteSet(Attached(f))
BY CallersAssumption, FS_Subset DEF Attached

\* A step that moves no caller to or from a shared task, and changes no count,
\* keeps the counts exact.
LEMMA SameAttached ==
    ASSUME WaitersExact, waiters' = waiters,
           \A c \in Callers :
              /\ (pc'[c] = "awaiting") <=> (pc[c] = "awaiting")
              /\ pc[c] = "awaiting" => at'[c] = at[c]
    PROVE  WaitersExact'
<1>1. \A f \in Flights : Attached(f)' = Attached(f)
  BY DEF Attached
<1> QED
  BY <1>1 DEF WaitersExact

\* Nothing but the store, a cancellation request or an old outcome changes.
LEMMA FrameStep ==
    ASSUME IInv, UNCHANGED <<pc, key, at, outcome, flightVars>>,
           cancelled' \in [Callers -> BOOLEAN], entries' \in Seq(Entry)
    PROVE  IInv'
<1> USE DEF IInv, flightVars
<1>1. TypeOK'
  BY DEF TypeOK
<1>2. CallersHold'
  BY DEF CallersHold
<1>3. RegisteredHold'
  BY DEF RegisteredHold
<1>4. FlightsHold'
  BY DEF FlightsHold, Retiring
<1>5. WaitersExact'
  BY SameAttached
<1>6. CapacityHolds'
  BY DEF CapacityHolds, Registered
<1> QED
  BY <1>1, <1>2, <1>3, <1>4, <1>5, <1>6

\* A caller that does not await a task, and whose cleanup is over if it started
\* one, returns.
LEMMA ReturnStep ==
    ASSUME IInv, NEW c \in Callers, NEW result \in Finished \cup {"none", "full"},
           Return(c, result), UNCHANGED flightVars, entries' \in Seq(Entry),
           pc[c] # "awaiting", pc[c] = "cleanup" => ~Retiring(at[c])
    PROVE  IInv'
<1> USE DEF IInv, flightVars
<1>1. TypeOK'
  BY DEF TypeOK, Return
<1>2. CallersHold'
  BY DEF CallersHold, Return, TypeOK
<1>3. RegisteredHold'
  BY DEF RegisteredHold
<1>4. FlightsHold'
  BY DEF FlightsHold, Retiring, Return, TypeOK
<1>5. WaitersExact'
  BY SameAttached DEF Return, TypeOK
<1>6. CapacityHolds'
  BY DEF CapacityHolds, Registered
<1> QED
  BY <1>1, <1>2, <1>3, <1>4, <1>5, <1>6

-----------------------------------------------------------------------------
(* One lemma per action that touches a flight.                             *)

LEMMA DropExpiredType ==
    ASSUME entries \in Seq(Entry), NEW k, DropExpired(k)
    PROVE  entries' \in Seq(Entry)
BY WithoutType DEF DropExpired

\* A new computation gets a flight nobody refers to, and its first waiter.
LEMMA StartStep ==
    ASSUME IInv, NEW c \in Callers, NEW k \in Keys, pc[c] \in {"idle", "retired"}, Start(c, k)
    PROVE  IInv'
<1> USE DEF IInv
<1>1. PICK f \in Flights :
          /\ IsFree(f, c)
          /\ inFlight' = [inFlight EXCEPT ![k] = f]
          /\ task' = [task EXCEPT ![f] = "running"]
          /\ taskKey' = [taskKey EXCEPT ![f] = k]
          /\ waiters' = [waiters EXCEPT ![f] = 1]
          /\ cleanup' = [cleanup EXCEPT ![f] = "none"]
          /\ Suspend(c, "awaiting", k, f)
  BY DEF Start
<1>2. TypeOK'
  <2>1. entries' \in Seq(Entry)
    BY DropExpiredType DEF Start, TypeOK
  <2> QED
    BY <1>1, <2>1 DEF TypeOK, Suspend, Unfinished
<1>3. CallersHold'
  BY <1>1, NoneAssumption DEF CallersHold, Start, IsFree, Suspend, TypeOK
<1>4. RegisteredHold'
  BY <1>1 DEF RegisteredHold, IsFree, TypeOK
<1>5. FlightsHold'
  <2>1. ASSUME NEW g \in Flights \ {f}, taskKey[g] \in Keys, inFlight[taskKey[g]] = g
        PROVE  taskKey'[g] \in Keys /\ inFlight'[taskKey'[g]] = g
    BY <1>1, <2>1, NoneAssumption DEF Start, TypeOK
  <2>2. ASSUME NEW g \in Flights, NEW d \in Callers, pc[d] = "cleanup" /\ at[d] = g
        PROVE  pc'[d] = "cleanup" /\ at'[d] = g
    BY <1>1, <2>2 DEF Suspend, TypeOK
  <2>3. ASSUME NEW g \in Flights \ {f}
        PROVE  task'[g] = task[g] /\ cleanup'[g] = cleanup[g]
    BY <1>1 DEF TypeOK
  <2>4. /\ task'[f] = "running" /\ cleanup'[f] = "none"
        /\ taskKey'[f] = k /\ inFlight'[k] = f
    BY <1>1 DEF TypeOK
  <2> QED
    BY <2>1, <2>2, <2>3, <2>4 DEF FlightsHold, Retiring, Unfinished
<1>6. WaitersExact'
  <2>1. Attached(f)' = {c}
    BY <1>1 DEF Attached, IsFree, Suspend, TypeOK
  <2>2. ASSUME NEW g \in Flights \ {f} PROVE Attached(g)' = Attached(g)
    BY <1>1 DEF Attached, Suspend, TypeOK
  <2> QED
    BY <1>1, <2>1, <2>2, FS_Singleton DEF WaitersExact, TypeOK
<1>7. CapacityHolds'
  <2>1. Registered' = Registered \cup {k}
    BY <1>1, NoneAssumption DEF Registered, TypeOK
  <2>2. k \notin Registered /\ Cardinality(Registered) < MaxInFlight
    BY DEF Registered, Start
  <2>3. /\ IsFiniteSet(Registered \cup {k})
        /\ Cardinality(Registered \cup {k}) = Cardinality(Registered) + 1
    BY <2>2, FS_AddElement DEF CapacityHolds
  <2>4. Cardinality(Registered) \in Nat
    BY FS_CardinalityType DEF CapacityHolds
  <2> QED
    BY <2>1, <2>2, <2>3, <2>4, LimitsAssumption DEF CapacityHolds
<1> QED
  BY <1>2, <1>3, <1>4, <1>5, <1>6, <1>7

\* A caller joins a computation that runs and is not retiring.
LEMMA JoinStep ==
    ASSUME IInv, NEW c \in Callers, NEW k \in Keys, pc[c] \in {"idle", "retired"}, Join(c, k)
    PROVE  IInv'
<1> DEFINE f == inFlight[k]
<1> USE DEF IInv
<1>1. f \in Flights /\ waiters[f] \in Nat
  BY DEF Join, TypeOK
<1>2. TypeOK'
  <2>1. entries' \in Seq(Entry)
    BY DropExpiredType DEF Join, TypeOK
  <2> QED
    BY <1>1, <2>1 DEF TypeOK, Join, Suspend
<1>3. CallersHold'
  BY <1>1 DEF CallersHold, Join, Suspend, TypeOK
<1>4. RegisteredHold'
  BY <1>1 DEF RegisteredHold, Join, TypeOK
<1>5. FlightsHold'
  BY DEF FlightsHold, Retiring, Join, Suspend, TypeOK
<1>6. WaitersExact'
  <2>1. Attached(f)' = Attached(f) \cup {c} /\ c \notin Attached(f)
    BY DEF Attached, Join, Suspend, TypeOK
  <2>2. ASSUME NEW g \in Flights \ {f} PROVE Attached(g)' = Attached(g)
    BY DEF Attached, Join, Suspend, TypeOK
  <2>3. Cardinality(Attached(f)') = Cardinality(Attached(f)) + 1
    BY <2>1, AttachedFinite, FS_AddElement
  <2> QED
    BY <1>1, <2>2, <2>3 DEF WaitersExact, Join, TypeOK
<1>7. CapacityHolds'
  BY DEF CapacityHolds, Registered, Join
<1> QED
  BY <1>2, <1>3, <1>4, <1>5, <1>6, <1>7

\* A caller waits for a retiring computation.
LEMMA AwaitRetiredStep ==
    ASSUME IInv, NEW c \in Callers, NEW k \in Keys, pc[c] \in {"idle", "retired"},
           AwaitRetired(c, k)
    PROVE  IInv'
<1> USE DEF IInv, AwaitRetired, flightVars
<1>1. TypeOK'
  <2>1. entries' \in Seq(Entry)
    BY DropExpiredType DEF TypeOK
  <2> QED
    BY <2>1 DEF TypeOK, Suspend
<1>2. CallersHold'
  BY DEF CallersHold, Suspend, TypeOK
<1>3. RegisteredHold'
  BY DEF RegisteredHold
<1>4. FlightsHold'
  BY DEF FlightsHold, Retiring, Suspend, TypeOK
<1>5. WaitersExact'
  BY SameAttached DEF Suspend, TypeOK
<1>6. CapacityHolds'
  BY DEF CapacityHolds, Registered
<1> QED
  BY <1>1, <1>2, <1>3, <1>4, <1>5, <1>6

\* What holds of a caller that awaits a task.
LEMMA AwaitingFacts ==
    ASSUME IInv, NEW c \in Callers, pc[c] = "awaiting"
    PROVE  /\ key[c] \in Keys /\ at[c] \in Flights
           /\ inFlight[key[c]] = at[c] /\ IsCurrent(c)
           /\ cleanup[at[c]] = "none"
           /\ waiters[at[c]] \in Nat \ {0}
BY NoneAssumption DEF IInv, CallersHold, RegisteredHold, TypeOK, IsCurrent

\* Counting one caller out of a flight keeps every count exact.
LEMMA CountOut ==
    ASSUME IInv, NEW c \in Callers, pc[c] = "awaiting", pc'[c] # "awaiting",
           \A d \in Callers \ {c} : pc'[d] = pc[d] /\ at'[d] = at[d],
           waiters' = [waiters EXCEPT ![at[c]] = @ - 1]
    PROVE  WaitersExact'
<1>1. PICK f \in Flights : f = at[c] /\ waiters[f] \in Nat \ {0}
  BY AwaitingFacts
<1>2. Attached(f)' = Attached(f) \ {c} /\ c \in Attached(f)
  BY <1>1 DEF Attached
<1>3. ASSUME NEW g \in Flights \ {f} PROVE Attached(g)' = Attached(g)
  BY <1>1 DEF Attached
<1>4. Cardinality(Attached(f)') = Cardinality(Attached(f)) - 1
  BY <1>2, AttachedFinite, FS_RemoveElement
<1> QED
  BY <1>1, <1>3, <1>4 DEF WaitersExact, IInv, TypeOK

\* When the count is one, the caller is the only one at its flight.
LEMMA OnlyWaiter ==
    ASSUME IInv, NEW c \in Callers, pc[c] = "awaiting", waiters[at[c]] = 1
    PROVE  \A d \in Callers : pc[d] = "awaiting" /\ at[d] = at[c] => d = c
<1>1. at[c] \in Flights
  BY AwaitingFacts
<1>2. Cardinality(Attached(at[c])) = 1
  BY <1>1 DEF IInv, WaitersExact
<1>3. PICK x : Attached(at[c]) = {x}
  BY <1>2, AttachedFinite, FS_Singleton
<1> QED
  BY <1>3 DEF Attached

LEMMA LeaveOthersStep ==
    ASSUME IInv, NEW c \in Callers, LeaveOthers(c)
    PROVE  IInv'
<1> USE DEF IInv
<1>0. /\ pc[c] = "awaiting" /\ IsCurrent(c)
      /\ at[c] \in Flights /\ waiters[at[c]] \in Nat \ {0, 1}
      /\ waiters' = [waiters EXCEPT ![at[c]] = @ - 1]
      /\ Result(c) \in Finished
  BY AwaitingFacts DEF LeaveOthers, Wakes, Result, Finished
<1>1. TypeOK'
  BY <1>0 DEF TypeOK, LeaveOthers, Return, storeVars
<1>2. CallersHold'
  BY DEF CallersHold, LeaveOthers, Return, TypeOK
<1>3. RegisteredHold'
  BY <1>0 DEF RegisteredHold, LeaveOthers, TypeOK
<1>4. FlightsHold'
  BY <1>0 DEF FlightsHold, Retiring, LeaveOthers, Return, TypeOK
<1>5. WaitersExact'
  BY <1>0, CountOut DEF LeaveOthers, Return, TypeOK
<1>6. CapacityHolds'
  BY DEF CapacityHolds, Registered, LeaveOthers
<1> QED
  BY <1>1, <1>2, <1>3, <1>4, <1>5, <1>6

\* Forgetting a flight frees a place.
LEMMA Unregister ==
    ASSUME IInv, NEW k \in Keys, inFlight' = [inFlight EXCEPT ![k] = NoFlight]
    PROVE  CapacityHolds'
<1>1. Registered' = Registered \ {k}
  BY DEF Registered, IInv, TypeOK
<1>2. /\ IsFiniteSet(Registered \ {k})
      /\ Cardinality(Registered \ {k}) <= Cardinality(Registered)
  BY FS_Subset DEF IInv, CapacityHolds
<1>3. /\ Cardinality(Registered) \in Nat
      /\ Cardinality(Registered \ {k}) \in Nat
  BY <1>2, FS_CardinalityType DEF IInv, CapacityHolds
<1> QED
  BY <1>1, <1>2, <1>3, LimitsAssumption DEF IInv, CapacityHolds

LEMMA LeaveFinishedStep ==
    ASSUME IInv, NEW c \in Callers, LeaveFinished(c)
    PROVE  IInv'
<1> USE DEF IInv
<1>0. /\ pc[c] = "awaiting" /\ inFlight[key[c]] = at[c] /\ key[c] \in Keys
      /\ at[c] \in Flights /\ waiters[at[c]] = 1 /\ cleanup[at[c]] = "none"
      /\ waiters' = [waiters EXCEPT ![at[c]] = @ - 1]
      /\ Result(c) \in Finished
      /\ task[at[c]] \notin Unfinished
  BY AwaitingFacts DEF LeaveFinished, Wakes, Result, Finished, Unfinished, TypeOK
<1>1. TypeOK'
  BY <1>0 DEF TypeOK, LeaveFinished, Return, storeVars
<1>2. CallersHold'
  <2>1. ASSUME NEW d \in Callers \ {c}, pc[d] = "awaiting" PROVE key[d] # key[c]
    BY <1>0, <2>1, OnlyWaiter DEF CallersHold
  <2> QED
    BY <1>0, <2>1 DEF CallersHold, LeaveFinished, Return, TypeOK
<1>3. RegisteredHold'
  <2>1. ASSUME NEW k \in Keys, inFlight'[k] # NoFlight
        PROVE  inFlight'[k] = inFlight[k] /\ inFlight[k] # at[c]
    BY <1>0, <2>1 DEF RegisteredHold, LeaveFinished, TypeOK
  <2> QED
    BY <1>0, <2>1 DEF RegisteredHold, LeaveFinished, TypeOK
<1>4. FlightsHold'
  <2>1. ASSUME NEW f \in Flights, task[f] \in Unfinished \/ Retiring(f)
        PROVE  taskKey[f] # key[c]
    BY <1>0, <2>1 DEF FlightsHold, Retiring
  <2> QED
    BY <1>0, <2>1 DEF FlightsHold, Retiring, LeaveFinished, Return, TypeOK
<1>5. WaitersExact'
  BY <1>0, CountOut DEF LeaveFinished, Return, TypeOK
<1>6. CapacityHolds'
  BY <1>0, Unregister DEF LeaveFinished
<1> QED
  BY <1>1, <1>2, <1>3, <1>4, <1>5, <1>6

LEMMA LeaveRetiringStep ==
    ASSUME IInv, NEW c \in Callers, LeaveRetiring(c)
    PROVE  IInv'
<1> USE DEF IInv
<1>0. /\ pc[c] = "awaiting" /\ inFlight[key[c]] = at[c] /\ key[c] \in Keys
      /\ at[c] \in Flights /\ waiters[at[c]] = 1 /\ cleanup[at[c]] = "none"
      /\ waiters' = [waiters EXCEPT ![at[c]] = @ - 1]
      /\ at[c] # NoFlight
  BY AwaitingFacts, NoneAssumption DEF LeaveRetiring, Wakes
<1>1. TypeOK'
  BY <1>0 DEF TypeOK, LeaveRetiring, storeVars
<1>2. CallersHold'
  BY <1>0, OnlyWaiter DEF CallersHold, LeaveRetiring, TypeOK
<1>3. RegisteredHold'
  BY <1>0 DEF RegisteredHold, LeaveRetiring, TypeOK
<1>4. FlightsHold'
  <2>1. taskKey[at[c]] = key[c]
    BY <1>0 DEF RegisteredHold
  <2> QED
    BY <1>0, <2>1 DEF FlightsHold, Retiring, LeaveRetiring, TypeOK
<1>5. WaitersExact'
  BY <1>0, CountOut DEF LeaveRetiring, TypeOK
<1>6. CapacityHolds'
  BY DEF CapacityHolds, Registered, LeaveRetiring
<1> QED
  BY <1>1, <1>2, <1>3, <1>4, <1>5, <1>6

LEMMA TaskEndsStep ==
    ASSUME IInv, NEW f \in Flights, task[f] \in Unfinished,
           entries' \in Seq(Entry),
           NEW end \in Finished, task' = [task EXCEPT ![f] = end],
           end = "cancelled" => task[f] = "cancelling",
           UNCHANGED <<callerVars, inFlight, taskKey, waiters, cleanup>>
    PROVE  IInv'
<1> USE DEF IInv, callerVars
<1>1. TypeOK'
  BY DEF TypeOK
<1>2. CallersHold'
  BY DEF CallersHold
<1>3. RegisteredHold'
  BY DEF RegisteredHold, TypeOK, Finished
<1>4. FlightsHold'
  BY DEF FlightsHold, Retiring, TypeOK, Finished, Unfinished
<1>5. WaitersExact'
  BY SameAttached
<1>6. CapacityHolds'
  BY DEF CapacityHolds, Registered
<1> QED
  BY <1>1, <1>2, <1>3, <1>4, <1>5, <1>6

LEMMA RetireBeginsStep ==
    ASSUME IInv, NEW f \in Flights, RetireBegins(f)
    PROVE  IInv'
<1> USE DEF IInv, callerVars, storeVars, RetireBegins
<1>1. TypeOK'
  BY DEF TypeOK, Unfinished
<1>2. CallersHold'
  BY DEF CallersHold, TypeOK
<1>3. RegisteredHold'
  BY DEF RegisteredHold, TypeOK
<1>4. FlightsHold'
  BY DEF FlightsHold, Retiring, TypeOK, Unfinished
<1>5. WaitersExact'
  BY SameAttached
<1>6. CapacityHolds'
  BY DEF CapacityHolds, Registered
<1> QED
  BY <1>1, <1>2, <1>3, <1>4, <1>5, <1>6

LEMMA RetireEndsStep ==
    ASSUME IInv, NEW f \in Flights, RetireEnds(f)
    PROVE  IInv'
<1> USE DEF IInv, callerVars, storeVars
<1>0. /\ taskKey[f] \in Keys /\ inFlight[taskKey[f]] = f
      /\ inFlight' = [inFlight EXCEPT ![taskKey[f]] = NoFlight]
      /\ cleanup[f] = "awaiting" /\ task[f] \notin Unfinished
  BY DEF RetireEnds, FlightsHold, Retiring, Finished, Unfinished, TypeOK
<1>1. TypeOK'
  BY <1>0 DEF TypeOK, RetireEnds
<1>2. CallersHold'
  BY <1>0 DEF CallersHold, RetireEnds, TypeOK
<1>3. RegisteredHold'
  <2>1. ASSUME NEW k \in Keys, inFlight'[k] # NoFlight
        PROVE  inFlight'[k] = inFlight[k] /\ inFlight[k] # f
    BY <1>0, <2>1 DEF RegisteredHold, TypeOK
  <2> QED
    BY <2>1 DEF RegisteredHold, RetireEnds, TypeOK
<1>4. FlightsHold'
  <2>1. ASSUME NEW g \in Flights \ {f}, task[g] \in Unfinished \/ Retiring(g)
        PROVE  taskKey'[g] \in Keys /\ inFlight'[taskKey'[g]] = g
    BY <1>0, <2>1 DEF FlightsHold, RetireEnds, TypeOK
  <2>2. ASSUME NEW g \in Flights \ {f} PROVE cleanup'[g] = cleanup[g]
    BY DEF RetireEnds, TypeOK
  <2>3. cleanup'[f] = "done" /\ task' = task /\ pc' = pc /\ at' = at
    BY DEF RetireEnds, TypeOK
  <2> QED
    BY <1>0, <2>1, <2>2, <2>3 DEF FlightsHold, Retiring, Unfinished
<1>5. WaitersExact'
  BY SameAttached DEF RetireEnds
<1>6. CapacityHolds'
  BY <1>0, Unregister
<1> QED
  BY <1>1, <1>2, <1>3, <1>4, <1>5, <1>6

-----------------------------------------------------------------------------
(* The invariant is inductive.                                             *)

LEMMA InitIInv == Init => IInv
<1> SUFFICES ASSUME Init PROVE IInv
  OBVIOUS
<1> USE DEF Init
<1>1. TypeOK
  BY DEF TypeOK, Finished, Unfinished
<1>2. CallersHold /\ RegisteredHold
  BY DEF CallersHold, RegisteredHold
<1>3. FlightsHold
  BY DEF FlightsHold, Retiring, Unfinished
<1>4. WaitersExact
  <2>1. \A f \in Flights : Attached(f) = {}
    BY DEF Attached
  <2> QED
    BY <2>1, FS_EmptySet DEF WaitersExact
<1>5. CapacityHolds
  <2>1. Registered = {}
    BY DEF Registered
  <2> QED
    BY <2>1, FS_EmptySet, LimitsAssumption DEF CapacityHolds
<1> QED
  BY <1>1, <1>2, <1>3, <1>4, <1>5 DEF IInv

LEMMA LookupStep ==
    ASSUME IInv, NEW c \in Callers, NEW k \in Keys, pc[c] \in {"idle", "retired"}, Lookup(c, k)
    PROVE  IInv'
<1>0. entries \in Seq(Entry)
  BY DEF IInv, TypeOK
<1>1. CASE Hit(c, k)
  BY <1>0, <1>1, TouchType, ReturnStep DEF Hit, Finished
<1>2. CASE Reject(c, k)
  BY <1>0, <1>2, DropExpiredType, ReturnStep DEF Reject
<1>3. CASE Start(c, k)
  BY <1>3, StartStep
<1>4. CASE Join(c, k)
  BY <1>4, JoinStep
<1>5. CASE JoinFinished(c, k)
  <2>1. waiters[inFlight[k]] # 0
    BY <1>5 DEF JoinFinished, IInv, RegisteredHold
  <2>2. UNCHANGED flightVars
    BY <1>5, <2>1 DEF JoinFinished, flightVars
  <2> QED
    BY <1>0, <1>5, <2>2, DropExpiredType, ReturnStep DEF JoinFinished
<1>6. CASE AwaitRetired(c, k)
  BY <1>6, AwaitRetiredStep
<1> QED
  BY <1>1, <1>2, <1>3, <1>4, <1>5, <1>6 DEF Lookup

LEMMA LeaveStep ==
    ASSUME IInv, NEW c \in Callers, Leave(c)
    PROVE  IInv'
<1>0. entries \in Seq(Entry) /\ cancelled \in [Callers -> BOOLEAN]
  BY DEF IInv, TypeOK
<1>1. CASE LeaveOthers(c)
  BY <1>1, LeaveOthersStep
<1>2. CASE LeaveFinished(c)
  BY <1>2, LeaveFinishedStep
<1>3. CASE LeaveRetiring(c)
  BY <1>3, LeaveRetiringStep
<1>4. CASE LeaveCleanup(c)
  BY <1>0, <1>4, ReturnStep DEF LeaveCleanup, Retiring, storeVars, Finished
<1>5. CASE CancelledWhileRetired(c)
  BY <1>0, <1>5, ReturnStep DEF CancelledWhileRetired, storeVars, Finished
<1>6. CASE CancelledInCleanup(c)
  BY <1>0, <1>6, FrameStep DEF CancelledInCleanup, storeVars
<1> QED
  BY <1>1, <1>2, <1>3, <1>4, <1>5, <1>6 DEF Leave

LEMMA TaskLemma ==
    ASSUME IInv, NEW f \in Flights, TaskStep(f)
    PROVE  IInv'
<1>0. entries \in Seq(Entry)
  BY DEF IInv, TypeOK
<1>1. CASE TaskStores(f)
  <2>1. taskKey[f] \in Keys
    BY <1>1 DEF TaskStores, IInv, FlightsHold
  <2>2. entries' \in Seq(Entry)
    BY <1>0, <1>1, <2>1, StoreType DEF TaskStores
  <2> QED
    BY <1>1, <2>2, TaskEndsStep DEF TaskStores, Finished
<1>2. CASE TaskRaises(f)
  BY <1>0, <1>2, TaskEndsStep DEF TaskRaises, Finished, storeVars
<1>3. CASE RetireBegins(f)
  BY <1>3, RetireBeginsStep
<1>4. CASE RetireEnds(f)
  BY <1>4, RetireEndsStep
<1> QED
  BY <1>1, <1>2, <1>3, <1>4 DEF TaskStep

LEMMA NextIInv == IInv /\ [Next]_vars => IInv'
<1> SUFFICES ASSUME IInv, [Next]_vars PROVE IInv'
  OBVIOUS
<1>0. entries \in Seq(Entry) /\ cancelled \in [Callers -> BOOLEAN]
  BY DEF IInv, TypeOK
<1>1. ASSUME NEW c \in Callers, Call(c) PROVE IInv'
  BY <1>1, LookupStep DEF Call
<1>2. ASSUME NEW c \in Callers, Retry(c) PROVE IInv'
  <2>1. key[c] \in Keys
    BY <1>2 DEF Retry, IInv, CallersHold
  <2> QED
    BY <1>2, <2>1, LookupStep DEF Retry
<1>3. ASSUME NEW c \in Callers, Cancel(c) PROVE IInv'
  BY <1>0, <1>3, FrameStep DEF Cancel, storeVars
<1>4. ASSUME NEW c \in Callers, Leave(c) PROVE IInv'
  BY <1>4, LeaveStep
<1>5. ASSUME NEW f \in Flights, TaskStep(f) PROVE IInv'
  BY <1>5, TaskLemma
<1>6. CASE Tick
  BY <1>0, <1>6, TickType, FrameStep DEF Tick, callerVars
<1>7. CASE UNCHANGED vars
  BY <1>0, <1>7, FrameStep DEF vars, callerVars, storeVars
<1> QED
  BY <1>1, <1>2, <1>3, <1>4, <1>5, <1>6, <1>7 DEF Next

-----------------------------------------------------------------------------
(* The theorems.                                                           *)

LEMMA AlwaysIInv == Spec => []IInv
<1> QED
  BY InitIInv, NextIInv, PTL DEF Spec

\* Every reachable state of the cache is well typed.
THEOREM TypeCorrect == Spec => []TypeOK
<1>1. IInv => TypeOK
  BY DEF IInv
<1> QED
  BY <1>1, AlwaysIInv, PTL

\* The waiter count of every flight is the number of callers awaiting its task.
THEOREM WaitersAreExact == Spec => []WaitersExact
<1>1. IInv => WaitersExact
  BY DEF IInv
<1> QED
  BY <1>1, AlwaysIInv, PTL

\* No caller awaits a task that is being, or was, cancelled.
THEOREM NoSharedCancellation == Spec => []NobodyAwaitsACancelledTask
<1>1. IInv => NobodyAwaitsACancelledTask
  BY AwaitingFacts DEF IInv, FlightsHold, NobodyAwaitsACancelledTask
<1> QED
  BY <1>1, AlwaysIInv, PTL

\* Two running computations are of different keys, retiring ones included.
THEOREM SingleComputation == Spec => []OneComputationPerKey
<1>1. IInv => OneComputationPerKey
  BY DEF IInv, FlightsHold, OneComputationPerKey, Computing
<1> QED
  BY <1>1, AlwaysIInv, PTL

-----------------------------------------------------------------------------
(* The store holds one entry per key, and none for a key being computed.   *)

KeysIn(es) == {es[i].key : i \in DOMAIN es}

Distinct(es) == \A i, j \in DOMAIN es : es[i].key = es[j].key => i = j

SInv == Distinct(entries) /\ NoEntryWhileComputing

\* Removing the entry of a key keeps the others, in their order.
LEMMA WithoutKeys ==
    ASSUME entries \in Seq(Entry), Distinct(entries), NEW k
    PROVE  /\ Distinct(Without(k))
           /\ KeysIn(Without(k)) \subseteq KeysIn(entries) \ {k}
<1>1. CASE ~IsCached(k)
  BY <1>1 DEF Without, IsCached, KeysIn
<1>2. CASE IsCached(k)
  <2> DEFINE p == Position(k)
             es == Without(k)
  <2>1. p \in 1..Len(entries) /\ entries[p].key = k
    BY <1>2 DEF IsCached, Position
  <2>2. es = SubSeq(entries, 1, p - 1) \o SubSeq(entries, p + 1, Len(entries))
    BY <1>2 DEF Without, RemoveAt
  <2> HIDE DEF p, es
  <2>3. /\ DOMAIN es = 1..(Len(entries) - 1)
        /\ \A i \in DOMAIN es : es[i] = entries[IF i < p THEN i ELSE i + 1]
    <3> DEFINE head == SubSeq(entries, 1, p - 1)
               tail == SubSeq(entries, p + 1, Len(entries))
    <3>1. /\ head \in Seq(Entry) /\ Len(head) = p - 1
          /\ \A i \in 1..(p - 1) : head[i] = entries[i]
      BY <2>1
    <3>2. /\ tail \in Seq(Entry) /\ Len(tail) = Len(entries) - p
          /\ \A i \in 1..(Len(entries) - p) : tail[i] = entries[p + i]
      BY <2>1
    <3>3. p \in Nat /\ Len(entries) \in Nat
      BY <2>1
    <3> HIDE DEF head, tail
    <3>4. /\ DOMAIN (head \o tail) = 1..(Len(head) + Len(tail))
          /\ \A i \in DOMAIN (head \o tail) :
                (head \o tail)[i] = IF i <= Len(head) THEN head[i] ELSE tail[i - Len(head)]
      BY <3>1, <3>2
    <3>5. es = head \o tail
      BY <2>2 DEF head, tail
    <3>6. DOMAIN es = 1..(Len(entries) - 1)
      BY <3>1, <3>2, <3>3, <3>4, <3>5
    <3>7. ASSUME NEW i \in DOMAIN es, i < p PROVE es[i] = entries[i]
      BY <3>1, <3>3, <3>4, <3>5, <3>6, <3>7
    <3>8. ASSUME NEW i \in DOMAIN es, ~(i < p) PROVE es[i] = entries[i + 1]
      <4>1. i - (p - 1) \in 1..(Len(entries) - p) /\ p + (i - (p - 1)) = i + 1
        BY <2>1, <3>3, <3>6, <3>8
      <4>2. es[i] = tail[i - (p - 1)]
        BY <3>1, <3>3, <3>4, <3>5, <3>6, <3>8
      <4> QED
        BY <3>2, <4>1, <4>2
    <3> QED
      BY <3>6, <3>7, <3>8
  <2>4. Distinct(es)
    BY <2>1, <2>3 DEF Distinct
  <2>5. KeysIn(es) \subseteq KeysIn(entries) \ {k}
    BY <2>1, <2>3 DEF Distinct, KeysIn
  <2> QED
    BY <2>4, <2>5 DEF es
<1> QED
  BY <1>1, <1>2

\* An entry at the end of such a sequence keeps its keys apart.
LEMMA AppendKeys ==
    ASSUME NEW es \in Seq(Entry), NEW e \in Entry, Distinct(es), e.key \notin KeysIn(es)
    PROVE  /\ Distinct(Append(es, e))
           /\ KeysIn(Append(es, e)) = KeysIn(es) \cup {e.key}
<1>1. /\ DOMAIN Append(es, e) = 1..(Len(es) + 1)
      /\ \A i \in DOMAIN es : Append(es, e)[i] = es[i]
      /\ Append(es, e)[Len(es) + 1] = e
  OBVIOUS
<1>2. DOMAIN es = 1..Len(es)
  OBVIOUS
<1> QED
  BY <1>1, <1>2 DEF Distinct, KeysIn

LEMMA TouchKeys ==
    ASSUME entries \in Seq(Entry), Distinct(entries), NEW k, IsFresh(k), Touch(k)
    PROVE  Distinct(entries') /\ KeysIn(entries') \subseteq KeysIn(entries)
<1>1. entries[Position(k)] \in Entry /\ entries[Position(k)].key = k /\ k \in KeysIn(entries)
  BY DEF IsFresh, Position, KeysIn
<1>2. Without(k) \in Seq(Entry)
  BY WithoutType
<1> QED
  BY <1>1, <1>2, WithoutKeys, AppendKeys DEF Touch

LEMMA StoreKeys ==
    ASSUME entries \in Seq(Entry), Distinct(entries), NEW k \in Keys, NEW size \in Sizes,
           Store(k, size)
    PROVE  Distinct(entries') /\ KeysIn(entries') \subseteq KeysIn(entries) \cup {k}
<1>1. CASE size > MaxBytes
  BY <1>1 DEF Store, storeVars
<1>2. CASE ~(size > MaxBytes)
  <2> DEFINE e == [key |-> k, size |-> size, left |-> TTL]
             added == Append(Without(k), e)
  <2>1. e \in Entry
    BY LimitsAssumption DEF Entry
  <2>2. Without(k) \in Seq(Entry)
    BY WithoutType
  <2>3. /\ added \in Seq(Entry) /\ Distinct(added)
        /\ KeysIn(added) \subseteq KeysIn(entries) \cup {k}
    BY <2>1, <2>2, WithoutKeys, AppendKeys
  <2>4. PICK n \in 0..Len(added) : entries' = SubSeq(added, n + 1, Len(added))
    BY <1>2 DEF Store
  <2> HIDE DEF added
  <2>5. /\ DOMAIN entries' = 1..(Len(added) - n)
        /\ \A i \in DOMAIN entries' : entries'[i] = added[i + n]
    BY <2>3, <2>4
  <2>6. DOMAIN added = 1..Len(added)
    BY <2>3
  <2>7. n \in Nat /\ Len(added) \in Nat
    BY <2>3
  <2>8. \A i \in DOMAIN entries' : i \in Int /\ i + n \in DOMAIN added
    BY <2>5, <2>6, <2>7
  <2>9. Distinct(entries')
    BY <2>3, <2>5, <2>7, <2>8 DEF Distinct
  <2>10. KeysIn(entries') \subseteq KeysIn(added)
    BY <2>5, <2>8 DEF KeysIn
  <2> QED
    BY <2>3, <2>9, <2>10
<1> QED
  BY <1>1, <1>2

LEMMA TickKeys ==
    ASSUME entries \in Seq(Entry), Distinct(entries), Tick
    PROVE  Distinct(entries') /\ KeysIn(entries') = KeysIn(entries)
<1>1. /\ DOMAIN entries' = DOMAIN entries
      /\ \A i \in DOMAIN entries : entries'[i] = Aged(entries[i])
  BY DEF Tick
<1>2. ASSUME NEW i \in DOMAIN entries PROVE entries'[i].key = entries[i].key
  <2>1. entries[i] \in Entry
    OBVIOUS
  <2>2. \A e \in Entry : Aged(e).key = e.key
    BY DEF Aged, Entry
  <2> QED
    BY <1>1, <2>1, <2>2
<1> QED
  BY <1>1, <1>2 DEF Distinct, KeysIn

\* A step that starts no computation and adds no key of a running one.
LEMMA KeepsStore ==
    ASSUME SInv, Distinct(entries'), KeysIn(entries') \subseteq KeysIn(entries),
           taskKey' = taskKey, \A f \in Flights : task'[f] \in Unfinished => task[f] \in Unfinished
    PROVE  SInv'
BY DEF SInv, NoEntryWhileComputing, Computing, IsCached, KeysIn

LEMMA LookupStore ==
    ASSUME IInv, SInv, NEW c \in Callers, NEW k \in Keys, Lookup(c, k)
    PROVE  SInv'
<1> entries \in Seq(Entry) /\ Distinct(entries)
  BY DEF IInv, TypeOK, SInv
<1>1. CASE Hit(c, k)
  BY <1>1, TouchKeys, KeepsStore DEF Hit, flightVars
<1>2. ASSUME DropExpired(k)
      PROVE  Distinct(entries') /\ KeysIn(entries') \subseteq KeysIn(entries) \ {k}
  BY <1>2, WithoutKeys DEF DropExpired
<1>3. CASE Start(c, k)
  <2>1. PICK f \in Flights :
            /\ task' = [task EXCEPT ![f] = "running"]
            /\ taskKey' = [taskKey EXCEPT ![f] = k]
    BY <1>3 DEF Start
  <2>2. Computing' \subseteq Computing \cup {f} /\ taskKey'[f] = k
    BY <2>1 DEF Computing, IInv, TypeOK
  <2>3. \A g \in Computing \ {f} : taskKey'[g] = taskKey[g]
    BY <2>1 DEF Computing, IInv, TypeOK
  <2>4. DropExpired(k)
    BY <1>3 DEF Start
  <2> QED
    BY <1>2, <2>2, <2>3, <2>4 DEF SInv, NoEntryWhileComputing, IsCached, KeysIn
<1>4. CASE Reject(c, k) \/ Join(c, k) \/ JoinFinished(c, k) \/ AwaitRetired(c, k)
  <2>1. DropExpired(k) /\ task' = task /\ taskKey' = taskKey
    BY <1>4 DEF Reject, Join, JoinFinished, AwaitRetired, flightVars
  <2> QED
    BY <1>2, <2>1, KeepsStore
<1> QED
  BY <1>1, <1>3, <1>4 DEF Lookup

\* The task that stores a tile is the only one that computed its key.
LEMMA TaskStore ==
    ASSUME IInv, SInv, NEW f \in Flights, TaskStep(f)
    PROVE  SInv'
<1> entries \in Seq(Entry) /\ Distinct(entries)
  BY DEF IInv, TypeOK, SInv
<1>1. CASE TaskStores(f)
  <2>1. taskKey[f] \in Keys
    BY <1>1 DEF TaskStores, IInv, FlightsHold
  <2>2. /\ Distinct(entries')
        /\ KeysIn(entries') \subseteq KeysIn(entries) \cup {taskKey[f]}
    BY <1>1, <2>1, StoreKeys DEF TaskStores
  <2>3. Computing' \subseteq Computing \ {f} /\ taskKey' = taskKey
    BY <1>1 DEF TaskStores, Computing, Unfinished, IInv, TypeOK
  <2>4. \A g \in Computing \ {f} : taskKey[g] # taskKey[f]
    BY <1>1 DEF TaskStores, Computing, IInv, FlightsHold
  <2> QED
    BY <2>2, <2>3, <2>4 DEF SInv, NoEntryWhileComputing, IsCached, KeysIn
<1>2. CASE TaskRaises(f) \/ RetireBegins(f) \/ RetireEnds(f)
  <2>1. entries' = entries /\ taskKey' = taskKey
    BY <1>2 DEF TaskRaises, RetireBegins, RetireEnds, storeVars
  <2>2. \A g \in Flights : task'[g] \in Unfinished => task[g] \in Unfinished
    BY <1>2 DEF TaskRaises, RetireBegins, RetireEnds, Unfinished, IInv, TypeOK
  <2> QED
    BY <2>1, <2>2, KeepsStore
<1> QED
  BY <1>1, <1>2 DEF TaskStep

LEMMA NextSInv == IInv /\ SInv /\ [Next]_vars => SInv'
<1> SUFFICES ASSUME IInv, SInv, [Next]_vars PROVE SInv'
  OBVIOUS
<1> entries \in Seq(Entry) /\ Distinct(entries)
  BY DEF IInv, TypeOK, SInv
<1>1. ASSUME NEW c \in Callers, Call(c) PROVE SInv'
  BY <1>1, LookupStore DEF Call
<1>2. ASSUME NEW c \in Callers, Retry(c) PROVE SInv'
  BY <1>2, LookupStore DEF Retry, IInv, CallersHold
<1>3. ASSUME NEW c \in Callers, Cancel(c) \/ Leave(c) PROVE SInv'
  <2>1. entries' = entries /\ task' = task /\ taskKey' = taskKey
    BY <1>3 DEF Cancel, Leave, LeaveOthers, LeaveFinished, LeaveRetiring, LeaveCleanup,
                CancelledWhileRetired, CancelledInCleanup, storeVars, flightVars
  <2> QED
    BY <2>1, KeepsStore
<1>4. ASSUME NEW f \in Flights, TaskStep(f) PROVE SInv'
  BY <1>4, TaskStore
<1>5. CASE Tick
  BY <1>5, TickKeys, KeepsStore DEF Tick, flightVars
<1>6. CASE UNCHANGED vars
  BY <1>6, KeepsStore DEF vars, storeVars, flightVars
<1> QED
  BY <1>1, <1>2, <1>3, <1>4, <1>5, <1>6 DEF Next

LEMMA AlwaysSInv == Spec => []SInv
<1>1. Init => SInv
  BY DEF Init, SInv, Distinct, NoEntryWhileComputing, Computing, Unfinished
<1> QED
  BY <1>1, NextSInv, AlwaysIInv, PTL DEF Spec

\* At most MaxInFlight computations run, retiring ones included.
THEOREM BoundedComputations == Spec => []ComputationsBounded
<1>1. ASSUME IInv PROVE ComputationsBounded
  <2> DEFINE keyOf == [f \in Computing |-> taskKey[f]]
  <2>1. keyOf \in Injection(Computing, Registered)
    <3>1. \A f \in Computing : taskKey[f] \in Registered /\ inFlight[taskKey[f]] = f
      BY <1>1, NoneAssumption DEF IInv, FlightsHold, Computing, Registered
    <3> QED
      BY <3>1 DEF Injection, IsInjective
  <2>2. /\ IsFiniteSet(Computing) /\ IsFiniteSet(Registered)
        /\ Cardinality(Computing) <= Cardinality(Registered)
    BY <1>1, <2>1, FS_Injection DEF IInv, CapacityHolds
  <2>3. Cardinality(Computing) \in Nat /\ Cardinality(Registered) \in Nat
    BY <2>2, FS_CardinalityType
  <2> QED
    BY <1>1, <2>2, <2>3, LimitsAssumption DEF IInv, CapacityHolds, ComputationsBounded
<1> QED
  BY <1>1, AlwaysIInv, PTL

\* Every running computation is held by a caller that has not returned.
THEOREM OwnedComputations == Spec => []ComputationsAreOwned
<1>1. ASSUME IInv PROVE ComputationsAreOwned
  <2> SUFFICES ASSUME NEW f \in Computing
               PROVE  \E c \in Callers : at[c] = f /\ pc[c] \in {"awaiting", "cleanup"}
    BY DEF ComputationsAreOwned
  <2>1. /\ f \in Flights /\ taskKey[f] \in Keys /\ inFlight[taskKey[f]] = f
        /\ f # NoFlight
    BY <1>1, NoneAssumption DEF IInv, FlightsHold, Computing
  <2>2. CASE cleanup[f] = "none"
    <3>1. waiters[f] # 0
      BY <1>1, <2>1, <2>2 DEF IInv, RegisteredHold
    <3>2. Attached(f) # {}
      BY <1>1, <2>1, <3>1, FS_EmptySet DEF IInv, WaitersExact
    <3> QED
      BY <3>2 DEF Attached
  <2>3. CASE cleanup[f] # "none"
    <3>1. Retiring(f)
      BY <1>1, <2>1, <2>3 DEF IInv, RegisteredHold, TypeOK, Retiring
    <3> QED
      BY <1>1, <2>1, <3>1 DEF IInv, FlightsHold
  <2> QED
    BY <2>2, <2>3
<1> QED
  BY <1>1, AlwaysIInv, PTL

\* The running computations are one per key, of keys the store does not hold, and
\* each is held by a caller that has not returned.
THEOREM SingleFlightHolds == Spec => []SingleFlight
<1>1. SInv => NoEntryWhileComputing
  BY DEF SInv
<1>2. OneComputationPerKey /\ NoEntryWhileComputing /\ ComputationsAreOwned => SingleFlight
  BY DEF SingleFlight
<1> QED
  BY <1>1, <1>2, AlwaysSInv, SingleComputation, OwnedComputations, PTL

\* A caller ends with CancelledError only if it was cancelled itself.
THEOREM CancellationIsOwn == Spec => OnlyTheCancelledSeeCancellation
<1> DEFINE Own == \A c \in Callers :
                     (outcome'[c] = "cancelled" /\ outcome[c] # "cancelled")
                         => (cancelled[c] \/ pc[c] = "cleanup")
<1>1. ASSUME IInv, [Next]_vars PROVE [Own]_vars
  <2> SUFFICES ASSUME NEW c \in Callers, Next,
                      outcome'[c] = "cancelled", outcome[c] # "cancelled"
               PROVE  cancelled[c] \/ pc[c] = "cleanup"
    BY <1>1
  <2> outcome \in [Callers -> Finished \cup {"none", "full"}]
    BY <1>1 DEF IInv, TypeOK
  <2>1. ASSUME NEW d \in Callers, NEW k \in Keys, Lookup(d, k) PROVE FALSE
    <3>1. CASE JoinFinished(d, k)
      <4>1. task[inFlight[k]] # "cancelled"
        <5>1. inFlight[k] \in Flights /\ cleanup[inFlight[k]] = "none"
          BY <1>1, <3>1 DEF JoinFinished, IInv, TypeOK
        <5> QED
          BY <1>1, <5>1 DEF IInv, FlightsHold
      <4> QED
        BY <3>1, <4>1 DEF JoinFinished, Return
    <3>2. CASE ~JoinFinished(d, k)
      BY <2>1, <3>2 DEF Lookup, Hit, Reject, Start, Join, AwaitRetired, Return, Suspend
    <3> QED
      BY <3>1, <3>2
  <2>2. ASSUME NEW d \in Callers, Call(d) \/ Retry(d) PROVE FALSE
    BY <1>1, <2>1, <2>2 DEF Call, Retry, IInv, CallersHold
  <2>3. ASSUME NEW d \in Callers, LeaveOthers(d) \/ LeaveFinished(d)
        PROVE  cancelled[c]
    <3>1. pc[d] = "awaiting" /\ task[at[d]] # "cancelled"
      BY <1>1, <2>3, AwaitingFacts DEF LeaveOthers, LeaveFinished, Wakes, IInv, FlightsHold
    <3>2. Return(d, Result(d))
      BY <2>3 DEF LeaveOthers, LeaveFinished
    <3> QED
      BY <3>1, <3>2 DEF Return, Result
  <2>4. ASSUME NEW d \in Callers,
               LeaveRetiring(d) \/ LeaveCleanup(d) \/ CancelledWhileRetired(d)
                 \/ CancelledInCleanup(d) \/ Cancel(d)
        PROVE  cancelled[c] \/ pc[c] = "cleanup"
    BY <2>4 DEF LeaveRetiring, LeaveCleanup, CancelledWhileRetired, CancelledInCleanup,
                Cancel, Return
  <2>5. ASSUME NEW f \in Flights, TaskStep(f) PROVE FALSE
    BY <2>5 DEF TaskStep, TaskStores, TaskRaises, RetireBegins, RetireEnds, callerVars
  <2>6. ~Tick
    BY DEF Tick, callerVars
  <2> QED
    BY <2>2, <2>3, <2>4, <2>5, <2>6 DEF Next, Leave
<1> QED
  BY <1>1, AlwaysIInv, PTL DEF Spec, OnlyTheCancelledSeeCancellation

-----------------------------------------------------------------------------
(* Waits: the part of the liveness of the cache that is an invariant.      *)

\* Who waits for a cleanup waits for one that was started, and a cleanup waits for a
\* task that it has cancelled or that has ended.
WaitsHold ==
    /\ \A c \in Callers : pc[c] \in {"retired", "cleanup"} => cleanup[at[c]] # "none"
    /\ \A f \in Flights : cleanup[f] = "awaiting" => task[f] \in {"cancelling"} \cup Finished

\* What each suspended caller waits for is there, or something that is obliged to run
\* will bring it: the task, the cleanup, or the end of a task that was told to end.
NobodyWaitsInVain ==
    \A c \in Callers :
        /\ pc[c] = "awaiting" => task[at[c]] \in {"running"} \cup Finished
        /\ pc[c] \in {"retired", "cleanup"} =>
              \/ cleanup[at[c]] \in {"scheduled", "done"}
              \/ cleanup[at[c]] = "awaiting" /\ task[at[c]] \in {"cancelling"} \cup Finished

LEMMA LookupWaits ==
    ASSUME IInv, WaitsHold, NEW c \in Callers, NEW k \in Keys, Lookup(c, k)
    PROVE  WaitsHold'
<1>0. /\ pc \in [Callers -> {"idle", "retired", "awaiting", "cleanup"}]
      /\ at \in [Callers -> Flights \cup {NoFlight}]
      /\ task \in [Flights -> Finished \cup Unfinished \cup {"none"}]
      /\ cleanup \in [Flights -> {"none", "scheduled", "awaiting", "done"}]
      /\ inFlight \in [Keys -> Flights \cup {NoFlight}]
  BY DEF IInv, TypeOK
<1>1. ASSUME NEW result, Return(c, result), UNCHANGED <<task, cleanup>> PROVE WaitsHold'
  BY <1>0, <1>1 DEF WaitsHold, Return
<1>2. CASE Hit(c, k) \/ Reject(c, k) \/ JoinFinished(c, k)
  BY <1>1, <1>2 DEF Hit, Reject, JoinFinished, flightVars
<1>3. CASE Start(c, k)
  <2>1. PICK f \in Flights :
            /\ IsFree(f, c)
            /\ task' = [task EXCEPT ![f] = "running"]
            /\ cleanup' = [cleanup EXCEPT ![f] = "none"]
            /\ pc' = [pc EXCEPT ![c] = "awaiting"]
            /\ at' = [at EXCEPT ![c] = f]
    BY <1>3 DEF Start, Suspend
  <2>2. \A d \in Callers \ {c} : at[d] # f
    BY <2>1 DEF IsFree
  <2>3. ASSUME NEW d \in Callers, pc'[d] \in {"retired", "cleanup"} PROVE cleanup'[at'[d]] # "none"
    <3>1. d # c /\ pc'[d] = pc[d] /\ at'[d] = at[d] /\ at[d] # f
      BY <1>0, <2>1, <2>2, <2>3
    <3>2. at[d] \in Flights
      BY <2>3, <3>1 DEF IInv, CallersHold
    <3> QED
      BY <1>0, <2>1, <2>3, <3>1, <3>2 DEF WaitsHold
  <2> QED
    BY <1>0, <2>1, <2>3 DEF WaitsHold
<1>4. CASE Join(c, k)
  BY <1>0, <1>4 DEF Join, Suspend, WaitsHold
<1>5. CASE AwaitRetired(c, k)
  BY <1>0, <1>5 DEF AwaitRetired, Suspend, WaitsHold, flightVars
<1> QED
  BY <1>2, <1>3, <1>4, <1>5 DEF Lookup

LEMMA LeaveWaits ==
    ASSUME IInv, WaitsHold, NEW c \in Callers, Leave(c)
    PROVE  WaitsHold'
<1>0. /\ pc \in [Callers -> {"idle", "retired", "awaiting", "cleanup"}]
      /\ at \in [Callers -> Flights \cup {NoFlight}]
      /\ cleanup \in [Flights -> {"none", "scheduled", "awaiting", "done"}]
  BY DEF IInv, TypeOK
<1>1. ASSUME NEW result, Return(c, result), UNCHANGED <<task, cleanup>> PROVE WaitsHold'
  BY <1>0, <1>1 DEF WaitsHold, Return
<1>2. CASE \/ LeaveOthers(c) \/ LeaveFinished(c) \/ LeaveCleanup(c) \/ CancelledWhileRetired(c)
  BY <1>1, <1>2 DEF LeaveOthers, LeaveFinished, LeaveCleanup, CancelledWhileRetired, flightVars
<1>3. CASE LeaveRetiring(c)
  <2>1. at[c] \in Flights
    BY <1>3 DEF LeaveRetiring, Wakes, IInv, CallersHold
  <2> QED
    BY <1>0, <1>3, <2>1 DEF LeaveRetiring, WaitsHold
<1>4. CASE CancelledInCleanup(c)
  BY <1>4 DEF CancelledInCleanup, WaitsHold, flightVars
<1> QED
  BY <1>2, <1>3, <1>4 DEF Leave

LEMMA TaskWaits ==
    ASSUME IInv, WaitsHold, NEW f \in Flights, TaskStep(f)
    PROVE  WaitsHold'
<1>0. /\ task \in [Flights -> Finished \cup Unfinished \cup {"none"}]
      /\ cleanup \in [Flights -> {"none", "scheduled", "awaiting", "done"}]
      /\ UNCHANGED callerVars
  BY DEF IInv, TypeOK, TaskStep, TaskStores, TaskRaises, RetireBegins, RetireEnds
<1>1. CASE TaskStores(f) \/ TaskRaises(f)
  <2>1. cleanup' = cleanup /\ \E end \in Finished : task' = [task EXCEPT ![f] = end]
    BY <1>1 DEF TaskStores, TaskRaises, Finished
  <2> QED
    BY <1>0, <2>1 DEF WaitsHold, callerVars
<1>2. CASE RetireBegins(f)
  <2>1. task[f] # "none"
    BY <1>2, NoneAssumption DEF RetireBegins, IInv, FlightsHold, RegisteredHold, Retiring, TypeOK
  <2>2. task'[f] \in {"cancelling"} \cup Finished /\ \A g \in Flights \ {f} : task'[g] = task[g]
    BY <1>0, <1>2, <2>1 DEF RetireBegins, Unfinished
  <2>3. cleanup' = [cleanup EXCEPT ![f] = "awaiting"]
    BY <1>2 DEF RetireBegins
  <2> QED
    BY <1>0, <2>2, <2>3 DEF WaitsHold, callerVars
<1>3. CASE RetireEnds(f)
  BY <1>0, <1>3 DEF RetireEnds, WaitsHold, callerVars
<1> QED
  BY <1>1, <1>2, <1>3 DEF TaskStep

LEMMA NextWaits == IInv /\ WaitsHold /\ [Next]_vars => WaitsHold'
<1> SUFFICES ASSUME IInv, WaitsHold, [Next]_vars PROVE WaitsHold'
  OBVIOUS
<1>1. ASSUME NEW c \in Callers, Call(c) \/ Retry(c) PROVE WaitsHold'
  <2>1. pc[c] = "retired" => key[c] \in Keys
    BY DEF IInv, CallersHold
  <2> QED
    BY <1>1, <2>1, LookupWaits DEF Call, Retry
<1>2. ASSUME NEW c \in Callers, Cancel(c) PROVE WaitsHold'
  BY <1>2 DEF Cancel, WaitsHold, flightVars
<1>3. CASE Tick \/ UNCHANGED vars
  BY <1>3 DEF Tick, vars, callerVars, flightVars, WaitsHold
<1> QED
  BY <1>1, <1>2, <1>3, LeaveWaits, TaskWaits DEF Next

\* Nobody waits in vain: the task a caller awaits runs or has ended, and the event or the
\* cleanup it awaits belongs to a retirement that was started and whose task has been
\* cancelled or has ended.  With the fairness of the event loop this is why calls end.
THEOREM WaitsAreFounded == Spec => []NobodyWaitsInVain
<1>1. Init => WaitsHold
  BY DEF Init, WaitsHold
<1>2. IInv /\ WaitsHold => NobodyWaitsInVain
  <2> SUFFICES ASSUME IInv, WaitsHold, NEW c \in Callers, pc[c] # "idle"
               PROVE  /\ pc[c] = "awaiting" => task[at[c]] \in {"running"} \cup Finished
                      /\ pc[c] \in {"retired", "cleanup"} =>
                            \/ cleanup[at[c]] \in {"scheduled", "done"}
                            \/ /\ cleanup[at[c]] = "awaiting"
                               /\ task[at[c]] \in {"cancelling"} \cup Finished
    BY DEF NobodyWaitsInVain
  <2>1. at[c] \in Flights /\ key[c] \in Keys
    BY DEF IInv, CallersHold
  <2>2. /\ task[at[c]] \in Finished \cup Unfinished \cup {"none"}
        /\ cleanup[at[c]] \in {"none", "scheduled", "awaiting", "done"}
    BY <2>1 DEF IInv, TypeOK
  <2>3. ASSUME pc[c] = "awaiting" PROVE task[at[c]] \in {"running"} \cup Finished
    <3>1. inFlight[key[c]] = at[c] /\ cleanup[at[c]] = "none"
      BY <2>3 DEF IInv, CallersHold
    <3>2. task[at[c]] # "none" /\ task[at[c]] # "cancelling"
      BY <2>1, <3>1, NoneAssumption DEF IInv, RegisteredHold, FlightsHold
    <3> QED
      BY <2>2, <3>2 DEF Unfinished
  <2> QED
    BY <2>1, <2>2, <2>3 DEF WaitsHold
<1> QED
  BY <1>1, <1>2, NextWaits, AlwaysIInv, PTL DEF Spec

-----------------------------------------------------------------------------
(* Sums of sizes.  An induction over a length is done by its least         *)
(* counterexample.                                                         *)

\* If some natural number is a counterexample, there is a least one.
LEMMA LeastElement ==
    ASSUME NEW S \in SUBSET Nat, S # {}
    PROVE  \E m \in S : \A k \in 0..(m - 1) : k \notin S
<1>1. PICK m \in S : \A k \in S : <<k, m>> \notin OpToRel(<, Nat)
  BY WFMin, NatLessThanWellFounded, Zenon
<1>2. \A k \in S : ~(k < m)
  BY <1>1, Zenon DEF OpToRel
<1>3. m \in Nat
  BY <1>2
<1>4. \A k \in 0..(m - 1) : k \in Nat /\ k < m
  BY <1>3
<1> QED
  BY <1>2, <1>4

\* Partial sums exist: there is a function that starts at 0 and grows by each size.
LEMMA PartialSumsExist ==
    ASSUME NEW N \in Nat, NEW size, \A n \in 1..N : size[n] \in Nat
    PROVE  \E f : f = [n \in 0..N |-> IF n = 0 THEN 0 ELSE f[n - 1] + size[n]]
<1> DEFINE Solves(f, m) ==
               f \in [0..m -> Nat] /\ \A n \in 0..m : f[n] = IF n = 0 THEN 0 ELSE f[n - 1] + size[n]
           Fails == {m \in 0..N : ~\E f : Solves(f, m)}
<1>1. Fails = {}
  <2> SUFFICES ASSUME Fails # {} PROVE FALSE
    OBVIOUS
  <2>0. \E m \in Fails : \A k \in 0..(m - 1) : k \notin Fails
    <3>1. Fails \in SUBSET Nat
      OBVIOUS
    <3> HIDE DEF Fails
    <3> QED
      BY <3>1, LeastElement
  <2>1. PICK m \in Fails : \A k \in 0..(m - 1) : k \notin Fails
    BY <2>0
  <2>2. m \in 0..N /\ m # 0
    <3>1. Solves([n \in 0..0 |-> 0], 0)
      OBVIOUS
    <3> QED
      BY <2>1, <3>1
  <2>3. m \in Nat /\ m - 1 \in 0..(m - 1) /\ m - 1 \in 0..N
    BY <2>2
  <2>4. PICK f : Solves(f, m - 1)
    BY <2>1, <2>3
  <2> DEFINE g == [n \in 0..m |-> IF n = m THEN f[m - 1] + size[m] ELSE f[n]]
  <2>5. f[m - 1] \in Nat /\ size[m] \in Nat
    BY <2>2, <2>3, <2>4
  <2>6. \A n \in 0..m : n # m => n \in 0..(m - 1)
    BY <2>3
  <2>7. g \in [0..m -> Nat]
    BY <2>4, <2>5, <2>6
  <2>8. ASSUME NEW n \in 0..m PROVE g[n] = IF n = 0 THEN 0 ELSE g[n - 1] + size[n]
    <3>1. CASE n = m
      <4>1. m - 1 \in 0..m /\ m - 1 # m
        BY <2>3
      <4> QED
        BY <2>2, <3>1, <4>1
    <3>2. CASE n # m
      <4>1. n \in 0..(m - 1) /\ (n # 0 => n - 1 \in 0..m /\ n - 1 # m)
        BY <2>3, <3>2
      <4> QED
        BY <2>4, <3>2, <4>1
    <3> QED
      BY <3>1, <3>2
  <2>9. Solves(g, m)
    BY <2>7, <2>8
  <2> QED
    BY <2>1, <2>9
<1>2. PICK f : Solves(f, N)
  BY <1>1
<1>3. f = [n \in 0..N |-> IF n = 0 THEN 0 ELSE f[n - 1] + size[n]]
  BY <1>2
<1> QED
  BY <1>3

\* What Sums is, for every sequence of entries.
LEMMA SumsFacts ==
    ASSUME NEW es \in Seq(Entry)
    PROVE  /\ Sums(es) \in [0..Len(es) -> Nat]
           /\ \A n \in 0..Len(es) : Sums(es)[n] \in Nat
           /\ Sums(es)[0] = 0
           /\ \A n \in 1..Len(es) : Sums(es)[n] = Sums(es)[n - 1] + es[n].size
<1> DEFINE size == [n \in 1..Len(es) |-> es[n].size]
           N == Len(es)
           f == Sums(es)
<1>1. N \in Nat /\ \A n \in 1..N : es[n] \in Entry /\ es[n].size \in Nat
  <2>1. N \in Nat /\ \A n \in 1..N : es[n] \in Entry
    OBVIOUS
  <2>2. \A e \in Entry : e.size \in Nat
    BY SizesAssumption DEF Entry
  <2> QED
    BY <2>1, <2>2
<1>2. \A n \in 1..N : size[n] \in Nat /\ size[n] = es[n].size
  BY <1>1
<1> HIDE DEF N, size
<1>3. \E g : g = [n \in 0..N |-> IF n = 0 THEN 0 ELSE g[n - 1] + size[n]]
  BY <1>1, <1>2, PartialSumsExist
<1>4. \E g : g = [n \in 0..N |-> IF n = 0 THEN 0 ELSE g[n - 1] + es[n].size]
  <2>1. PICK g : g = [n \in 0..N |-> IF n = 0 THEN 0 ELSE g[n - 1] + size[n]]
    BY <1>3
  <2>2. \A n \in 0..N : n = 0 \/ n \in 1..N
    BY <1>1
  <2>3. g = [n \in 0..N |-> IF n = 0 THEN 0 ELSE g[n - 1] + es[n].size]
    BY <1>2, <2>1, <2>2
  <2> QED
    BY <2>3
<1>5. f = CHOOSE g : g = [n \in 0..N |-> IF n = 0 THEN 0 ELSE g[n - 1] + es[n].size]
  BY DEF Sums, N
<1>6. f = [n \in 0..N |-> IF n = 0 THEN 0 ELSE f[n - 1] + es[n].size]
  BY <1>4, <1>5, Zenon
<1> HIDE DEF f
<1>7. f[0] = 0 /\ \A n \in 1..N : f[n] = f[n - 1] + es[n].size
  BY <1>1, <1>6
<1> DEFINE Fails == {n \in 0..N : f[n] \notin Nat}
<1>8. Fails = {}
  <2> SUFFICES ASSUME Fails # {} PROVE FALSE
    OBVIOUS
  <2>0. \E m \in Fails : \A k \in 0..(m - 1) : k \notin Fails
    <3>1. Fails \in SUBSET Nat
      BY <1>1
    <3> HIDE DEF Fails
    <3> QED
      BY <3>1, LeastElement
  <2>1. PICK m \in Fails : \A k \in 0..(m - 1) : k \notin Fails
    BY <2>0
  <2>2. m \in 1..N
    BY <1>1, <1>7
  <2>3. f[m - 1] \in Nat
    BY <1>1, <2>1, <2>2
  <2>4. f[m] = f[m - 1] + es[m].size /\ es[m].size \in Nat
    BY <1>1, <1>7, <2>2
  <2>5. f[m] \in Nat
    BY <2>3, <2>4
  <2> QED
    BY <2>1, <2>5
<1>9. f \in [0..N -> Nat]
  BY <1>6, <1>8
<1> QED
  BY <1>7, <1>9 DEF N, f

\* A function that no step changes ends where it began.
LEMMA NoStepNoChange ==
    ASSUME NEW m \in Nat, NEW h, \A n \in 1..m : h[n] = h[n - 1]
    PROVE  h[m] = h[0]
<1> DEFINE Fails == {n \in 0..m : h[n] # h[0]}
<1>1. Fails = {}
  <2> SUFFICES ASSUME Fails # {} PROVE FALSE
    OBVIOUS
  <2>1. \E n \in Fails : \A k \in 0..(n - 1) : k \notin Fails
    <3>1. Fails \in SUBSET Nat
      OBVIOUS
    <3> HIDE DEF Fails
    <3> QED
      BY <3>1, LeastElement
  <2>2. PICK n \in Fails : \A k \in 0..(n - 1) : k \notin Fails
    BY <2>1
  <2>3. n \in 1..m /\ n - 1 \in 0..(n - 1) /\ n - 1 \in 0..m
    BY <2>2
  <2> QED
    BY <2>2, <2>3
<1>2. m \in 0..m
  OBVIOUS
<1> QED
  BY <1>1, <1>2

\* A sequence whose first entries have the sizes of a segment of another one has the
\* partial sums of that segment.
LEMMA ShiftedSums ==
    ASSUME NEW es \in Seq(Entry), NEW fs \in Seq(Entry), NEW a \in Nat, NEW m \in Nat,
           a + m <= Len(es), m <= Len(fs),
           \A n \in 1..m : fs[n].size = es[a + n].size
    PROVE  /\ Sums(fs)[m] = Sums(es)[a + m] - Sums(es)[a]
           /\ Sums(fs)[m] \in Nat /\ Sums(es)[a + m] \in Nat /\ Sums(es)[a] \in Nat
<1> DEFINE h == [n \in 0..m |-> Sums(es)[a + n] - Sums(fs)[n]]
<1>1. /\ \A n \in 0..Len(es) : Sums(es)[n] \in Nat
      /\ \A n \in 1..Len(es) : Sums(es)[n] = Sums(es)[n - 1] + es[n].size
  BY SumsFacts
<1>2. /\ \A n \in 0..Len(fs) : Sums(fs)[n] \in Nat
      /\ \A n \in 1..Len(fs) : Sums(fs)[n] = Sums(fs)[n - 1] + fs[n].size
      /\ Sums(fs)[0] = 0
  BY SumsFacts
<1> Len(es) \in Nat /\ Len(fs) \in Nat
  OBVIOUS
<1>3. \A n \in 0..m : a + n \in 0..Len(es) /\ n \in 0..Len(fs)
  OBVIOUS
<1>4. ASSUME NEW n \in 1..m PROVE h[n] = h[n - 1]
  <2>1. n \in 0..m /\ n - 1 \in 0..m /\ a + (n - 1) = a + n - 1
    OBVIOUS
  <2>2. a + n \in 1..Len(es) /\ n \in 1..Len(fs)
    OBVIOUS
  <2>3. Sums(es)[a + n] = Sums(es)[a + n - 1] + es[a + n].size
    BY <1>1, <2>2
  <2>4. Sums(fs)[n] = Sums(fs)[n - 1] + es[a + n].size
    BY <1>2, <2>2
  <2>5. es[a + n].size \in Nat
    <3>1. es[a + n] \in Entry
      BY <2>2
    <3> QED
      BY <3>1, SizesAssumption DEF Entry
  <2>6. Sums(es)[a + n - 1] \in Nat /\ Sums(fs)[n - 1] \in Nat
    <3>1. a + n - 1 \in 0..Len(es) /\ n - 1 \in 0..Len(fs)
      BY <2>2
    <3> QED
      BY <1>1, <1>2, <3>1
  <2>7. /\ h[n] = Sums(es)[a + n] - Sums(fs)[n]
        /\ h[n - 1] = Sums(es)[a + n - 1] - Sums(fs)[n - 1]
    BY <2>1
  <2> HIDE DEF h
  <2> QED
    BY <2>3, <2>4, <2>5, <2>6, <2>7
<1>5. /\ h[0] = Sums(es)[a] - Sums(fs)[0]
      /\ h[m] = Sums(es)[a + m] - Sums(fs)[m]
  <2>1. 0 \in 0..m /\ m \in 0..m /\ a + 0 = a
    OBVIOUS
  <2> QED
    BY <2>1
<1>6. Sums(fs)[m] \in Nat /\ Sums(es)[a + m] \in Nat /\ Sums(es)[a] \in Nat
  <2>1. m \in 0..Len(fs) /\ a + m \in 0..Len(es) /\ a \in 0..Len(es)
    OBVIOUS
  <2> QED
    BY <1>1, <1>2, <2>1
<1> HIDE DEF h
<1>7. h[m] = h[0]
  BY <1>4, NoStepNoChange
<1> QED
  BY <1>2, <1>5, <1>6, <1>7

\* Two sequences that begin with the same sizes begin with the same sums.
LEMMA PrefixSums ==
    ASSUME NEW es \in Seq(Entry), NEW fs \in Seq(Entry), NEW m \in Nat,
           m <= Len(es), m <= Len(fs),
           \A n \in 1..m : fs[n].size = es[n].size
    PROVE  Sums(fs)[m] = Sums(es)[m] /\ Sums(es)[m] \in Nat
<1>1. 0 + m = m /\ \A n \in 1..m : 0 + n = n
  OBVIOUS
<1>2. \A n \in 1..m : fs[n].size = es[0 + n].size
  BY <1>1
<1>3. 0 + m <= Len(es)
  BY <1>1
<1>4. /\ Sums(fs)[m] = Sums(es)[0 + m] - Sums(es)[0]
      /\ Sums(es)[0 + m] \in Nat
  BY <1>2, <1>3, ShiftedSums
<1>5. Sums(es)[0] = 0
  BY SumsFacts
<1> QED
  BY <1>1, <1>4, <1>5

\* What a sequence of entries holds is a natural number; an empty one holds nothing.
LEMMA BytesType ==
    ASSUME NEW es \in Seq(Entry)
    PROVE  BytesOf(es) \in Nat /\ (Len(es) = 0 => BytesOf(es) = 0)
<1>1. Len(es) \in 0..Len(es)
  OBVIOUS
<1> QED
  BY <1>1, SumsFacts DEF BytesOf

\* Sequences of the same length and the same sizes hold the same bytes.
LEMMA SameBytes ==
    ASSUME NEW es \in Seq(Entry), NEW fs \in Seq(Entry), Len(es) = Len(fs),
           \A n \in 1..Len(es) : fs[n].size = es[n].size
    PROVE  BytesOf(fs) = BytesOf(es)
<1>1. Len(es) \in Nat /\ Len(es) <= Len(es) /\ Len(es) <= Len(fs)
  OBVIOUS
<1> QED
  BY <1>1, PrefixSums DEF BytesOf

\* A segment holds the difference of the partial sums at its ends.
LEMMA SegmentBytes ==
    ASSUME NEW es \in Seq(Entry), NEW a \in 0..Len(es), NEW b \in a..Len(es)
    PROVE  /\ SubSeq(es, a + 1, b) \in Seq(Entry)
           /\ Len(SubSeq(es, a + 1, b)) = b - a
           /\ BytesOf(SubSeq(es, a + 1, b)) = Sums(es)[b] - Sums(es)[a]
           /\ Sums(es)[a] \in Nat /\ Sums(es)[b] \in Nat
<1> DEFINE fs == SubSeq(es, a + 1, b)
           m == b - a
<1>1. /\ fs \in Seq(Entry) /\ Len(fs) = m
      /\ \A n \in 1..m : fs[n] = es[a + n]
  OBVIOUS
<1>2. m \in Nat /\ a \in Nat /\ a + m <= Len(es) /\ m <= m
  OBVIOUS
<1>7. a + m = b
  OBVIOUS
<1> HIDE DEF fs, m
<1>3. \A n \in 1..m : fs[n].size = es[a + n].size
  BY <1>1
<1>4. m <= Len(fs)
  BY <1>1, <1>2
<1>5. /\ Sums(fs)[m] = Sums(es)[a + m] - Sums(es)[a]
      /\ Sums(es)[a + m] \in Nat /\ Sums(es)[a] \in Nat
  <2>1. /\ fs \in Seq(Entry) /\ a \in Nat /\ m \in Nat /\ a + m <= Len(es) /\ m <= Len(fs)
        /\ \A n \in 1..m : fs[n].size = es[a + n].size
    BY <1>1, <1>2, <1>3, <1>4
  <2> QED
    BY <2>1, ShiftedSums
<1>6. BytesOf(fs) = Sums(es)[b] - Sums(es)[a]
  BY <1>1, <1>5, <1>7 DEF BytesOf
<1> QED
  BY <1>1, <1>5, <1>6, <1>7 DEF fs, m

\* Two sequences one after the other hold the bytes of both.
LEMMA ConcatBytes ==
    ASSUME NEW es \in Seq(Entry), NEW fs \in Seq(Entry)
    PROVE  BytesOf(es \o fs) = BytesOf(es) + BytesOf(fs)
<1> DEFINE both == es \o fs
           a == Len(es)
           m == Len(fs)
<1>1. /\ both \in Seq(Entry) /\ Len(both) = a + m
      /\ \A n \in 1..a : both[n] = es[n]
      /\ \A n \in 1..m : both[a + n] = fs[n]
  OBVIOUS
<1>2. a \in Nat /\ m \in Nat /\ a <= a /\ m <= m /\ a <= a + m /\ a + m <= a + m
  OBVIOUS
<1> HIDE DEF both, a, m
<1>3. (\A n \in 1..a : both[n].size = es[n].size) /\ \A n \in 1..m : fs[n].size = both[a + n].size
  BY <1>1
<1>4. Sums(both)[a] = Sums(es)[a] /\ Sums(es)[a] \in Nat
  BY <1>1, <1>2, <1>3, PrefixSums DEF a
<1>5. a + m <= Len(both) /\ m <= Len(fs)
  BY <1>1, <1>2 DEF m
<1>6. /\ Sums(fs)[m] = Sums(both)[a + m] - Sums(both)[a]
      /\ Sums(fs)[m] \in Nat /\ Sums(both)[a + m] \in Nat
  BY <1>1, <1>2, <1>3, <1>5, ShiftedSums
<1>7. BytesOf(both) = BytesOf(es) + BytesOf(fs)
  BY <1>1, <1>4, <1>6 DEF BytesOf, a, m
<1> QED
  BY <1>7 DEF both

\* One entry more adds its size.
LEMMA AppendBytes ==
    ASSUME NEW es \in Seq(Entry), NEW e \in Entry
    PROVE  BytesOf(Append(es, e)) = BytesOf(es) + e.size
<1> DEFINE more == Append(es, e)
           a == Len(es)
<1>1. /\ more \in Seq(Entry) /\ Len(more) = a + 1 /\ more[a + 1] = e
      /\ \A n \in 1..a : more[n] = es[n]
  OBVIOUS
<1>2. a \in Nat /\ a <= a /\ a <= a + 1 /\ a + 1 - 1 = a /\ a + 1 \in 1..(a + 1)
  OBVIOUS
<1> HIDE DEF more
<1>3. Sums(more)[a] = Sums(es)[a]
  BY <1>1, <1>2, PrefixSums
<1>4. Sums(more)[a + 1] = Sums(more)[a + 1 - 1] + more[a + 1].size
  BY <1>1, <1>2, SumsFacts
<1>5. BytesOf(more) = BytesOf(es) + e.size
  BY <1>1, <1>2, <1>3, <1>4 DEF BytesOf
<1> QED
  BY <1>5 DEF more

\* Removing the entry of a key takes its size off.
LEMMA WithoutBytes ==
    ASSUME entries \in Seq(Entry), NEW k
    PROVE  /\ BytesOf(Without(k)) = BytesOf(entries) - SizeOf(k)
           /\ Len(Without(k)) = Len(entries) - (IF IsCached(k) THEN 1 ELSE 0)
           /\ SizeOf(k) \in Nat
<1>1. BytesOf(entries) \in Nat
  BY BytesType
<1>2. CASE ~IsCached(k)
  BY <1>1, <1>2 DEF Without, SizeOf
<1>3. CASE IsCached(k)
  <2> DEFINE p == Position(k)
             head == SubSeq(entries, 1, p - 1)
             tail == SubSeq(entries, p + 1, Len(entries))
  <2>1. p \in 1..Len(entries) /\ Len(entries) \in Nat
    BY <1>3 DEF IsCached, Position
  <2>2. Without(k) = head \o tail /\ SizeOf(k) = entries[p].size
    BY <1>3 DEF Without, SizeOf, RemoveAt
  <2>3. 0 \in 0..Len(entries) /\ p - 1 \in 0..Len(entries) /\ p \in 0..Len(entries)
          /\ Len(entries) \in p..Len(entries) /\ 0 + 1 = 1
    BY <2>1
  <2> HIDE DEF p
  <2>4. /\ head \in Seq(Entry) /\ Len(head) = p - 1
        /\ BytesOf(head) = Sums(entries)[p - 1] - Sums(entries)[0]
    <3>1. SubSeq(entries, 0 + 1, p - 1) = head
      BY <2>3
    <3>2. 0 \in 0..Len(entries) /\ p - 1 \in 0..Len(entries) /\ p - 1 - 0 = p - 1
      BY <2>1, <2>3
    <3> HIDE DEF head
    <3> QED
      BY <3>1, <3>2, SegmentBytes
  <2>5. /\ tail \in Seq(Entry) /\ Len(tail) = Len(entries) - p
        /\ BytesOf(tail) = Sums(entries)[Len(entries)] - Sums(entries)[p]
    BY <2>1, <2>3, SegmentBytes
  <2>6. /\ Sums(entries)[0] = 0 /\ Sums(entries)[p - 1] \in Nat
        /\ Sums(entries)[p] = Sums(entries)[p - 1] + entries[p].size
    BY <2>1, <2>3, SumsFacts
  <2>7. entries[p].size \in Nat
    <3>1. entries[p] \in Entry
      BY <2>1
    <3> QED
      BY <3>1, SizesAssumption DEF Entry
  <2> HIDE DEF head, tail
  <2>8. BytesOf(head \o tail) = BytesOf(entries) - entries[p].size
    <3>1. BytesOf(head \o tail) = BytesOf(head) + BytesOf(tail)
      BY <2>4, <2>5, ConcatBytes
    <3>2. BytesOf(entries) = Sums(entries)[Len(entries)]
      BY DEF BytesOf
    <3> QED
      BY <1>1, <2>4, <2>5, <2>6, <2>7, <3>1, <3>2
  <2>9. Len(head \o tail) = Len(entries) - 1
    BY <2>1, <2>4, <2>5
  <2> QED
    BY <1>3, <2>2, <2>7, <2>8, <2>9
<1> QED
  BY <1>2, <1>3

-----------------------------------------------------------------------------
(* The byte account.                                                       *)

\* With the keys of entries apart, the account equals what they hold, within both
\* limits.
AInv ==
    /\ bytes = BytesOf(entries)
    /\ bytes <= MaxBytes
    /\ Len(entries) <= MaxEntries

\* A hit moves an entry and charges nothing.
LEMMA TouchAccount ==
    ASSUME entries \in Seq(Entry), AInv, NEW k, IsFresh(k), Touch(k)
    PROVE  AInv'
<1> DEFINE e == entries[Position(k)]
           rest == Without(k)
<1>1. /\ rest \in Seq(Entry) /\ e \in Entry /\ IsCached(k) /\ SizeOf(k) = e.size
  BY WithoutType DEF IsFresh, IsCached, Position, SizeOf
<1>2. /\ BytesOf(rest) = BytesOf(entries) - e.size /\ e.size \in Nat
      /\ Len(rest) = Len(entries) - 1
  BY <1>1, WithoutBytes
<1>3. entries' = Append(rest, e) /\ bytes' = bytes
  BY DEF Touch
<1> HIDE DEF e, rest
<1>4. BytesOf(entries') = BytesOf(rest) + e.size /\ Len(entries') = Len(rest) + 1
  BY <1>1, <1>3, AppendBytes
<1>5. BytesOf(entries) \in Nat
  BY BytesType
<1>6. BytesOf(entries') = BytesOf(entries) /\ Len(entries') = Len(entries)
  BY <1>2, <1>4, <1>5
<1> QED
  BY <1>3, <1>6 DEF AInv

\* An expired entry leaves with the bytes it was charged.
LEMMA DropAccount ==
    ASSUME entries \in Seq(Entry), AInv, NEW k, DropExpired(k)
    PROVE  AInv'
<1>1. /\ BytesOf(Without(k)) = BytesOf(entries) - SizeOf(k)
      /\ Len(Without(k)) <= Len(entries)
      /\ SizeOf(k) \in Nat /\ BytesOf(entries) \in Nat
  BY WithoutBytes, BytesType
<1>2. entries' = Without(k) /\ bytes' = bytes - SizeOf(k)
  BY DEF DropExpired
<1>3. Without(k) \in Seq(Entry)
  BY WithoutType
<1> QED
  BY <1>1, <1>2, <1>3, LimitsAssumption DEF AInv

\* The sequence a store starts from, with the new entry as the most recent one.
Added(k, size) == Append(Without(k), [key |-> k, size |-> size, left |-> TTL])

LEMMA AddedFacts ==
    ASSUME entries \in Seq(Entry), AInv, NEW k \in Keys, NEW size \in Sizes
    PROVE  /\ Added(k, size) \in Seq(Entry)
           /\ BytesOf(Added(k, size)) = bytes - SizeOf(k) + size
           /\ Len(Added(k, size)) \in Nat \ {0}
           /\ Added(k, size)[Len(Added(k, size))] = [key |-> k, size |-> size, left |-> TTL]
<1> DEFINE e == [key |-> k, size |-> size, left |-> TTL]
           rest == Without(k)
<1>1. e \in Entry /\ e.size = size /\ size \in Nat
  BY LimitsAssumption, SizesAssumption DEF Entry
<1>2. /\ rest \in Seq(Entry) /\ BytesOf(rest) = bytes - SizeOf(k)
  BY WithoutType, WithoutBytes DEF AInv
<1> HIDE DEF e, rest
<1>3. /\ Append(rest, e) \in Seq(Entry) /\ BytesOf(Append(rest, e)) = BytesOf(rest) + e.size
      /\ Len(Append(rest, e)) \in Nat \ {0} /\ Append(rest, e)[Len(Append(rest, e))] = e
  BY <1>1, <1>2, AppendBytes
<1> QED
  BY <1>1, <1>2, <1>3 DEF Added, e, rest

\* Evicting the n oldest entries of a sequence takes off what those held.
LEMMA EvictionBytes ==
    ASSUME NEW es \in Seq(Entry), NEW n \in 0..Len(es)
    PROVE  /\ SubSeq(es, n + 1, Len(es)) \in Seq(Entry)
           /\ Len(SubSeq(es, n + 1, Len(es))) = Len(es) - n
           /\ BytesOf(SubSeq(es, n + 1, Len(es))) = BytesOf(es) - BytesOf(SubSeq(es, 1, n))
           /\ BytesOf(SubSeq(es, 1, n)) = Sums(es)[n]
<1>1. 0 \in 0..Len(es) /\ n \in 0..Len(es) /\ Len(es) \in n..Len(es) /\ 0 + 1 = 1
  OBVIOUS
<1>2. /\ SubSeq(es, n + 1, Len(es)) \in Seq(Entry)
      /\ Len(SubSeq(es, n + 1, Len(es))) = Len(es) - n
      /\ BytesOf(SubSeq(es, n + 1, Len(es))) = Sums(es)[Len(es)] - Sums(es)[n]
      /\ Sums(es)[n] \in Nat
  BY <1>1, SegmentBytes
<1>3. BytesOf(SubSeq(es, 0 + 1, n)) = Sums(es)[n] - Sums(es)[0]
  BY <1>1, SegmentBytes
<1>4. Sums(es)[0] = 0
  BY SumsFacts
<1>5. BytesOf(SubSeq(es, 1, n)) = Sums(es)[n]
  BY <1>1, <1>2, <1>3, <1>4
<1> QED
  BY <1>2, <1>5 DEF BytesOf

\* Storing a tile charges it and credits what it replaces and evicts.
LEMMA StoreAccount ==
    ASSUME entries \in Seq(Entry), AInv, NEW k \in Keys, NEW size \in Sizes, Store(k, size)
    PROVE  AInv'
<1>1. CASE size > MaxBytes
  BY <1>1 DEF Store, storeVars, AInv
<1>2. CASE ~(size > MaxBytes)
  <2> DEFINE added == Added(k, size)
             total == bytes - SizeOf(k) + size
  <2>1. added \in Seq(Entry) /\ BytesOf(added) = total
    BY AddedFacts
  <2>2. PICK n \in 0..Len(added) :
            /\ Fits(added, total, n)
            /\ entries' = SubSeq(added, n + 1, Len(added))
            /\ bytes' = total - BytesOf(SubSeq(added, 1, n))
    BY <1>2 DEF Store, Added
  <2> HIDE DEF added, total
  <2>3. /\ BytesOf(entries') = total - BytesOf(SubSeq(added, 1, n))
        /\ Len(entries') = Len(added) - n
    BY <2>1, <2>2, EvictionBytes
  <2> QED
    BY <2>2, <2>3 DEF AInv, Fits
<1> QED
  BY <1>1, <1>2

\* Time changes no size.
LEMMA TickAccount ==
    ASSUME entries \in Seq(Entry), AInv, Tick
    PROVE  AInv'
<1>1. entries' \in Seq(Entry) /\ bytes' = bytes
  BY TickType DEF Tick
<1>2. /\ DOMAIN entries' = DOMAIN entries
      /\ \A i \in DOMAIN entries : entries'[i] = Aged(entries[i])
  BY DEF Tick
<1>3. DOMAIN entries = 1..Len(entries) /\ DOMAIN entries' = 1..Len(entries')
  BY <1>1
<1>4. Len(entries') = Len(entries)
  BY <1>1, <1>2, <1>3
<1>5. \A i \in 1..Len(entries) : entries'[i].size = entries[i].size
  <2>1. \A e \in Entry : Aged(e).size = e.size
    BY DEF Aged, Entry
  <2> QED
    BY <1>2, <1>3, <2>1
<1>6. BytesOf(entries') = BytesOf(entries)
  BY <1>1, <1>4, <1>5, SameBytes
<1> QED
  BY <1>1, <1>4, <1>6 DEF AInv

LEMMA LookupAccount ==
    ASSUME entries \in Seq(Entry), AInv, NEW c, NEW k \in Keys, Lookup(c, k)
    PROVE  AInv'
<1>1. CASE Hit(c, k)
  BY <1>1, TouchAccount DEF Hit
<1>2. CASE Reject(c, k) \/ Start(c, k) \/ Join(c, k) \/ JoinFinished(c, k) \/ AwaitRetired(c, k)
  BY <1>2, DropAccount DEF Reject, Start, Join, JoinFinished, AwaitRetired
<1> QED
  BY <1>1, <1>2 DEF Lookup

LEMMA NextAccount == IInv /\ AInv /\ [Next]_vars => AInv'
<1> SUFFICES ASSUME IInv, AInv, [Next]_vars PROVE AInv'
  OBVIOUS
<1> entries \in Seq(Entry)
  BY DEF IInv, TypeOK
<1>1. ASSUME UNCHANGED storeVars PROVE AInv'
  BY <1>1 DEF storeVars, AInv
<1>2. ASSUME NEW c \in Callers, Call(c) PROVE AInv'
  BY <1>2, LookupAccount DEF Call
<1>3. ASSUME NEW c \in Callers, Retry(c) PROVE AInv'
  BY <1>3, LookupAccount DEF Retry, IInv, CallersHold
<1>4. ASSUME NEW c \in Callers, Cancel(c) \/ Leave(c) PROVE AInv'
  BY <1>1, <1>4 DEF Cancel, Leave, LeaveOthers, LeaveFinished, LeaveRetiring, LeaveCleanup,
                    CancelledWhileRetired, CancelledInCleanup
<1>5. ASSUME NEW f \in Flights, TaskStep(f) PROVE AInv'
  <2>1. CASE TaskStores(f)
    <3>1. taskKey[f] \in Keys
      BY <2>1 DEF TaskStores, IInv, FlightsHold
    <3> QED
      BY <2>1, <3>1, StoreAccount DEF TaskStores
  <2>2. CASE TaskRaises(f) \/ RetireBegins(f) \/ RetireEnds(f)
    BY <1>1, <2>2 DEF TaskRaises, RetireBegins, RetireEnds
  <2> QED
    BY <1>5, <2>1, <2>2 DEF TaskStep
<1>6. CASE Tick
  BY <1>6, TickAccount
<1>7. CASE UNCHANGED vars
  BY <1>1, <1>7 DEF vars
<1> QED
  BY <1>2, <1>3, <1>4, <1>5, <1>6, <1>7 DEF Next

LEMMA AlwaysAInv == Spec => []AInv
<1>1. Init => AInv
  <2> SUFFICES ASSUME Init PROVE AInv
    OBVIOUS
  <2>1. entries = << >> /\ bytes = 0
    BY DEF Init
  <2>2. entries \in Seq(Entry) /\ Len(entries) = 0
    BY <2>1
  <2>3. BytesOf(entries) = 0
    BY <2>2, BytesType
  <2> QED
    BY <2>1, <2>2, <2>3, LimitsAssumption DEF AInv
<1> QED
  BY <1>1, NextAccount, AlwaysIInv, PTL DEF Spec

\* The byte account is what the entries hold, entries are one per key, and both
\* limits hold, whatever expires, is replaced or is evicted.
THEOREM AccountIsExact == Spec => []StoreAccounting
<1>1. AInv /\ SInv => StoreAccounting
  BY DEF AInv, SInv, Distinct, StoreAccounting
<1> QED
  BY <1>1, AlwaysAInv, AlwaysSInv, PTL

\* The evictions a tile causes never reach the tile itself: a tile that fits at all is
\* the most recent entry after it has been stored.
THEOREM StoredTileIsKept ==
    Spec => [][\A k \in Keys : \A size \in Sizes :
                  Store(k, size) /\ size <= MaxBytes
                      => /\ entries' # << >>
                         /\ entries'[Len(entries')] = [key |-> k, size |-> size, left |-> TTL]]_vars
<1> DEFINE Kept == \A k \in Keys : \A size \in Sizes :
                      Store(k, size) /\ size <= MaxBytes
                          => /\ entries' # << >>
                             /\ entries'[Len(entries')] = [key |-> k, size |-> size, left |-> TTL]
<1>1. ASSUME IInv, AInv PROVE Kept
  <2> SUFFICES ASSUME NEW k \in Keys, NEW size \in Sizes, Store(k, size), size <= MaxBytes
               PROVE  /\ entries' # << >>
                      /\ entries'[Len(entries')] = [key |-> k, size |-> size, left |-> TTL]
    OBVIOUS
  <2> entries \in Seq(Entry) /\ AInv
    BY <1>1 DEF IInv, TypeOK
  <2> DEFINE e == [key |-> k, size |-> size, left |-> TTL]
             added == Added(k, size)
             total == bytes - SizeOf(k) + size
             last == Len(added)
  <2>1. /\ added \in Seq(Entry) /\ BytesOf(added) = total
        /\ last \in Nat \ {0} /\ added[last] = e
    BY AddedFacts
  <2>2. e.size = size /\ size \in Nat /\ ~(size > MaxBytes)
    BY SizesAssumption, LimitsAssumption
  <2>3. PICK n \in 0..last :
            /\ \A m \in 0..(n - 1) : ~Fits(added, total, m)
            /\ entries' = SubSeq(added, n + 1, last)
    BY <2>2 DEF Store, Added
  <2> HIDE DEF e, added, total
  <2>4. Fits(added, total, last - 1)
    <3>1. last - 1 \in 0..last /\ last \in 1..last
      BY <2>1
    <3>2. BytesOf(SubSeq(added, 1, last - 1)) = Sums(added)[last - 1]
      BY <2>1, <3>1, EvictionBytes
    <3>3. /\ Sums(added)[last] = Sums(added)[last - 1] + size
          /\ Sums(added)[last - 1] \in Nat
      BY <2>1, <2>2, <3>1, SumsFacts
    <3>4. total - Sums(added)[last - 1] = size
      BY <2>1, <2>2, <3>3 DEF BytesOf
    <3> QED
      BY <2>1, <2>2, <3>2, <3>4, LimitsAssumption DEF Fits
  <2>5. n \in 0..(last - 1)
    BY <2>1, <2>3, <2>4
  <2>6. Len(entries') = last - n /\ entries'[last - n] = added[n + (last - n)]
    BY <2>1, <2>3, <2>5
  <2>7. last - n # 0 /\ n + (last - n) = last
    BY <2>1, <2>5
  <2>8. entries' # << >> /\ entries'[Len(entries')] = e
    BY <2>1, <2>6, <2>7
  <2> QED
    BY <2>8 DEF e
<1>2. IInv /\ AInv /\ [Next]_vars => [Kept]_vars
  BY <1>1
<1> QED
  BY <1>2, AlwaysIInv, AlwaysAInv, PTL DEF Spec

-----------------------------------------------------------------------------
(* The refinement of OwnedWork.                                            *)

LEMMA HeldFacts ==
    ASSUME IInv
    PROVE  /\ \A c \in Callers : /\ pc[c] \in {"awaiting", "cleanup"} => Held[c] = at[c]
                                 /\ pc[c] \notin {"awaiting", "cleanup"} => Held[c] = NoFlight
           /\ \A c \in Callers : Held[c] \in Flights \cup {NoFlight}
           /\ \A f \in Flights : f # NoFlight
           /\ Computing \subseteq Flights
BY NoneAssumption DEF Held, IInv, TypeOK, Computing

\* A step that moves one caller maps to a change of what that caller holds.
LEMMA HeldMoves ==
    ASSUME IInv, NEW c \in Callers, NEW w,
           Held'[c] = w,
           \A d \in Callers \ {c} : pc'[d] = pc[d] /\ at'[d] = at[d]
    PROVE  Held' = [Held EXCEPT ![c] = w]
<1>1. \A d \in Callers \ {c} : Held'[d] = Held[d]
  BY DEF Held
<1>2. Held = [d \in Callers |-> Held[d]] /\ Held' = [d \in Callers |-> Held'[d]]
  BY DEF Held
<1> QED
  BY <1>1, <1>2

\* A step that moves no caller between what it holds and nothing.
LEMMA HeldStays ==
    ASSUME \A c \in Callers :
              /\ (pc'[c] \in {"awaiting", "cleanup"}) <=> (pc[c] \in {"awaiting", "cleanup"})
              /\ pc[c] \in {"awaiting", "cleanup"} => at'[c] = at[c]
    PROVE  Held' = Held
BY DEF Held

\* The computations that run are registered, each under its key.
LEMMA ComputingRegistered ==
    ASSUME IInv
    PROVE  /\ IsFiniteSet(Computing) /\ IsFiniteSet(Registered)
           /\ Cardinality(Computing) <= Cardinality(Registered)
           /\ Cardinality(Computing) \in Nat /\ Cardinality(Registered) \in Nat
           /\ \A f \in Computing : cleanup[f] # "done"
<1> DEFINE keyOf == [f \in Computing |-> taskKey[f]]
<1>1. \A f \in Computing : taskKey[f] \in Registered /\ inFlight[taskKey[f]] = f
  BY NoneAssumption DEF IInv, FlightsHold, Computing, Registered
<1>2. keyOf \in Injection(Computing, Registered)
  BY <1>1 DEF Injection, IsInjective
<1>3. /\ IsFiniteSet(Computing) /\ IsFiniteSet(Registered)
      /\ Cardinality(Computing) <= Cardinality(Registered)
  BY <1>2, FS_Injection DEF IInv, CapacityHolds
<1>4. \A f \in Computing : cleanup[f] # "done"
  BY <1>1, NoneAssumption DEF IInv, RegisteredHold, Registered
<1> QED
  BY <1>3, <1>4, FS_CardinalityType

\* The instance counts as this module does.
LEMMA OwnedCardinality == \A S : Owned!Cardinality(S) = Cardinality(S)
BY DEF Owned!Cardinality, Cardinality

LEMMA LookupMapped ==
    ASSUME IInv, IInv', NEW c \in Callers, NEW k \in Keys, pc[c] \in {"idle", "retired"}, Lookup(c, k)
    PROVE  [Owned!Next]_(Owned!vars)
<1>0. Held[c] = NoFlight
  BY HeldFacts
<1>1. CASE Hit(c, k) \/ Reject(c, k) \/ JoinFinished(c, k) \/ AwaitRetired(c, k)
  <2>1. Held' = Held
    BY <1>1, HeldStays DEF Hit, Reject, JoinFinished, AwaitRetired, Return, Suspend, IInv, TypeOK
  <2>2. Computing' = Computing
    BY <1>1 DEF Hit, Reject, JoinFinished, AwaitRetired, flightVars, Computing
  <2> QED
    BY <2>1, <2>2 DEF Owned!vars
<1>2. CASE Join(c, k)
  <2>1. PICK f \in Flights : f = inFlight[k] /\ f \in Computing
    BY <1>2 DEF Join, Computing, IInv, TypeOK
  <2>2. Held'[c] = f /\ \A d \in Callers \ {c} : pc'[d] = pc[d] /\ at'[d] = at[d]
    BY <1>2, <2>1 DEF Join, Suspend, Held, IInv, TypeOK
  <2>3. Held' = [Held EXCEPT ![c] = f] /\ Computing' = Computing
    BY <1>2, <2>2, HeldMoves DEF Join, Computing
  <2>4. Owned!Join(c)
    BY <1>0, <2>1, <2>3 DEF Owned!Join
  <2> QED
    BY <2>4 DEF Owned!Next
<1>3. CASE Start(c, k)
  <2>1. PICK f \in Flights :
            /\ IsFree(f, c)
            /\ task' = [task EXCEPT ![f] = "running"]
            /\ Suspend(c, "awaiting", k, f)
    BY <1>3 DEF Start
  <2>2. f \in Flights \ Computing /\ Owned!Holders(f) = {}
    <3>1. \A d \in Callers : Held[d] # f
      BY <1>0, <2>1, HeldFacts DEF IsFree
    <3> QED
      BY <2>1, <3>1 DEF IsFree, Computing, Owned!Holders
  <2>3. Held'[c] = f /\ \A d \in Callers \ {c} : pc'[d] = pc[d] /\ at'[d] = at[d]
    BY <2>1 DEF Suspend, Held, IInv, TypeOK
  <2>4. Held' = [Held EXCEPT ![c] = f]
    BY <2>3, HeldMoves
  <2>5. Computing' = Computing \cup {f}
    BY <2>1 DEF Computing, Unfinished, IInv, TypeOK
  <2>6. Cardinality(Computing \ {}) < MaxInFlight
    <3>1. Cardinality(Registered) < MaxInFlight /\ Computing \ {} = Computing
      BY <1>3 DEF Start
    <3> QED
      BY <3>1, ComputingRegistered, LimitsAssumption
  <2>7. Owned!Begin(c)
    <3>1. \E w \in Flights \ Computing :
              /\ Owned!Holders(w) = {}
              /\ Held' = [Held EXCEPT ![c] = w]
              /\ Computing' = Computing \cup {w}
      BY <2>2, <2>4, <2>5
    <3> QED
      BY <1>0, <2>6, <3>1, OwnedCardinality DEF Owned!Begin
  <2> QED
    BY <2>7 DEF Owned!Next
<1> QED
  BY <1>1, <1>2, <1>3 DEF Lookup

\* A caller that returns leaves a computation that has ended, or that others await.
LEMMA LeaveMapped ==
    ASSUME IInv, NEW c \in Callers, Leave(c)
    PROVE  [Owned!Next]_(Owned!vars)
<1>0. Computing' = Computing
  BY DEF Leave, LeaveOthers, LeaveFinished, LeaveRetiring, LeaveCleanup, CancelledWhileRetired,
         CancelledInCleanup, flightVars, Computing
<1>1. ASSUME Held[c] = at[c], at[c] \in Flights, NEW how, Return(c, how),
             at[c] \in Computing => Owned!Holders(at[c]) # {c}
      PROVE  [Owned!Next]_(Owned!vars)
  <2>1. Held'[c] = NoFlight /\ \A d \in Callers \ {c} : pc'[d] = pc[d] /\ at'[d] = at[d]
    BY <1>1 DEF Return, Held, IInv, TypeOK
  <2>2. Held' = [Held EXCEPT ![c] = NoFlight]
    BY <2>1, HeldMoves
  <2>3. Owned!Leave(c)
    BY <1>0, <1>1, <2>2, HeldFacts DEF Owned!Leave
  <2> QED
    BY <2>3 DEF Owned!Next
<1>2. CASE LeaveOthers(c)
  <2>1. pc[c] = "awaiting" /\ at[c] \in Flights /\ waiters[at[c]] # 1 /\ Return(c, Result(c))
    BY <1>2, AwaitingFacts DEF LeaveOthers, Wakes
  <2>2. Owned!Holders(at[c]) # {c}
    <3>1. Attached(at[c]) # {c}
      BY <2>1, FS_Singleton DEF IInv, WaitersExact
    <3>2. c \in Attached(at[c]) /\ Attached(at[c]) \subseteq Owned!Holders(at[c])
      BY <2>1, HeldFacts DEF Attached, Owned!Holders
    <3> QED
      BY <3>1, <3>2
  <2> QED
    BY <1>1, <2>1, <2>2, HeldFacts
<1>3. CASE LeaveFinished(c)
  <2>1. pc[c] = "awaiting" /\ at[c] \in Flights /\ at[c] \notin Computing /\ Return(c, Result(c))
    BY <1>3, AwaitingFacts DEF LeaveFinished, Wakes, Computing, Finished, Unfinished
  <2> QED
    BY <1>1, <2>1, HeldFacts
<1>4. CASE LeaveCleanup(c)
  <2>1. /\ pc[c] = "cleanup" /\ at[c] \in Flights /\ at[c] \notin Computing
        /\ Return(c, "cancelled")
    BY <1>4, ComputingRegistered DEF LeaveCleanup, IInv, CallersHold
  <2> QED
    BY <1>1, <2>1, HeldFacts
<1>5. CASE LeaveRetiring(c) \/ CancelledWhileRetired(c) \/ CancelledInCleanup(c)
  <2>1. Held' = Held
    BY <1>5, HeldStays
       DEF LeaveRetiring, Wakes, CancelledWhileRetired, CancelledInCleanup, Return, IInv, TypeOK
  <2> QED
    BY <1>0, <2>1 DEF Owned!vars
<1> QED
  BY <1>2, <1>3, <1>4, <1>5 DEF Leave

LEMMA TaskMapped ==
    ASSUME IInv, NEW f \in Flights, TaskStep(f)
    PROVE  [Owned!Next]_(Owned!vars)
<1>1. Held' = Held
  BY HeldStays DEF TaskStep, TaskStores, TaskRaises, RetireBegins, RetireEnds, callerVars
<1>2. CASE TaskStores(f) \/ TaskRaises(f)
  <2>1. f \in Computing /\ Computing' = Computing \ {f}
    BY <1>2 DEF TaskStores, TaskRaises, Computing, Unfinished, IInv, TypeOK
  <2>2. Owned!End(f)
    BY <1>1, <2>1 DEF Owned!End
  <2> QED
    BY <2>2 DEF Owned!Next
<1>3. CASE RetireBegins(f) \/ RetireEnds(f)
  <2>1. Computing' = Computing
    BY <1>3 DEF RetireBegins, RetireEnds, Computing, Unfinished, IInv, TypeOK
  <2> QED
    BY <1>1, <2>1 DEF Owned!vars
<1> QED
  BY <1>2, <1>3 DEF TaskStep

LEMMA NextMapped == IInv /\ IInv' /\ [Next]_vars => [Owned!Next]_(Owned!vars)
<1> SUFFICES ASSUME IInv, IInv', [Next]_vars PROVE [Owned!Next]_(Owned!vars)
  OBVIOUS
<1>1. ASSUME NEW c \in Callers, Call(c) PROVE [Owned!Next]_(Owned!vars)
  BY <1>1, LookupMapped DEF Call
<1>2. ASSUME NEW c \in Callers, Retry(c) PROVE [Owned!Next]_(Owned!vars)
  BY <1>2, LookupMapped DEF Retry, IInv, CallersHold
<1>3. ASSUME NEW c \in Callers, Leave(c) PROVE [Owned!Next]_(Owned!vars)
  BY <1>3, LeaveMapped
<1>4. ASSUME NEW f \in Flights, TaskStep(f) PROVE [Owned!Next]_(Owned!vars)
  BY <1>4, TaskMapped
<1>5. ASSUME UNCHANGED <<pc, at, task>> PROVE [Owned!Next]_(Owned!vars)
  BY <1>5, HeldStays DEF Computing, Owned!vars
<1>6. ASSUME NEW c \in Callers, Cancel(c) PROVE UNCHANGED <<pc, at, task>>
  BY <1>6 DEF Cancel, flightVars
<1>7. CASE Tick \/ UNCHANGED vars
  BY <1>5, <1>7 DEF Tick, vars, callerVars, flightVars
<1> QED
  BY <1>1, <1>2, <1>3, <1>4, <1>5, <1>6, <1>7 DEF Next

\* Whatever callers, computations and cleanups do is what owned work without strays may
\* do: a computation that runs is left only to other waiters, and none starts beyond
\* the limit.
THEOREM TilesAreOwnedWork == Spec => ImplementsOwnedWork
<1>1. Init => Owned!Init
  BY DEF Init, Owned!Init, Held, Computing, Unfinished
<1> QED
  BY <1>1, NextMapped, AlwaysIInv, PTL DEF Spec, ImplementsOwnedWork, Owned!Spec

=============================================================================

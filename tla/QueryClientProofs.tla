------------------------- MODULE QueryClientProofs -------------------------
(***************************************************************************)
(* Proofs about QueryClient, for every set of calls, attempts and replicas *)
(* and every limit: its safety invariants.                                 *)
(***************************************************************************)
EXTENDS QueryClient, FiniteSetTheorems, TLAPS

-----------------------------------------------------------------------------
(* The inductive invariant.                                                *)

\* A call has an attempt exactly while it sends or kills it.
CallsHold ==
    \A c \in Calls :
        IF place[c] \in {"sending", "killing"}
        THEN attempt[c] \in Attempts /\ owner[attempt[c]] = c
        ELSE attempt[c] = None

\* An attempt has the call that has it, or is free, or a stray.
AttemptsHold ==
    \A a \in Attempts :
        /\ owner[a] # None => attempt[owner[a]] = a
        /\ query[a] = "free" => owner[a] = None
        /\ (query[a] # "free" /\ owner[a] = None) => a \in unkilled

\* Interruptions end every wait but the cleanup, which has a cause.
InterruptionsHold ==
    \A c \in Calls :
        /\ place[c] \in {"selecting", "sending", "sleeping"} => ~cancelled[c] /\ ~expired[c]
        /\ place[c] = "killing" =>
              /\ cause[c] \in {"large", "unavailable", "timeout", "cancelled"}
              /\ cause[c] = "cancelled" => cancelled[c]

\* A deadline passes unnoticed only during a cleanup, which has its budget.
TimesHold ==
    \A c \in Calls :
        IF place[c] = "killing" THEN left[c] >= budget[c] - KillBudget ELSE left[c] >= 0

IInv == /\ TypeOK /\ PendingExact /\ CallsHold /\ AttemptsHold
        /\ InterruptionsHold /\ TimesHold /\ OutcomeIsJust

-----------------------------------------------------------------------------
(* What steps have in common.                                              *)

LEMMA ActiveFinite == IsFiniteSet(Active) /\ Cardinality(Active) \in Nat
<1>1. Active \subseteq Calls
  BY DEF Active
<1> QED
  BY <1>1, CallsAssumption, FS_Subset, FS_CardinalityType

\* The queue is exact if a call enters it, leaves it or stays.
LEMMA StayCounts ==
    ASSUME PendingExact, pending' = pending,
           \A c \in Calls : place[c] = "idle" <=> place'[c] = "idle"
    PROVE  PendingExact'
<1>1. Active' = Active
  BY DEF Active
<1> QED
  BY <1>1 DEF PendingExact

LEMMA LeaveCounts ==
    ASSUME TypeOK, PendingExact, NEW c \in Calls, place[c] # "idle",
           pending' = pending - 1, place' = [place EXCEPT ![c] = "idle"]
    PROVE  PendingExact' /\ pending' \in 0..MaxPending
<1>1. Active' = Active \ {c} /\ c \in Active
  BY DEF Active, TypeOK
<1>2. Cardinality(Active \ {c}) = Cardinality(Active) - 1 /\ Cardinality(Active) # 0
  BY <1>1, ActiveFinite, FS_RemoveElement, FS_EmptySet
<1> QED
  BY <1>1, <1>2, ActiveFinite, LimitsAssumption DEF PendingExact, TypeOK

LEMMA EnterCounts ==
    ASSUME TypeOK, PendingExact, NEW c \in Calls, place[c] = "idle",
           pending' = pending + 1, place' = [place EXCEPT ![c] = "selecting"]
    PROVE  PendingExact'
<1>1. Active' = Active \cup {c} /\ c \notin Active
  BY DEF Active, TypeOK
<1>2. Cardinality(Active \cup {c}) = Cardinality(Active) + 1
  BY <1>1, ActiveFinite, FS_AddElement
<1> QED
  BY <1>1, <1>2 DEF PendingExact

\* A call that ends for a reason of its own, and takes its attempt with it.
LEMMA ReturnStep ==
    ASSUME IInv, NEW c \in Calls, place[c] # "idle",
           NEW how \in Outcomes, Return(c, how),
           cancelled' \in [Calls -> BOOLEAN], expired' \in [Calls -> BOOLEAN],
           \A d \in Calls \ {c} : cancelled'[d] = cancelled[d] /\ expired'[d] = expired[d],
           how = "cancelled" <=> cancelled'[c],
           (expired'[c] /\ ~cancelled'[c]) => how = "timeout",
           query' \in [Attempts -> {"free", "travelling", "running", "ok", "error", "busy"}],
           replica' \in [Attempts -> Replicas \cup {None}],
           owner' \in [Attempts -> Calls \cup {None}],
           unkilled' \subseteq Attempts,
           \A a \in Attempts :
              /\ owner'[a] = IF owner[a] = c THEN None ELSE owner[a]
              /\ query'[a] = "free" => owner'[a] = None
              /\ (query'[a] # "free" /\ owner'[a] = None) => a \in unkilled'
    PROVE  IInv'
<1> USE DEF IInv
<1>1. /\ pending' = pending - 1
      /\ place' = [place EXCEPT ![c] = "idle"]
      /\ attempt' = [attempt EXCEPT ![c] = None]
      /\ cause' = [cause EXCEPT ![c] = "none"]
      /\ outcome' = [outcome EXCEPT ![c] = how]
      /\ left' = [left EXCEPT ![c] = 0]
      /\ budget' = [budget EXCEPT ![c] = 0]
  BY DEF Return
<1>2. PendingExact' /\ pending' \in 0..MaxPending
  BY <1>1, LeaveCounts
<1>3. TypeOK'
  BY <1>1, <1>2, LimitsAssumption DEF TypeOK, Places, Outcomes
<1>4. CallsHold'
  <2>1. ASSUME NEW d \in Calls, d # c, place'[d] \in {"sending", "killing"}
        PROVE  attempt'[d] \in Attempts /\ owner'[attempt'[d]] = d
    BY <1>1, <2>1 DEF CallsHold, TypeOK
  <2> QED
    BY <1>1, <2>1 DEF CallsHold, TypeOK
<1>5. AttemptsHold'
  <2>1. ASSUME NEW a \in Attempts, owner'[a] # None PROVE attempt'[owner'[a]] = a
    <3>1. owner[a] # c /\ owner'[a] = owner[a] /\ owner[a] \in Calls
      BY <2>1 DEF TypeOK
    <3> QED
      BY <1>1, <2>1, <3>1 DEF AttemptsHold, TypeOK
  <2> QED
    BY <2>1 DEF AttemptsHold
<1>6. InterruptionsHold'
  BY <1>1 DEF InterruptionsHold, TypeOK
<1>7. TimesHold'
  BY <1>1 DEF TimesHold, TypeOK
<1>8. OutcomeIsJust'
  BY <1>1 DEF OutcomeIsJust, TypeOK
<1> QED
  BY <1>2, <1>3, <1>4, <1>5, <1>6, <1>7, <1>8

\* A call that starts to clean up.
LEMMA GiveUpStep ==
    ASSUME IInv, NEW c \in Calls,
           NEW why \in {"large", "unavailable", "timeout", "cancelled"}, GiveUp(c, why),
           cancelled' \in [Calls -> BOOLEAN], expired' \in [Calls -> BOOLEAN],
           \A d \in Calls \ {c} : cancelled'[d] = cancelled[d] /\ expired'[d] = expired[d],
           why = "cancelled" => cancelled'[c]
    PROVE  IInv'
<1> USE DEF IInv
<1>1. /\ place[c] = "sending"
      /\ place' = [place EXCEPT ![c] = "killing"]
      /\ cause' = [cause EXCEPT ![c] = why]
      /\ budget' = [budget EXCEPT ![c] = KillBudget]
      /\ UNCHANGED <<pending, attempt, outcome, left, query, replica, owner, unkilled>>
  BY DEF GiveUp, queryVars
<1>2. PendingExact'
  BY <1>1, StayCounts DEF TypeOK
<1>3. TypeOK'
  BY <1>1, LimitsAssumption DEF TypeOK, Places, Outcomes
<1>4. CallsHold'
  BY <1>1 DEF CallsHold, TypeOK
<1>5. AttemptsHold'
  BY <1>1 DEF AttemptsHold
<1>6. InterruptionsHold'
  BY <1>1 DEF InterruptionsHold, TypeOK
<1>7. TimesHold'
  BY <1>1, LimitsAssumption DEF TimesHold, TypeOK
<1>8. OutcomeIsJust'
  BY <1>1 DEF OutcomeIsJust, TypeOK
<1> QED
  BY <1>2, <1>3, <1>4, <1>5, <1>6, <1>7, <1>8

\* What happens on a replica leaves the calls alone, and strays known as such.
LEMMA ReplicaLeaves ==
    ASSUME TypeOK, AttemptsHold, NEW x \in Attempts, query[x] # "free",
           \/ /\ \E what \in {"running", "ok", "error", "busy"} : query' = [query EXCEPT ![x] = what]
              /\ UNCHANGED <<replica, owner, unkilled>>
           \/ owner[x] = None /\ Forget(x)
    PROVE  /\ query' \in [Attempts -> {"free", "travelling", "running", "ok", "error", "busy"}]
           /\ replica' \in [Attempts -> Replicas \cup {None}]
           /\ owner' = owner
           /\ unkilled' \subseteq Attempts
           /\ \A b \in Attempts : /\ query'[b] = "free" => owner'[b] = None
                                  /\ (query'[b] # "free" /\ owner'[b] = None) => b \in unkilled'
<1>1. CASE /\ \E what \in {"running", "ok", "error", "busy"} : query' = [query EXCEPT ![x] = what]
           /\ UNCHANGED <<replica, owner, unkilled>>
  <2>1. PICK what \in {"running", "ok", "error", "busy"} : query' = [query EXCEPT ![x] = what]
    BY <1>1
  <2> QED
    BY <1>1, <2>1 DEF TypeOK, AttemptsHold
<1>2. CASE owner[x] = None /\ Forget(x)
  BY <1>2 DEF Forget, TypeOK, AttemptsHold
<1> QED
  BY <1>1, <1>2

LEMMA ReplicaStep ==
    ASSUME IInv, UNCHANGED <<pending, callVars, timeVars>>,
           query' \in [Attempts -> {"free", "travelling", "running", "ok", "error", "busy"}],
           replica' \in [Attempts -> Replicas \cup {None}],
           owner' = owner,
           unkilled' \subseteq Attempts,
           \A b \in Attempts : /\ query'[b] = "free" => owner'[b] = None
                               /\ (query'[b] # "free" /\ owner'[b] = None) => b \in unkilled'
    PROVE  IInv'
<1> USE DEF IInv
<1>1. UNCHANGED <<pending, place, attempt, cause, cancelled, expired, outcome, left, budget>>
  BY DEF callVars, timeVars
<1>2. PendingExact'
  BY <1>1, StayCounts
<1>3. TypeOK'
  BY <1>1 DEF TypeOK
<1>4. CallsHold'
  BY <1>1 DEF CallsHold
<1>5. AttemptsHold'
  <2>1. ASSUME NEW b \in Attempts, owner'[b] # None PROVE attempt'[owner'[b]] = b
    BY <1>1, <2>1 DEF AttemptsHold
  <2> QED
    BY <2>1 DEF AttemptsHold
<1>6. InterruptionsHold' /\ TimesHold' /\ OutcomeIsJust'
  BY <1>1 DEF InterruptionsHold, TimesHold, OutcomeIsJust
<1> QED
  BY <1>2, <1>3, <1>4, <1>5, <1>6

\* A call that goes from one wait to the next, without an attempt or losing it.
LEMMA MoveStep ==
    ASSUME IInv, NEW c \in Calls,
           place[c] \in {"sleeping", "sending"},
           NEW to \in {"selecting", "sleeping"}, place' = [place EXCEPT ![c] = to],
           attempt' = [attempt EXCEPT ![c] = None],
           UNCHANGED <<pending, cause, cancelled, expired, outcome, timeVars>>,
           IF place[c] = "sending" THEN Forget(attempt[c]) ELSE UNCHANGED queryVars
    PROVE  IInv'
<1> USE DEF IInv
<1>1. UNCHANGED <<pending, cause, cancelled, expired, outcome, left, budget>>
  BY DEF timeVars
<1>2. /\ query' \in [Attempts -> {"free", "travelling", "running", "ok", "error", "busy"}]
      /\ replica' \in [Attempts -> Replicas \cup {None}]
      /\ owner' \in [Attempts -> Calls \cup {None}]
      /\ unkilled' \subseteq Attempts
      /\ \A b \in Attempts :
            /\ owner'[b] = IF owner[b] = c THEN None ELSE owner[b]
            /\ query'[b] = "free" => owner'[b] = None
            /\ (query'[b] # "free" /\ owner'[b] = None) => b \in unkilled'
  <2>1. CASE place[c] = "sending"
    <3>1. attempt[c] \in Attempts /\ owner[attempt[c]] = c /\ Forget(attempt[c])
      BY <2>1 DEF CallsHold
    <3> QED
      BY <3>1, NoneAssumption DEF Forget, TypeOK, AttemptsHold
  <2>2. CASE place[c] = "sleeping"
    <3>1. attempt[c] = None /\ UNCHANGED <<query, replica, owner, unkilled>>
      BY <2>2 DEF CallsHold, queryVars
    <3>2. \A b \in Attempts : owner[b] # c
      BY <3>1, NoneAssumption DEF AttemptsHold
    <3> QED
      BY <3>1, <3>2 DEF TypeOK, AttemptsHold
  <2> QED
    BY <2>1, <2>2
<1>3. PendingExact'
  BY <1>1, StayCounts DEF TypeOK
<1>4. TypeOK'
  BY <1>1, <1>2 DEF TypeOK, Places
<1>5. CallsHold'
  BY <1>2 DEF CallsHold, TypeOK
<1>6. AttemptsHold'
  <2>1. ASSUME NEW a \in Attempts, owner'[a] # None PROVE attempt'[owner'[a]] = a
    <3>1. owner[a] # c /\ owner'[a] = owner[a] /\ owner[a] \in Calls
      BY <1>2, <2>1 DEF TypeOK
    <3> QED
      BY <2>1, <3>1 DEF AttemptsHold, TypeOK
  <2> QED
    BY <1>2, <2>1 DEF AttemptsHold
<1>7. InterruptionsHold' /\ TimesHold' /\ OutcomeIsJust'
  BY <1>1 DEF InterruptionsHold, TimesHold, OutcomeIsJust, TypeOK
<1> QED
  BY <1>3, <1>4, <1>5, <1>6, <1>7

-----------------------------------------------------------------------------
(* The steps.                                                              *)

LEMMA CallStep ==
    ASSUME IInv, NEW c \in Calls, Call(c)
    PROVE  IInv'
<1> USE DEF IInv
<1>1. /\ place[c] = "idle"
      /\ cancelled' = [cancelled EXCEPT ![c] = FALSE]
      /\ expired' = [expired EXCEPT ![c] = FALSE]
      /\ UNCHANGED <<attempt, cause, budget, query, replica, owner, unkilled>>
  BY DEF Call, Enter, queryVars
<1>2. CASE pending >= MaxPending
  <2>1. outcome' = [outcome EXCEPT ![c] = "full"] /\ UNCHANGED <<pending, place, left>>
    BY <1>2 DEF Call, Enter
  <2>2. TypeOK'
    BY <1>1, <2>1 DEF TypeOK, Outcomes
  <2>3. PendingExact'
    BY <2>1, StayCounts
  <2>4. CallsHold' /\ AttemptsHold' /\ InterruptionsHold' /\ TimesHold' /\ OutcomeIsJust'
    BY <1>1, <2>1 DEF CallsHold, AttemptsHold, InterruptionsHold, TimesHold, OutcomeIsJust, TypeOK
  <2> QED
    BY <2>2, <2>3, <2>4
<1>3. CASE ~(pending >= MaxPending)
  <2>1. /\ outcome' = [outcome EXCEPT ![c] = "none"]
        /\ pending' = pending + 1
        /\ place' = [place EXCEPT ![c] = "selecting"]
        /\ left' = [left EXCEPT ![c] = Deadline]
    BY <1>3 DEF Call, Enter
  <2>2. TypeOK'
    BY <1>1, <1>3, <2>1, LimitsAssumption DEF TypeOK, Places, Outcomes
  <2>3. PendingExact'
    BY <1>1, <2>1, EnterCounts
  <2>4. CallsHold' /\ AttemptsHold'
    BY <1>1, <2>1 DEF CallsHold, AttemptsHold, TypeOK
  <2>5. InterruptionsHold' /\ OutcomeIsJust'
    BY <1>1, <2>1 DEF InterruptionsHold, OutcomeIsJust, TypeOK
  <2>6. TimesHold'
    BY <1>1, <2>1, LimitsAssumption DEF TimesHold, TypeOK
  <2> QED
    BY <2>2, <2>3, <2>4, <2>5, <2>6
<1> QED
  BY <1>2, <1>3

LEMMA SendStep ==
    ASSUME IInv, NEW c \in Calls, Send(c)
    PROVE  IInv'
<1> USE DEF IInv
<1>1. PICK a \in Attempts, n \in Replicas :
          /\ query[a] = "free"
          /\ query' = [query EXCEPT ![a] = "travelling"]
          /\ replica' = [replica EXCEPT ![a] = n]
          /\ owner' = [owner EXCEPT ![a] = c]
          /\ attempt' = [attempt EXCEPT ![c] = a]
  BY DEF Send
<1>2. /\ place[c] = "selecting" /\ attempt[c] = None /\ owner[a] = None
      /\ place' = [place EXCEPT ![c] = "sending"]
      /\ UNCHANGED <<pending, cause, cancelled, expired, outcome, left, budget, unkilled>>
  BY <1>1 DEF Send, CallsHold, AttemptsHold, timeVars
<1>3. TypeOK'
  BY <1>1, <1>2 DEF TypeOK, Places
<1>4. PendingExact'
  BY <1>2, StayCounts DEF TypeOK
<1>5. CallsHold'
  BY <1>1, <1>2, NoneAssumption DEF CallsHold, TypeOK
<1>6. AttemptsHold'
  <2>1. ASSUME NEW b \in Attempts, owner'[b] # None PROVE attempt'[owner'[b]] = b
    <3>1. CASE b = a
      BY <1>1, <3>1 DEF TypeOK
    <3>2. CASE b # a
      <4>1. owner'[b] = owner[b] /\ owner[b] \in Calls /\ attempt[owner[b]] = b
        BY <1>1, <2>1, <3>2 DEF AttemptsHold, TypeOK
      <4>2. owner[b] # c
        BY <1>2, <4>1, NoneAssumption
      <4> QED
        BY <1>1, <4>1, <4>2 DEF TypeOK
    <3> QED
      BY <3>1, <3>2
  <2>2. \A b \in Attempts :
            /\ query'[b] = "free" => owner'[b] = None
            /\ (query'[b] # "free" /\ owner'[b] = None) => b \in unkilled'
    BY <1>1, <1>2, NoneAssumption DEF AttemptsHold, TypeOK
  <2> QED
    BY <2>1, <2>2 DEF AttemptsHold
<1>7. InterruptionsHold' /\ TimesHold' /\ OutcomeIsJust'
  BY <1>2 DEF InterruptionsHold, TimesHold, OutcomeIsJust, TypeOK
<1> QED
  BY <1>3, <1>4, <1>5, <1>6, <1>7

\* The attempt of a call, which it takes with it.
LEMMA ForgetLeaves ==
    ASSUME IInv, NEW c \in Calls, place[c] \in {"sending", "killing"},
           Forget(attempt[c]) \/ Abandon(attempt[c])
    PROVE  /\ query' \in [Attempts -> {"free", "travelling", "running", "ok", "error", "busy"}]
           /\ replica' \in [Attempts -> Replicas \cup {None}]
           /\ owner' \in [Attempts -> Calls \cup {None}]
           /\ unkilled' \subseteq Attempts
           /\ \A a \in Attempts :
                 /\ owner'[a] = IF owner[a] = c THEN None ELSE owner[a]
                 /\ query'[a] = "free" => owner'[a] = None
                 /\ (query'[a] # "free" /\ owner'[a] = None) => a \in unkilled'
<1> USE DEF IInv
<1>1. PICK a \in Attempts : a = attempt[c] /\ owner[a] = c
  BY DEF CallsHold
<1>2. \A b \in Attempts : owner[b] = c => b = a
  BY <1>1, NoneAssumption DEF AttemptsHold
<1>3. CASE Forget(a)
  BY <1>1, <1>2, <1>3 DEF Forget, TypeOK, AttemptsHold
<1>4. CASE Abandon(a) /\ ~Forget(a)
  <2>1. /\ owner' = [owner EXCEPT ![a] = None]
        /\ unkilled' = unkilled \cup {a}
        /\ UNCHANGED <<query, replica>>
        /\ query[a] # "free"
    BY <1>4 DEF Abandon
  <2> QED
    BY <1>1, <1>2, <2>1 DEF TypeOK, AttemptsHold
<1> QED
  BY <1>1, <1>3, <1>4

LEMMA SelectFailsStep ==
    ASSUME IInv, NEW c \in Calls, SelectFails(c)
    PROVE  IInv'
<1>1. /\ place[c] = "selecting" /\ attempt[c] = None /\ ~cancelled[c] /\ ~expired[c]
      /\ Return(c, "unavailable")
      /\ UNCHANGED <<cancelled, expired, query, replica, owner, unkilled>>
  BY DEF SelectFails, IInv, CallsHold, InterruptionsHold, queryVars
<1>2. \A a \in Attempts : owner[a] # c
  BY <1>1, NoneAssumption DEF IInv, AttemptsHold
<1> QED
  BY <1>1, <1>2, ReturnStep DEF IInv, TypeOK, AttemptsHold, Outcomes

LEMMA ReceiveStep ==
    ASSUME IInv, NEW c \in Calls, Receive(c)
    PROVE  IInv'
<1>1. /\ place[c] = "sending" /\ ~cancelled[c] /\ ~expired[c]
      /\ query[attempt[c]] \in {"ok", "error"}
      /\ Return(c, query[attempt[c]]) /\ Forget(attempt[c])
      /\ UNCHANGED <<cancelled, expired>>
  BY DEF Receive, IInv, InterruptionsHold
<1>2. PICK how \in {"ok", "error"} : Return(c, how)
  BY <1>1
<1> QED
  BY <1>1, <1>2, ForgetLeaves, ReturnStep DEF IInv, TypeOK, Outcomes

LEMMA RefusedStep ==
    ASSUME IInv, NEW c \in Calls, Refused(c)
    PROVE  IInv'
<1> QED
  BY MoveStep DEF Refused

LEMMA WakeStep ==
    ASSUME IInv, NEW c \in Calls, Wake(c)
    PROVE  IInv'
<1>1. attempt' = [attempt EXCEPT ![c] = None]
  BY DEF Wake, IInv, CallsHold, TypeOK
<1> QED
  BY <1>1, MoveStep DEF Wake

LEMMA OwnFailureStep ==
    ASSUME IInv, NEW c \in Calls, TooLarge(c) \/ TransportFails(c) \/ AttemptTimesOut(c)
    PROVE  IInv'
<1>1. PICK why \in {"large", "unavailable", "timeout"} : GiveUp(c, why)
  BY DEF TooLarge, TransportFails, AttemptTimesOut
<1>2. UNCHANGED <<cancelled, expired>>
  BY DEF TooLarge, TransportFails, AttemptTimesOut
<1> QED
  BY <1>1, <1>2, GiveUpStep DEF IInv, TypeOK

\* The deadline, or the caller, interrupts whatever the call waits for.
LEMMA InterruptStep ==
    ASSUME IInv, NEW c \in Calls, NEW why \in {"timeout", "cancelled"}, Interrupt(c, why),
           place[c] # "idle",
           cancelled' = IF why = "cancelled" THEN [cancelled EXCEPT ![c] = TRUE] ELSE cancelled,
           expired' = IF why = "timeout" THEN [expired EXCEPT ![c] = TRUE] ELSE expired
    PROVE  IInv'
<1> USE DEF IInv
<1>1. /\ cancelled' \in [Calls -> BOOLEAN]
      /\ expired' \in [Calls -> BOOLEAN]
      /\ \A d \in Calls \ {c} : cancelled'[d] = cancelled[d] /\ expired'[d] = expired[d]
      /\ why = "cancelled" => cancelled'[c]
      /\ cancelled[c] => cancelled'[c]
  BY DEF TypeOK
<1>2. CASE place[c] \in {"selecting", "sleeping"}
  <2>1. /\ Return(c, why) /\ UNCHANGED <<query, replica, owner, unkilled>>
        /\ attempt[c] = None /\ ~cancelled[c] /\ ~expired[c]
    BY <1>2 DEF Interrupt, GiveUp, CallsHold, InterruptionsHold, queryVars
  <2>2. \A a \in Attempts : owner[a] # c
    BY <2>1, NoneAssumption DEF AttemptsHold
  <2>3. why = "cancelled" <=> cancelled'[c]
    BY <2>1 DEF TypeOK
  <2>4. (expired'[c] /\ ~cancelled'[c]) => why = "timeout"
    BY <2>1 DEF TypeOK
  <2>5. why \in Outcomes
    BY DEF Outcomes
  <2>6. \A a \in Attempts :
            /\ owner'[a] = IF owner[a] = c THEN None ELSE owner[a]
            /\ query'[a] = "free" => owner'[a] = None
            /\ (query'[a] # "free" /\ owner'[a] = None) => a \in unkilled'
    BY <2>1, <2>2 DEF AttemptsHold
  <2>7. /\ query' \in [Attempts -> {"free", "travelling", "running", "ok", "error", "busy"}]
        /\ replica' \in [Attempts -> Replicas \cup {None}]
        /\ owner' \in [Attempts -> Calls \cup {None}]
        /\ unkilled' \subseteq Attempts
    BY <2>1 DEF TypeOK
  <2> QED
    BY <1>1, <2>1, <2>3, <2>4, <2>5, <2>6, <2>7, ReturnStep
<1>3. CASE place[c] = "sending"
  BY <1>1, <1>3, GiveUpStep DEF Interrupt
<1>4. CASE place[c] = "killing"
  <2>1. UNCHANGED <<pending, place, attempt, cause, outcome, left, budget,
                    query, replica, owner, unkilled>>
    BY <1>4 DEF Interrupt, GiveUp, timeVars, queryVars
  <2>2. TypeOK'
    BY <1>1, <2>1 DEF TypeOK
  <2>3. PendingExact'
    BY <2>1, StayCounts
  <2>4. CallsHold' /\ AttemptsHold' /\ TimesHold'
    BY <2>1 DEF CallsHold, AttemptsHold, TimesHold
  <2>5. InterruptionsHold' /\ OutcomeIsJust'
    BY <1>1, <1>4, <2>1 DEF InterruptionsHold, OutcomeIsJust
  <2> QED
    BY <2>2, <2>3, <2>4, <2>5
<1> QED
  BY <1>2, <1>3, <1>4 DEF TypeOK, Places

LEMMA KillEndsStep ==
    ASSUME IInv, NEW c \in Calls, Kill(c) \/ KillFails(c)
    PROVE  IInv'
<1> USE DEF IInv
<1>1. /\ place[c] = "killing" /\ Return(c, Reason(c))
      /\ Forget(attempt[c]) \/ Abandon(attempt[c])
      /\ UNCHANGED <<cancelled, expired>>
  BY DEF Kill, KillFails
<1>2. /\ Reason(c) \in Outcomes
      /\ Reason(c) = "cancelled" <=> cancelled[c]
      /\ (expired[c] /\ ~cancelled[c]) => Reason(c) = "timeout"
  BY <1>1 DEF Reason, InterruptionsHold, TypeOK, Outcomes
<1>3. PICK how \in Outcomes : how = Reason(c)
  BY <1>2
<1> QED
  BY <1>1, <1>2, <1>3, ForgetLeaves, ReturnStep DEF TypeOK

LEMMA TickStep ==
    ASSUME IInv, Tick
    PROVE  IInv'
<1> USE DEF IInv
<1>1. /\ UNCHANGED <<pending, place, attempt, cause, cancelled, expired, outcome,
                     query, replica, owner, unkilled>>
      /\ left' = [c \in Calls |-> IF place[c] # "idle" THEN left[c] - 1 ELSE 0]
      /\ budget' = [c \in Calls |-> IF place[c] = "killing" THEN budget[c] - 1 ELSE budget[c]]
      /\ \A c \in Calls : ~Due(c)
  BY DEF Tick, callVars, queryVars
<1>2. TypeOK'
  <2>1. left' \in [Calls -> Int]
    BY <1>1 DEF TypeOK
  <2>2. budget' \in [Calls -> 0..KillBudget]
    BY <1>1, LimitsAssumption DEF TypeOK, Due
  <2> QED
    BY <1>1, <2>1, <2>2 DEF TypeOK
<1>3. PendingExact'
  BY <1>1, StayCounts
<1>4. CallsHold' /\ AttemptsHold' /\ InterruptionsHold' /\ OutcomeIsJust'
  BY <1>1 DEF CallsHold, AttemptsHold, InterruptionsHold, OutcomeIsJust
<1>5. TimesHold'
  <2>1. ASSUME NEW c \in Calls
        PROVE  IF place[c] = "killing" THEN left'[c] >= budget'[c] - KillBudget ELSE left'[c] >= 0
    <3>1. left[c] \in Int /\ budget[c] \in Int /\ place[c] \in Places
      BY DEF TypeOK
    <3>2. CASE place[c] = "idle"
      BY <1>1, <3>2
    <3>3. CASE place[c] = "killing"
      BY <1>1, <3>1, <3>3, LimitsAssumption DEF TimesHold
    <3>4. CASE place[c] \notin {"idle", "killing"}
      BY <1>1, <3>1, <3>4 DEF Due, TimesHold, InterruptionsHold, Places
    <3> QED
      BY <3>2, <3>3, <3>4
  <2> QED
    BY <1>1, <2>1 DEF TimesHold
<1> QED
  BY <1>2, <1>3, <1>4, <1>5

-----------------------------------------------------------------------------
(* The theorems.                                                           *)

LEMMA Initially == Init => IInv
<1> SUFFICES ASSUME Init PROVE IInv
  OBVIOUS
<1>1. PendingExact
  <2>1. Active = {}
    BY DEF Init, Active
  <2> QED
    BY <2>1, FS_EmptySet DEF Init, PendingExact
<1>2. TypeOK
  BY LimitsAssumption DEF Init, TypeOK, Places, Outcomes
<1> QED
  BY <1>1, <1>2 DEF Init, IInv, CallsHold, AttemptsHold, InterruptionsHold, TimesHold, OutcomeIsJust

LEMMA Step == IInv /\ [Next]_vars => IInv'
<1> SUFFICES ASSUME IInv, [Next]_vars PROVE IInv'
  OBVIOUS
<1>1. ASSUME NEW a \in Attempts, RunQuery(a) PROVE IInv'
  BY <1>1, ReplicaLeaves, ReplicaStep DEF RunQuery, IInv
<1>2. ASSUME NEW a \in Attempts, RefuseQuery(a) PROVE IInv'
  BY <1>2, ReplicaLeaves, ReplicaStep DEF RefuseQuery, Answer, IInv
<1>3. ASSUME NEW a \in Attempts, EndQuery(a) PROVE IInv'
  BY <1>3, ReplicaLeaves, ReplicaStep DEF EndQuery, Answer, IInv
<1>4. ASSUME NEW c \in Calls, Expire(c) PROVE IInv'
  BY <1>4, InterruptStep DEF Expire
<1>5. ASSUME NEW c \in Calls, Cancel(c) PROVE IInv'
  BY <1>5, InterruptStep DEF Cancel
<1>6. CASE UNCHANGED vars
  <2>1. UNCHANGED <<pending, place, attempt, cause, cancelled, expired, outcome,
                    left, budget, query, replica, owner, unkilled>>
    BY <1>6 DEF vars, callVars, timeVars, queryVars
  <2>2. TypeOK' /\ PendingExact'
    BY <2>1, StayCounts DEF IInv, TypeOK
  <2> QED
    BY <2>1, <2>2 DEF IInv, CallsHold, AttemptsHold, InterruptionsHold, TimesHold, OutcomeIsJust
<1> QED
  BY <1>1, <1>2, <1>3, <1>4, <1>5, <1>6, CallStep, SendStep, SelectFailsStep, ReceiveStep,
     RefusedStep, WakeStep, OwnFailureStep, KillEndsStep, TickStep
     DEF Next

LEMMA Invariant == Spec => []IInv
  BY Initially, Step, PTL DEF Spec

\* The queue never holds more calls than it may, and every variable has its type.
THEOREM TypeCorrect == Spec => []TypeOK
<1>1. IInv => TypeOK
  BY DEF IInv
<1> QED
  BY <1>1, Invariant, PTL

\* However calls of query end, the counter of the queue is that of the calls under way.
THEOREM PendingIsExact == Spec => []PendingExact
<1>1. IInv => PendingExact
  BY DEF IInv
<1> QED
  BY <1>1, Invariant, PTL

\* A running query has a call that waits for it or kills it, unless a kill was
\* tried and failed or came first.
THEOREM RunningHasOwner == Spec => []RunningIsOwned
<1>1. IInv => RunningIsOwned
  <2> SUFFICES ASSUME IInv, NEW a \in Attempts, query[a] = "running", a \notin unkilled
               PROVE  \E c \in Active : attempt[c] = a /\ owner[a] = c
    BY DEF RunningIsOwned
  <2>1. owner[a] \in Calls /\ attempt[owner[a]] = a
    BY DEF IInv, AttemptsHold, TypeOK
  <2>2. owner[a] \in Active
    BY <2>1, NoneAssumption DEF IInv, CallsHold, Active
  <2> QED
    BY <2>1, <2>2
<1> QED
  BY <1>1, Invariant, PTL

\* Retries never leave a call with two queries on the replicas.
THEOREM OneQueryEach == Spec => []OneQueryPerCall
<1>1. IInv => OneQueryPerCall
  BY DEF IInv, AttemptsHold, OneQueryPerCall
<1> QED
  BY <1>1, Invariant, PTL

\* The queries that run are one per call, each of a call that waits for it or kills it,
\* unless a kill failed or came first.
THEOREM QueriesHaveOwners == Spec => []QueriesAreOwned
<1>1. RunningIsOwned /\ OneQueryPerCall => QueriesAreOwned
  BY DEF QueriesAreOwned
<1> QED
  BY <1>1, RunningHasOwner, OneQueryEach, PTL

\* A call reports cancellation exactly if it was cancelled, and its deadline if
\* that passed, whatever else went wrong before or during its cleanup.
THEOREM OutcomesAreJust == Spec => []OutcomeIsJust
<1>1. IInv => OutcomeIsJust
  BY DEF IInv
<1> QED
  BY <1>1, Invariant, PTL

\* No call outlives its deadline by more than one cleanup, however often it is
\* interrupted.
THEOREM CallsEndInTime == Spec => []EndsInTime
<1>1. IInv => EndsInTime
  <2> SUFFICES ASSUME IInv, NEW c \in Calls PROVE left[c] >= 0 - KillBudget
    BY DEF EndsInTime
  <2>1. left[c] \in Int /\ budget[c] \in 0..KillBudget
    BY DEF IInv, TypeOK
  <2> QED
    BY <2>1, LimitsAssumption DEF IInv, TimesHold
<1> QED
  BY <1>1, Invariant, PTL

-----------------------------------------------------------------------------
(* The refinement of OwnedWork.                                            *)

\* A stray has no call, and a replica has it or is about to.
StraysHold ==
    \A a \in Attempts : a \in unkilled => owner[a] = None /\ a \in Underway

LEMMA StraysStep == IInv /\ StraysHold /\ [Next]_vars => StraysHold'
<1> SUFFICES ASSUME IInv, StraysHold, [Next]_vars PROVE StraysHold'
  OBVIOUS
<1> USE DEF IInv
<1>1. ASSUME UNCHANGED queryVars PROVE StraysHold'
  BY <1>1 DEF queryVars, StraysHold, Underway
<1>2. ASSUME NEW a \in Attempts, RunQuery(a) PROVE StraysHold'
  BY <1>2 DEF RunQuery, StraysHold, Underway, TypeOK
<1>3. ASSUME NEW a \in Attempts, Forget(a) PROVE StraysHold'
  BY <1>3 DEF Forget, StraysHold, Underway, TypeOK
<1>4. ASSUME NEW a \in Attempts, NEW what, Answer(a, what) PROVE StraysHold'
  <2>1. Listened(a) => owner[a] # None
    BY NoneAssumption DEF Listened, CallsHold
  <2>2. CASE ~Listened(a) /\ owner[a] = None
    BY <1>3, <1>4, <2>2 DEF Answer
  <2>3. CASE Listened(a) \/ owner[a] # None
    <3>1. /\ \E how : query' = [query EXCEPT ![a] = how]
          /\ owner' = owner /\ unkilled' = unkilled /\ a \notin unkilled
      BY <1>4, <2>1, <2>3 DEF Answer, StraysHold
    <3> QED
      BY <3>1 DEF StraysHold, Underway, TypeOK
  <2> QED
    BY <2>2, <2>3
<1>5. ASSUME NEW a \in Attempts, RefuseQuery(a) \/ EndQuery(a) PROVE StraysHold'
  BY <1>4, <1>5 DEF RefuseQuery, EndQuery
<1>6. ASSUME NEW c \in Calls, Send(c) PROVE StraysHold'
  <2>1. PICK a \in Attempts :
            /\ query[a] = "free"
            /\ query' = [query EXCEPT ![a] = "travelling"]
            /\ owner' = [owner EXCEPT ![a] = c]
            /\ unkilled' = unkilled
    BY <1>6 DEF Send
  <2>2. a \notin unkilled
    BY <2>1 DEF StraysHold, Underway
  <2> QED
    BY <2>1, <2>2 DEF StraysHold, Underway, TypeOK
<1>7. ASSUME NEW a \in Attempts, Abandon(a) PROVE StraysHold'
  BY <1>3, <1>7 DEF Abandon, StraysHold, Underway, TypeOK
<1>8. ASSUME NEW c \in Calls, Receive(c) \/ Refused(c) \/ Kill(c) \/ KillFails(c)
      PROVE  StraysHold'
  <2>1. attempt[c] \in Attempts /\ (Forget(attempt[c]) \/ Abandon(attempt[c]))
    BY <1>8 DEF Receive, Refused, Kill, KillFails, CallsHold
  <2> QED
    BY <1>3, <1>7, <2>1
<1>9. ASSUME NEW c \in Calls,
             \/ Call(c) \/ SelectFails(c) \/ Wake(c) \/ TooLarge(c) \/ TransportFails(c)
             \/ AttemptTimesOut(c) \/ Expire(c) \/ Cancel(c)
      PROVE  UNCHANGED queryVars
  BY <1>9 DEF Call, Enter, SelectFails, Wake, TooLarge, TransportFails, AttemptTimesOut, Expire,
     Cancel, Interrupt, GiveUp
<1>10. CASE Tick \/ UNCHANGED vars
  BY <1>1, <1>10 DEF Tick, vars
<1> QED
  BY <1>1, <1>2, <1>5, <1>6, <1>8, <1>9, <1>10 DEF Next

LEMMA AlwaysStrays == Spec => []StraysHold
<1>1. Init => StraysHold
  BY DEF Init, StraysHold
<1> QED
  BY <1>1, StraysStep, Invariant, PTL DEF Spec

\* A call is the only one to hold its attempt.
LEMMA OnlyHolder ==
    ASSUME IInv, NEW c \in Calls, attempt[c] # None
    PROVE  /\ attempt[c] \in Attempts /\ owner[attempt[c]] = c
           /\ Owned!Holders(attempt[c]) = {c}
<1>1. attempt[c] \in Attempts /\ owner[attempt[c]] = c
  BY DEF IInv, CallsHold
<1>2. \A d \in Calls : attempt[d] = attempt[c] => d = c
  BY <1>1, NoneAssumption DEF IInv, CallsHold
<1> QED
  BY <1>1, <1>2 DEF Owned!Holders

\* The instance counts as this module does.
LEMMA OwnedCardinality == \A S : Owned!Cardinality(S) = Cardinality(S)
BY DEF Owned!Cardinality, Cardinality

\* A call without an attempt finds a place among the queries under way.
LEMMA PlaceLeft ==
    ASSUME IInv, NEW c \in Active, attempt[c] = None
    PROVE  Cardinality(Underway \ unkilled) < MaxPending
<1> DEFINE owned == Underway \ unkilled
           others == Active \ {c}
           ownerOf == [a \in owned |-> owner[a]]
<1>1. ASSUME NEW a \in owned
      PROVE  owner[a] \in others /\ attempt[owner[a]] = a
  <2>1. a \in Attempts /\ owner[a] \in Calls /\ attempt[owner[a]] = a
    BY DEF IInv, AttemptsHold, TypeOK, Underway
  <2>2. owner[a] \in Active
    BY <2>1, NoneAssumption DEF IInv, CallsHold, Active
  <2> QED
    BY <2>1, <2>2, NoneAssumption
<1>2. ownerOf \in Injection(owned, others)
  BY <1>1 DEF Injection, IsInjective
<1>3. IsFiniteSet(Active) /\ IsFiniteSet(others) /\ Cardinality(others) = Cardinality(Active) - 1
  BY ActiveFinite, FS_RemoveElement
<1> HIDE DEF owned, others, ownerOf
<1>4. IsFiniteSet(owned) /\ Cardinality(owned) <= Cardinality(others)
  BY <1>2, <1>3, FS_Injection
<1>5. Cardinality(owned) \in Nat /\ Cardinality(others) \in Nat
  BY <1>3, <1>4, FS_CardinalityType
<1>6. Cardinality(Active) = pending /\ pending \in 0..MaxPending
  BY DEF IInv, PendingExact, TypeOK
<1>7. Cardinality(owned) < MaxPending
  BY <1>3, <1>4, <1>5, <1>6, LimitsAssumption
<1> QED
  BY <1>7 DEF owned

LEMMA SendMapped ==
    ASSUME IInv, StraysHold, NEW c \in Calls, Send(c)
    PROVE  Owned!Begin(c)
<1>1. PICK a \in Attempts :
          /\ query[a] = "free"
          /\ query' = [query EXCEPT ![a] = "travelling"]
          /\ attempt' = [attempt EXCEPT ![c] = a]
          /\ unkilled' = unkilled
  BY DEF Send
<1>2. c \in Active /\ attempt[c] = None
  BY DEF Send, Active, IInv, CallsHold
<1>3. a \in Attempts \ Underway /\ Underway' = Underway \cup {a}
  BY <1>1 DEF Underway, IInv, TypeOK
<1>4. Owned!Holders(a) = {}
  <2>1. \A d \in Calls : attempt[d] # a
    BY <1>1, NoneAssumption DEF IInv, CallsHold, AttemptsHold
  <2> QED
    BY <2>1 DEF Owned!Holders
<1>5. Owned!Cardinality(Underway \ unkilled) < MaxPending
  BY <1>2, PlaceLeft, OwnedCardinality
<1> QED
  BY <1>1, <1>2, <1>3, <1>4, <1>5 DEF Owned!Begin

\* A call that returns, or retries, without its attempt: the query has ended, is killed
\* or becomes a stray.
LEMMA LeaveMapped ==
    ASSUME IInv, StraysHold, NEW c \in Calls, place[c] \in {"sending", "killing"},
           attempt' = [attempt EXCEPT ![c] = None],
           Forget(attempt[c]) \/ Abandon(attempt[c])
    PROVE  Owned!Next
<1>1. attempt[c] # None
  BY NoneAssumption DEF IInv, CallsHold
<1>2. PICK a \in Attempts : a = attempt[c] /\ owner[a] = c /\ Owned!Holders(a) = {c}
  BY <1>1, OnlyHolder
<1>3. a \notin unkilled
  BY <1>2, NoneAssumption DEF StraysHold
<1>4. CASE Forget(a)
  <2>1. Underway' = Underway \ {a} /\ unkilled' = unkilled
    BY <1>3, <1>4 DEF Forget, Underway, IInv, TypeOK
  <2>2. CASE a \in Underway
    <3>1. Owned!Stop(c)
      BY <1>2, <2>1, <2>2 DEF Owned!Stop
    <3> QED
      BY <3>1 DEF Owned!Next
  <2>3. CASE a \notin Underway
    <3>1. Owned!Leave(c)
      BY <1>1, <1>2, <2>1, <2>3 DEF Owned!Leave
    <3> QED
      BY <3>1 DEF Owned!Next
  <2> QED
    BY <2>2, <2>3
<1>5. CASE Abandon(a) /\ ~Forget(a)
  <2>1. a \in Underway /\ Underway' = Underway /\ unkilled' = unkilled \cup {a}
    BY <1>5 DEF Abandon, Underway
  <2>2. Owned!Lose(c)
    BY <1>2, <2>1 DEF Owned!Lose
  <2> QED
    BY <2>2 DEF Owned!Next
<1> QED
  BY <1>2, <1>4, <1>5

LEMMA EndMapped ==
    ASSUME IInv, StraysHold, NEW a \in Attempts, RefuseQuery(a) \/ EndQuery(a)
    PROVE  Owned!Next
<1>1. PICK what \in {"busy", "ok", "error"} : Answer(a, what)
  BY DEF RefuseQuery, EndQuery
<1>2. a \in Underway /\ attempt' = attempt
  BY DEF RefuseQuery, EndQuery, Underway, callVars
<1>3. Underway' = Underway \ {a} /\ unkilled' = unkilled \ {a}
  <2>1. Listened(a) => owner[a] # None
    BY NoneAssumption DEF Listened, IInv, CallsHold
  <2>2. CASE ~Listened(a) /\ owner[a] = None
    BY <1>1, <2>2 DEF Answer, Forget, Underway, IInv, TypeOK
  <2>3. CASE Listened(a) \/ owner[a] # None
    <3>1. /\ \E how \in {"busy", "ok", "error"} : query' = [query EXCEPT ![a] = how]
          /\ unkilled' = unkilled /\ a \notin unkilled
      BY <1>1, <2>1, <2>3 DEF Answer, StraysHold
    <3> QED
      BY <3>1 DEF Underway, IInv, TypeOK
  <2> QED
    BY <2>2, <2>3
<1>4. Owned!End(a)
  BY <1>2, <1>3 DEF Owned!End
<1> QED
  BY <1>4 DEF Owned!Next

LEMMA StepMapped == IInv /\ StraysHold /\ [Next]_vars => [Owned!Next]_(Owned!vars)
<1> SUFFICES ASSUME IInv, StraysHold, [Next]_vars PROVE [Owned!Next]_(Owned!vars)
  OBVIOUS
<1>1. ASSUME UNCHANGED <<attempt, query, unkilled>> PROVE UNCHANGED Owned!vars
  BY <1>1 DEF Owned!vars, Underway
<1>2. ASSUME NEW a \in Attempts, RunQuery(a) PROVE UNCHANGED Owned!vars
  <2>1. attempt' = attempt /\ unkilled' = unkilled /\ Underway' = Underway
    BY <1>2 DEF RunQuery, callVars, Underway, IInv, TypeOK
  <2> QED
    BY <2>1 DEF Owned!vars
<1>3. ASSUME NEW a \in Attempts, RefuseQuery(a) \/ EndQuery(a) PROVE Owned!Next
  BY <1>3, EndMapped
<1>4. ASSUME NEW c \in Calls, Send(c) PROVE Owned!Next
  BY <1>4, SendMapped DEF Owned!Next
<1>5. ASSUME NEW c \in Calls, Receive(c) \/ Refused(c) \/ Kill(c) \/ KillFails(c)
      PROVE  Owned!Next
  BY <1>5, LeaveMapped DEF Receive, Refused, Kill, KillFails, Return
<1>6. ASSUME NEW c \in Calls, Call(c) \/ Wake(c) \/ TooLarge(c) \/ TransportFails(c) \/ AttemptTimesOut(c)
      PROVE  UNCHANGED <<attempt, query, unkilled>>
  BY <1>6 DEF Call, Enter, Wake, TooLarge, TransportFails, AttemptTimesOut, GiveUp, queryVars
<1>7. ASSUME NEW c \in Calls, SelectFails(c) \/ Expire(c) \/ Cancel(c)
      PROVE  UNCHANGED <<attempt, query, unkilled>>
  <2>1. place[c] \in {"selecting", "sleeping"} => attempt[c] = None
    BY DEF IInv, CallsHold
  <2> QED
    BY <1>7, <2>1 DEF SelectFails, Expire, Cancel, Interrupt, GiveUp, Return, queryVars, IInv, TypeOK
<1>8. CASE Tick \/ UNCHANGED vars
  BY <1>1, <1>8 DEF Tick, vars, callVars, queryVars
<1> QED
  BY <1>1, <1>2, <1>3, <1>4, <1>5, <1>6, <1>7, <1>8 DEF Next

\* Whatever calls, replicas and timers do is what owned work may do: a call leaves its
\* query when it has ended or has been killed, or leaves a stray behind a kill that
\* failed or came first; the queue bounds the rest.
THEOREM QueriesAreOwnedWork == Spec => ImplementsOwnedWork
<1>1. Init => Owned!Init
  BY DEF Init, Owned!Init, Underway
<1> QED
  BY <1>1, StepMapped, Invariant, AlwaysStrays, PTL DEF Spec, ImplementsOwnedWork, Owned!Spec

\* Work that is owned starts in a place that is left, and gives it back by ending, by
\* being stopped or by becoming a stray: this alone bounds it.
OwnedAreBounded ==
    IsFiniteSet(Underway \ unkilled) /\ Cardinality(Underway \ unkilled) <= MaxPending

LEMMA OwnedStep == OwnedAreBounded /\ [Owned!Next]_(Owned!vars) => OwnedAreBounded'
<1> DEFINE owned == Underway \ unkilled
<1> SUFFICES ASSUME OwnedAreBounded, [Owned!Next]_(Owned!vars)
             PROVE  IsFiniteSet(owned') /\ Cardinality(owned') <= MaxPending
  BY DEF OwnedAreBounded
<1>1. IsFiniteSet(owned) /\ Cardinality(owned) \in Nat /\ Cardinality(owned) <= MaxPending
  BY FS_CardinalityType DEF OwnedAreBounded
<1>2. ASSUME owned' \subseteq owned PROVE IsFiniteSet(owned') /\ Cardinality(owned') <= MaxPending
  <2>1. IsFiniteSet(owned') /\ Cardinality(owned') <= Cardinality(owned)
    BY <1>1, <1>2, FS_Subset
  <2>2. Cardinality(owned') \in Nat
    BY <2>1, FS_CardinalityType
  <2> QED
    BY <1>1, <2>1, <2>2, LimitsAssumption
<1>3. ASSUME NEW c \in Calls, Owned!Begin(c)
      PROVE  IsFiniteSet(owned') /\ Cardinality(owned') <= MaxPending
  <2>1. PICK a \in Attempts : Underway' = Underway \cup {a}
    BY <1>3 DEF Owned!Begin
  <2>2. Cardinality(owned) < MaxPending /\ unkilled' = unkilled
    BY <1>3, OwnedCardinality DEF Owned!Begin
  <2> HIDE DEF owned
  <2>3. CASE a \in owned
    <3>1. owned' \subseteq owned
      BY <2>1, <2>2, <2>3 DEF owned
    <3> QED
      BY <1>2, <3>1
  <2>4. CASE a \notin owned
    <3>1. /\ IsFiniteSet(owned \cup {a})
          /\ Cardinality(owned \cup {a}) = Cardinality(owned) + 1
      BY <1>1, <2>4, FS_AddElement
    <3>2. Cardinality(owned \cup {a}) <= MaxPending
      BY <1>1, <2>2, <3>1, LimitsAssumption
    <3>3. owned' = owned \/ owned' = owned \cup {a}
      BY <2>1, <2>2, <2>4 DEF owned
    <3> QED
      BY <1>1, <3>1, <3>2, <3>3
  <2> QED
    BY <2>3, <2>4
<1>4. ASSUME NEW c \in Calls, Owned!Join(c) \/ Owned!Leave(c) \/ Owned!Stop(c) \/ Owned!Lose(c)
      PROVE  owned' \subseteq owned
  BY <1>4 DEF Owned!Join, Owned!Leave, Owned!Stop, Owned!Lose
<1>5. ASSUME NEW a \in Attempts, Owned!End(a) PROVE owned' \subseteq owned
  BY <1>5 DEF Owned!End
<1>6. CASE UNCHANGED Owned!vars
  BY <1>2, <1>6 DEF Owned!vars
<1> QED
  BY <1>2, <1>3, <1>4, <1>5, <1>6 DEF Owned!Next

\* max_pending_queries bounds more than the queue: no more queries than that are on
\* the replicas or on their way, but for those whose kill failed or came first,
\* however calls are refused, time out and are cancelled.  It follows from the
\* promise of owned work alone.
THEOREM QueriesAreBounded == Spec => [](Cardinality(Underway \ unkilled) <= MaxPending)
<1>1. Owned!Init => OwnedAreBounded
  BY FS_EmptySet, LimitsAssumption DEF Owned!Init, OwnedAreBounded
<1>2. OwnedAreBounded => Cardinality(Underway \ unkilled) <= MaxPending
  BY DEF OwnedAreBounded
<1> QED
  BY <1>1, <1>2, OwnedStep, QueriesAreOwnedWork, PTL DEF ImplementsOwnedWork, Owned!Spec
=============================================================================

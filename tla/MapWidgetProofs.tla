-------------------------- MODULE MapWidgetProofs --------------------------
(***************************************************************************)
(* Proofs about the map widget: its hook keeps its types, shows the latest *)
(* map only and refreshes every result by one call at a time; the widget   *)
(* implements the hook, so that the same holds of it, and a layer waits    *)
(* for a renewal only while its call is under way.                         *)
(***************************************************************************)
EXTENDS MapWidget, TLAPS

-----------------------------------------------------------------------------
(* The invariants.                                                         *)

\* The call that renewals join is the one of the current result, if any.
CallsExact ==
    /\ \A c \in calls : c.sequence <= sequence /\ (c.sequence = sequence => refreshing = c)
    /\ refreshing # None => refreshing \in calls
    /\ OneRefreshPerResult

\* OnlyLatestMap, and that what is being prepared can have its tokens renewed.
MapExact ==
    /\ OnlyLatestMap
    /\ ~gone => (preparation # None => renewal # None)

SessionInv == SessionTypeOK /\ CallsExact /\ MapExact

-----------------------------------------------------------------------------
(* Layers.                                                                 *)

\* The layers of an answer are layers.
LEMMA ResultType ==
    ASSUME NEW m \in Maps, NEW n \in Nat, NEW open \in SUBSET Queries(m)
    PROVE  Result(m, n, open) \in Layers
<1>1. KindOf[m] \in Seq({"query", "tiles"})
    BY MapAssumption
<1>2. PICK k \in Nat : DOMAIN KindOf[m] = 1..k
    BY <1>1
<1>3. \A i \in 1..k : KindOf[m][i] \in {"query", "tiles"}
    BY <1>1, <1>2
<1>4. \A i \in 1..k :
        [kind |-> IF i \in open THEN "preparing" ELSE KindOf[m][i],
         map |-> m, pos |-> i,
         issue |-> IF i \in Queries(m) \ open THEN n ELSE 0] \in Layer
    BY <1>3 DEF Layer
<1>5. /\ Result(m, n, open) \in [1..k -> Layer]
      /\ \A i \in 1..k : Result(m, n, open)[i].pos = i
    BY <1>2, <1>4 DEF Result
<1> QED BY <1>5 DEF Layers

\* Replacing a layer of a list leaves a list of layers.
LEMMA ReplaceType ==
    ASSUME NEW s \in Layers, NEW l \in Layer, NEW i, l.pos = i
    PROVE  [s EXCEPT ![i] = l] \in Layers
<1>1. PICK k \in Nat : s \in [1..k -> Layer]
    BY DEF Layers
<1>2. \A j \in 1..k : s[j].pos = j
    BY <1>1 DEF Layers
<1>3. [s EXCEPT ![i] = l] \in [1..k -> Layer]
    BY <1>1
<1>4. \A j \in 1..k : [s EXCEPT ![i] = l][j].pos = j
    BY <1>1, <1>2
<1> QED BY <1>3, <1>4 DEF Layers

LEMMA QueriesAreNumbers ==
    ASSUME NEW m \in Maps
    PROVE  Queries(m) \subseteq Nat
BY MapAssumption DEF Queries

-----------------------------------------------------------------------------
(* The calls in flight.                                                    *)

\* Whatever leaves the calls alone may start another result.
LEMMA CallsStay ==
    ASSUME SessionTypeOK, CallsExact, UNCHANGED callVars,
           sequence' \in {sequence, sequence + 1}
    PROVE  CallsExact'
<1>1. \A c \in calls : c.sequence \in Nat
    BY DEF SessionTypeOK, Call
<1> QED
    BY <1>1 DEF SessionTypeOK, CallsExact, OneRefreshPerResult, callVars

\* A call is started for the current result only when none is in flight for it.
LEMMA CallsStart ==
    ASSUME SessionTypeOK, CallsExact, NEW m \in Maps, StartOrJoin(m, sequence'),
           sequence' \in {sequence, sequence + 1}
    PROVE  /\ CallsExact'
           /\ started' \in Nat /\ calls' \subseteq Call
           /\ refreshing' = None \/ refreshing' \in Call
           /\ refreshing' # None /\ refreshing'.sequence = sequence'
           /\ calls \subseteq calls'
<1>1. /\ \A c \in calls : c \in Call /\ c.sequence \in Nat
      /\ sequence \in Nat /\ started \in Nat
      /\ refreshing = None \/ refreshing \in Call
    BY DEF SessionTypeOK, Call
<1>2. CASE refreshing # None /\ refreshing.sequence = sequence'
    <2>1. UNCHANGED callVars
        BY <1>2 DEF StartOrJoin
    <2>2. CallsExact'
        BY <2>1, CallsStay
    <2> QED BY <2>1, <2>2, <1>1, <1>2 DEF callVars, SessionTypeOK
<1>3. CASE ~(refreshing # None /\ refreshing.sequence = sequence')
    <2> DEFINE r == [id |-> started + 1, sequence |-> sequence', map |-> m]
    <2>1. started' = started + 1 /\ refreshing' = r /\ calls' = calls \cup {r}
        BY <1>3 DEF StartOrJoin
    <2>2. r \in Call /\ r.sequence = sequence'
        BY <1>1 DEF Call
    <2>3. \A c \in calls : c.sequence # sequence' /\ c.sequence <= sequence'
        <3> SUFFICES ASSUME NEW c \in calls
                     PROVE  c.sequence # sequence' /\ c.sequence <= sequence'
            OBVIOUS
        <3>1. c.sequence \in Nat /\ c.sequence <= sequence
            BY <1>1 DEF CallsExact
        <3>2. c # None
            BY <1>1, NoneAssumption
        <3>3. c.sequence = sequence => refreshing = c
            BY DEF CallsExact
        <3> QED BY <3>1, <3>2, <3>3, <1>1, <1>3
    <2>4. OneRefreshPerResult'
        BY <2>1, <2>2, <2>3 DEF OneRefreshPerResult, CallsExact
    <2>5. \A c \in calls' : c.sequence <= sequence' /\ (c.sequence = sequence' => refreshing' = c)
        <3> HIDE DEF r
        <3>1. r.sequence <= sequence'
            BY <2>2, <1>1
        <3> QED BY <2>1, <2>2, <2>3, <3>1
    <2>6. refreshing' # None /\ refreshing' \in calls' /\ refreshing' \in Call
        BY <2>1, <2>2, NoneAssumption
    <2>7. calls' \subseteq Call
        BY <2>1, <2>2, <1>1
    <2> QED BY <2>1, <2>2, <2>4, <2>5, <2>6, <2>7, <1>1 DEF CallsExact
<1> QED BY <1>2, <1>3

\* The end of a call takes it from what can be joined, and nothing else.
LEMMA CallsEnded ==
    ASSUME SessionTypeOK, CallsExact, NEW c, EndsCall(c), UNCHANGED sequence
    PROVE  /\ CallsExact'
           /\ started' \in Nat /\ calls' \subseteq Call
           /\ refreshing' = None \/ refreshing' \in Call
           /\ c \in Call /\ calls' = calls \ {c}
BY DEF SessionTypeOK, CallsExact, EndsCall, OneRefreshPerResult

-----------------------------------------------------------------------------
(* The map that is shown.                                                  *)

\* A map with its layers is what can be shown.
LEMMA ShowType ==
    ASSUME NEW seq \in Nat, NEW m \in Maps, NEW layers \in Layers, Show(seq, m, layers)
    PROVE  config' \in Shown /\ config'.sequence = seq /\ failed' = FALSE
BY DEF Show, Shown

\* Both ways of accepting a result of the current sequence.
LEMMA AcceptOpenEffect ==
    ASSUME NEW seq \in Nat, NEW m \in Maps, NEW layers \in Layers,
           NEW open \in SUBSET Nat, AcceptOpen(m, layers, open, seq), sequence' = seq
    PROVE  /\ config' \in Shown /\ failed' = FALSE
           /\ renewal' \in Renewable
           /\ preparation' \in Preparation
           /\ MapExact'
<1>1. config' \in Shown /\ config'.sequence = seq /\ failed' = FALSE
    BY ShowType DEF AcceptOpen
<1>2. renewal' \in Renewable /\ renewal'.sequence = seq
    BY DEF AcceptOpen, Renewable
<1>3. /\ preparation' \in Preparation
      /\ preparation'.sequence = seq
    BY DEF AcceptOpen, Preparation
<1>4. renewal' # None
    BY <1>2, NoneAssumption
<1> QED BY <1>1, <1>2, <1>3, <1>4 DEF MapExact, OnlyLatestMap

LEMMA AcceptReadyEffect ==
    ASSUME NEW seq \in Nat, NEW m \in Maps, NEW layers \in Layers,
           AcceptReady(m, layers, seq), sequence' = seq,
           preparation' # None => preparation'.sequence = seq
    PROVE  /\ config' \in Shown /\ failed' = FALSE
           /\ renewal' \in Renewable
           /\ MapExact'
<1>1. config' \in Shown /\ config'.sequence = seq /\ failed' = FALSE
    BY ShowType DEF AcceptReady
<1>2. renewal' \in Renewable /\ renewal'.sequence = seq
    BY DEF AcceptReady, Renewable
<1>3. renewal' # None
    BY <1>2, NoneAssumption
<1> QED BY <1>1, <1>2, <1>3 DEF MapExact, OnlyLatestMap

\* After a failure there is no map and nothing that could bring one back.
LEMMA FailMapEffect ==
    ASSUME FailMap
    PROVE  /\ config' = None /\ failed' = TRUE /\ renewal' = None /\ preparation' = None
           /\ MapExact'
BY DEF FailMap, MapExact, OnlyLatestMap

\* A result that arrives with expired tokens leaves the older map until the
\* call that renews them is answered.
LEMMA ExpiredResultEffect ==
    ASSUME SessionTypeOK, CallsExact, MapExact, NEW m \in Maps, ~gone,
           sequence' = sequence + 1, StartOrJoin(m, sequence'),
           renewal' = [sequence |-> sequence', map |-> m], preparation' = None,
           UNCHANGED <<config, failed>>
    PROVE  renewal' \in Renewable /\ MapExact'
<1>1. /\ CallsExact'
      /\ refreshing' # None /\ refreshing'.sequence = sequence'
    BY CallsStart
<1>2. \E c \in calls' : c.sequence = sequence'
    BY <1>1 DEF CallsExact
<1>3. renewal' \in Renewable /\ renewal'.sequence = sequence'
    BY DEF Renewable, SessionTypeOK
<1>4. renewal' # None
    BY <1>3, NoneAssumption
<1> QED BY <1>2, <1>3, <1>4 DEF MapExact, OnlyLatestMap

\* A step that changes no map and takes no call of the current result away.
LEMMA MapStays ==
    ASSUME MapExact, UNCHANGED <<sequence, config, failed, renewal, preparation, gone>>,
           \A c \in calls : c.sequence = sequence => c \in calls'
    PROVE  MapExact'
BY DEF MapExact, OnlyLatestMap

\* A layer that has been prepared is shown at its place.
LEMMA ReplaceEffect ==
    ASSUME SessionTypeOK, CallsExact, MapExact, NEW i \in Nat, NEW layer \in Layer,
           layer.pos = i, Replace(i, layer)
    PROVE  /\ config' \in Shown /\ failed' = FALSE
           /\ preparation' \in Preparation
           /\ CallsExact' /\ MapExact'
           /\ UNCHANGED <<sequence, renewal, callVars, gone, events>>
<1>1. /\ preparation # None /\ preparation \in Preparation /\ preparation.sequence = sequence
      /\ UNCHANGED <<sequence, renewal, callVars, gone, events>>
    BY DEF Replace, SessionTypeOK
<1>2. PICK ls : ls = [preparation.layers EXCEPT ![i] = layer]
    OBVIOUS
<1>3. ls \in Layers
    BY <1>1, <1>2, ReplaceType DEF Preparation
<1>4. /\ preparation' = [preparation EXCEPT !.layers = ls, !.waiting = @ \ {i}]
      /\ Show(preparation.sequence, preparation.map, ls)
    BY <1>2 DEF Replace
<1>5. preparation' \in Preparation /\ preparation'.sequence = sequence
    BY <1>1, <1>3, <1>4 DEF Preparation
<1>6. config' \in Shown /\ config'.sequence = sequence /\ failed' = FALSE
    <2>1. preparation.sequence \in Nat /\ preparation.map \in Maps
        BY <1>1 DEF Preparation
    <2> QED BY <2>1, <1>1, <1>3, <1>4, ShowType
<1>7. CallsExact'
    BY <1>1, CallsStay
<1>8. MapExact'
    BY <1>1, <1>5, <1>6 DEF MapExact, OnlyLatestMap
<1> QED BY <1>1, <1>5, <1>6, <1>7, <1>8

-----------------------------------------------------------------------------
(* The steps of the hook.                                                  *)

LEMMA ToolResultStep ==
    ASSUME SessionInv, NEW m \in Maps, NEW open \in SUBSET Queries(m),
           NEW saved \in BOOLEAN, ToolResult(m, open, saved)
    PROVE  SessionInv'
<1> DEFINE layers == Result(m, issued + 1, open)
           dead == IF saved THEN expired \cup {issued + 1} ELSE expired
<1>1. /\ ~gone /\ sequence' = sequence + 1 /\ issued' = issued + 1
      /\ expired' = dead /\ UNCHANGED <<gone, events>>
    BY DEF ToolResult, Message
<1>2. /\ sequence \in Nat /\ sequence' \in Nat /\ issued' \in Nat /\ expired' \subseteq Nat
      /\ gone' \in BOOLEAN /\ events' \in 0..MaxEvents
    BY <1>1 DEF SessionInv, SessionTypeOK
<1>3. PICK ls : ls = layers
    OBVIOUS
<1>4. ls \in Layers
    <2>1. issued + 1 \in Nat
        BY DEF SessionInv, SessionTypeOK
    <2> QED BY <2>1, <1>3, ResultType
<1>5. open \in SUBSET Nat
    BY QueriesAreNumbers
<1>6. CASE open # {}
    <2>1. AcceptOpen(m, ls, open, sequence') /\ UNCHANGED callVars
        BY <1>3, <1>6 DEF ToolResult
    <2>2. /\ config' \in Shown /\ failed' = FALSE /\ renewal' \in Renewable
          /\ preparation' \in Preparation
          /\ MapExact'
        BY <2>1, <1>2, <1>4, <1>5, AcceptOpenEffect
    <2>3. CallsExact'
        BY <2>1, <1>1, CallsStay DEF SessionInv
    <2>4. SessionTypeOK'
        BY <2>1, <2>2, <1>2 DEF SessionInv, SessionTypeOK, callVars
    <2> QED BY <2>2, <2>3, <2>4 DEF SessionInv
<1>7. CASE /\ open = {} /\ preparation' = None
           /\ renewal' = [sequence |-> sequence', map |-> m]
           /\ StartOrJoin(m, sequence')
           /\ UNCHANGED <<config, failed>>
    <2>1. renewal' \in Renewable /\ MapExact'
        BY <1>1, <1>7, ExpiredResultEffect DEF SessionInv
    <2>2. /\ CallsExact' /\ started' \in Nat /\ calls' \subseteq Call
          /\ refreshing' = None \/ refreshing' \in Call
        BY <1>1, <1>7, CallsStart DEF SessionInv
    <2>3. SessionTypeOK'
        BY <2>1, <2>2, <1>2, <1>7 DEF SessionInv, SessionTypeOK
    <2> QED BY <2>1, <2>2, <2>3 DEF SessionInv
<1>8. CASE /\ open = {} /\ preparation' = None
           /\ AcceptReady(m, ls, sequence') /\ UNCHANGED callVars
    <2>1. /\ config' \in Shown /\ failed' = FALSE /\ renewal' \in Renewable
          /\ MapExact'
        BY <1>2, <1>4, <1>8, AcceptReadyEffect
    <2>2. CallsExact'
        BY <1>1, <1>8, CallsStay DEF SessionInv
    <2>3. SessionTypeOK'
        BY <2>1, <1>2, <1>8 DEF SessionInv, SessionTypeOK, callVars
    <2> QED BY <2>1, <2>2, <2>3 DEF SessionInv
<1> QED BY <1>3, <1>6, <1>7, <1>8 DEF ToolResult

LEMMA ToolFailsStep ==
    ASSUME SessionInv, ToolFails
    PROVE  SessionInv'
<1>1. /\ sequence' = sequence + 1 /\ FailMap
      /\ UNCHANGED <<callVars, tokenVars, gone, events>>
    BY DEF ToolFails, Message
<1>2. /\ config' = None /\ failed' = TRUE /\ renewal' = None /\ preparation' = None
      /\ MapExact'
    BY <1>1, FailMapEffect
<1>3. CallsExact'
    BY <1>1, CallsStay DEF SessionInv
<1>4. SessionTypeOK'
    BY <1>1, <1>2 DEF SessionInv, SessionTypeOK, callVars, tokenVars
<1> QED BY <1>2, <1>3, <1>4 DEF SessionInv

LEMMA TeardownStep ==
    ASSUME SessionInv, Teardown
    PROVE  SessionInv'
<1>1. CallsExact'
    BY CallsStay DEF SessionInv, Teardown
<1>2. MapExact'
    BY DEF MapExact, OnlyLatestMap, Teardown
<1>3. SessionTypeOK'
    BY DEF SessionInv, SessionTypeOK, Teardown, callVars, tokenVars
<1> QED BY <1>1, <1>2, <1>3 DEF SessionInv

LEMMA RenewStep ==
    ASSUME SessionInv, NEW layer \in Layer, Renew(layer)
    PROVE  /\ SessionInv' /\ calls \subseteq calls'
           /\ Renews(layer) => refreshing' \in calls'
<1>1. UNCHANGED <<sequence, config, failed, renewal, preparation, tokenVars, gone, events>>
    BY DEF Renew
<1>2. CASE Renews(layer)
    <2>1. PICK m : m = renewal.map
        OBVIOUS
    <2>2. m \in Maps
        BY <2>1, <1>2 DEF Renews, SessionInv, SessionTypeOK, Renewable
    <2>3. StartOrJoin(m, sequence')
        BY <2>1, <1>1, <1>2 DEF Renew
    <2>4. /\ CallsExact' /\ started' \in Nat /\ calls' \subseteq Call
          /\ refreshing' = None \/ refreshing' \in Call
          /\ refreshing' # None /\ calls \subseteq calls'
        BY <2>2, <2>3, <1>1, CallsStart DEF SessionInv
    <2>5. MapExact'
        BY <2>4, <1>1, MapStays DEF SessionInv
    <2>6. SessionTypeOK'
        BY <2>4, <1>1 DEF SessionInv, SessionTypeOK, tokenVars
    <2> QED BY <2>4, <2>5, <2>6 DEF SessionInv, CallsExact
<1>3. CASE ~Renews(layer)
    <2>1. UNCHANGED callVars
        BY <1>3 DEF Renew
    <2>2. CallsExact'
        BY <2>1, <1>1, CallsStay DEF SessionInv
    <2>3. MapExact'
        BY <2>1, <1>1, MapStays DEF SessionInv, callVars
    <2>4. SessionTypeOK'
        BY <2>1, <1>1 DEF SessionInv, SessionTypeOK, tokenVars, callVars
    <2> QED BY <2>1, <2>2, <2>3, <2>4, <1>3 DEF SessionInv, callVars
<1> QED BY <1>2, <1>3

LEMMA RefreshIgnoredStep ==
    ASSUME SessionInv, NEW c \in calls, RefreshIgnored(c)
    PROVE  SessionInv'
<1>1. /\ EndsCall(c) /\ c.sequence # sequence
      /\ UNCHANGED <<sequence, config, failed, renewal, preparation, tokenVars, gone, events>>
    BY DEF RefreshIgnored, IsCurrent
<1>2. /\ CallsExact' /\ started' \in Nat /\ calls' \subseteq Call
      /\ refreshing' = None \/ refreshing' \in Call
      /\ calls' = calls \ {c}
    BY <1>1, CallsEnded DEF SessionInv
<1>3. MapExact'
    BY <1>1, <1>2, MapStays DEF SessionInv
<1>4. SessionTypeOK'
    BY <1>1, <1>2 DEF SessionInv, SessionTypeOK, tokenVars
<1> QED BY <1>2, <1>3, <1>4 DEF SessionInv

LEMMA RefreshAnsweredStep ==
    ASSUME SessionInv, NEW c \in calls, NEW open \in SUBSET Queries(c.map),
           RefreshAnswered(c, open)
    PROVE  SessionInv'
<1>1. /\ EndsCall(c) /\ c.sequence = sequence /\ issued' = issued + 1
      /\ UNCHANGED <<sequence, expired, gone, events>>
    BY DEF RefreshAnswered, IsCurrent
<1>2. /\ CallsExact' /\ started' \in Nat /\ calls' \subseteq Call
      /\ refreshing' = None \/ refreshing' \in Call
    BY <1>1, CallsEnded DEF SessionInv
<1>3. /\ sequence \in Nat /\ issued + 1 \in Nat /\ issued' \in Nat
      /\ expired' \subseteq Nat /\ gone' \in BOOLEAN /\ events' \in 0..MaxEvents
    BY <1>1 DEF SessionInv, SessionTypeOK
<1>4. PICK m : m = c.map
    OBVIOUS
<1>5. m \in Maps
    BY <1>4 DEF SessionInv, SessionTypeOK, Call
<1>6. PICK ls : ls = Result(m, issued + 1, open)
    OBVIOUS
<1>7. ls \in Layers
    BY <1>3, <1>4, <1>5, <1>6, ResultType
<1>8. open \in SUBSET Nat
    BY <1>4, <1>5, QueriesAreNumbers
<1>9. CASE AcceptOpen(m, ls, open, sequence)
    <2>1. /\ config' \in Shown /\ failed' = FALSE /\ renewal' \in Renewable
          /\ preparation' \in Preparation
          /\ MapExact'
        BY <1>1, <1>3, <1>5, <1>7, <1>8, <1>9, AcceptOpenEffect
    <2>2. SessionTypeOK'
        BY <2>1, <1>1, <1>2, <1>3 DEF SessionInv, SessionTypeOK
    <2> QED BY <2>1, <2>2, <1>2 DEF SessionInv
<1>10. CASE AcceptReady(m, ls, sequence) /\ UNCHANGED preparation
    <2>1. preparation' # None => preparation'.sequence = sequence \/ gone
        BY <1>10 DEF SessionInv, MapExact, OnlyLatestMap
    <2>2. config' \in Shown /\ config'.sequence = sequence /\ failed' = FALSE
        BY <1>3, <1>5, <1>7, <1>10, ShowType DEF AcceptReady
    <2>3. renewal' \in Renewable /\ renewal'.sequence = sequence
        BY <1>3, <1>5, <1>10 DEF AcceptReady, Renewable
    <2>4. renewal' # None
        BY <2>3, NoneAssumption
    <2>5. MapExact'
        BY <2>1, <2>2, <2>3, <2>4, <1>1 DEF MapExact, OnlyLatestMap
    <2>6. SessionTypeOK'
        BY <2>2, <2>3, <1>1, <1>2, <1>3, <1>10 DEF SessionInv, SessionTypeOK
    <2> QED BY <2>5, <2>6, <1>2 DEF SessionInv
<1> QED BY <1>1, <1>4, <1>6, <1>9, <1>10 DEF RefreshAnswered

LEMMA RefreshRefusedStep ==
    ASSUME SessionInv, NEW c \in calls, RefreshRefused(c)
    PROVE  SessionInv'
<1>1. /\ EndsCall(c) /\ FailMap /\ UNCHANGED <<sequence, tokenVars, gone, events>>
    BY DEF RefreshRefused
<1>2. /\ CallsExact' /\ started' \in Nat /\ calls' \subseteq Call
      /\ refreshing' = None \/ refreshing' \in Call
    BY <1>1, CallsEnded DEF SessionInv
<1>3. /\ config' = None /\ failed' = TRUE /\ renewal' = None /\ preparation' = None
      /\ MapExact'
    BY <1>1, FailMapEffect
<1>4. SessionTypeOK'
    BY <1>1, <1>2, <1>3 DEF SessionInv, SessionTypeOK, tokenVars
<1> QED BY <1>2, <1>3, <1>4 DEF SessionInv

LEMMA PreparationStep ==
    ASSUME SessionInv, PreparationEnds
    PROVE  SessionInv'
<1>1. PICK i \in Nat : LayerPrepared(i) \/ LayerFails(i)
    BY DEF PreparationEnds
<1>2. \E layer \in Layer : layer.pos = i /\ Replace(i, layer)
    <2>1. preparation.map \in Maps
        BY <1>1 DEF LayerPrepared, LayerFails, Replace, SessionInv, SessionTypeOK, Preparation
    <2>2. issued + 1 \in Nat
        BY DEF SessionInv, SessionTypeOK
    <2>3. /\ [kind |-> "query", map |-> preparation.map, pos |-> i, issue |-> issued + 1]
                \in Layer
          /\ [kind |-> "failed", map |-> preparation.map, pos |-> i, issue |-> 0] \in Layer
        BY <2>1, <2>2 DEF Layer
    <2> QED BY <1>1, <2>3 DEF LayerPrepared, LayerFails
<1>3. PICK layer \in Layer : layer.pos = i /\ Replace(i, layer)
    BY <1>2
<1>4. /\ config' \in Shown /\ failed' = FALSE
      /\ preparation' \in Preparation
      /\ CallsExact' /\ MapExact'
      /\ UNCHANGED <<sequence, renewal, callVars, gone, events>>
    BY <1>3, ReplaceEffect DEF SessionInv
<1>5. issued' \in Nat /\ expired' \subseteq Nat
    <2>1. (issued' = issued \/ issued' = issued + 1) /\ expired' = expired
        BY <1>1 DEF LayerPrepared, LayerFails, tokenVars
    <2>2. issued \in Nat /\ expired \subseteq Nat
        BY DEF SessionInv, SessionTypeOK
    <2> QED BY <2>1, <2>2
<1>6. SessionTypeOK'
    BY <1>4, <1>5 DEF SessionInv, SessionTypeOK, callVars
<1> QED BY <1>4, <1>6 DEF SessionInv

LEMMA OutsideStep ==
    ASSUME SessionInv, Trouble \/ \E n \in 1..issued : Expire(n)
    PROVE  SessionInv'
<1>1. /\ UNCHANGED <<sequence, config, failed, renewal, preparation, callVars, issued, gone>>
      /\ events' \in 0..MaxEvents /\ expired' \subseteq Nat
    <2>1. issued \in Nat /\ expired \subseteq Nat /\ events \in 0..MaxEvents
        BY DEF SessionInv, SessionTypeOK
    <2>2. events > 0 /\ events' = events - 1
        BY DEF Trouble, Expire, Event
    <2>3. events' \in 0..MaxEvents
        BY <2>1, <2>2, BoundAssumption
    <2>4. UNCHANGED <<sequence, config, failed, renewal, preparation, callVars, issued, gone>>
        BY DEF Trouble, Expire, tokenVars
    <2>5. expired' \subseteq Nat
        <3>1. CASE Trouble
            BY <3>1, <2>1 DEF Trouble, tokenVars
        <3>2. ASSUME NEW n \in 1..issued, Expire(n)
              PROVE  expired' \subseteq Nat
            BY <3>2, <2>1 DEF Expire
        <3> QED BY <3>1, <3>2
    <2> QED BY <2>3, <2>4, <2>5
<1>2. CallsExact'
    BY <1>1, CallsStay DEF SessionInv
<1>3. MapExact'
    BY <1>1, MapStays DEF SessionInv, callVars
<1>4. SessionTypeOK'
    BY <1>1 DEF SessionInv, SessionTypeOK, callVars
<1> QED BY <1>2, <1>3, <1>4 DEF SessionInv

LEMMA RefreshStep ==
    ASSUME SessionInv, NEW c \in calls, RefreshEnds(c)
    PROVE  SessionInv' /\ calls' = calls \ {c}
<1>1. SessionInv'
    BY RefreshIgnoredStep, RefreshAnsweredStep, RefreshRefusedStep DEF RefreshEnds
<1>2. calls' = calls \ {c}
    BY DEF RefreshEnds, RefreshIgnored, RefreshAnswered, RefreshRefused, EndsCall
<1> QED BY <1>1, <1>2

\* The invariant is inductive.
LEMMA SessionStep ==
    ASSUME SessionInv, [SessionNext]_sessionVars
    PROVE  SessionInv'
<1>1. ASSUME HostMessage
      PROVE  SessionInv'
    BY <1>1, ToolResultStep, ToolFailsStep DEF HostMessage
<1>2. CASE Teardown
    BY <1>2, TeardownStep
<1>3. ASSUME NEW layer \in Layer, Renew(layer)
      PROVE  SessionInv'
    BY <1>3, RenewStep
<1>4. ASSUME NEW c \in calls, RefreshEnds(c)
      PROVE  SessionInv'
    BY <1>4, RefreshStep
<1>5. CASE PreparationEnds
    BY <1>5, PreparationStep
<1>6. CASE Trouble \/ \E n \in 1..issued : Expire(n)
    BY <1>6, OutsideStep
<1>7. CASE UNCHANGED sessionVars
    <2>1. UNCHANGED <<sequence, config, failed, renewal, preparation, callVars,
                      tokenVars, gone, events>>
        BY <1>7 DEF sessionVars
    <2>2. CallsExact'
        BY <2>1, CallsStay DEF SessionInv
    <2>3. MapExact'
        BY <2>1, MapStays DEF SessionInv, callVars
    <2>4. SessionTypeOK'
        BY <2>1 DEF SessionInv, SessionTypeOK, callVars, tokenVars
    <2> QED BY <2>2, <2>3, <2>4 DEF SessionInv
<1> QED BY <1>1, <1>2, <1>3, <1>4, <1>5, <1>6, <1>7 DEF SessionNext

LEMMA SessionStart ==
    ASSUME SessionInit
    PROVE  SessionInv
<1>1. SessionTypeOK
    <2>1. events \in 0..MaxEvents
        BY BoundAssumption DEF SessionInit
    <2>2. calls \subseteq Call /\ expired \subseteq Nat
        BY DEF SessionInit
    <2>3. sequence \in Nat /\ started \in Nat /\ issued \in Nat
        BY DEF SessionInit
    <2> QED BY <2>1, <2>2, <2>3 DEF SessionInit, SessionTypeOK
<1>2. CallsExact
    BY DEF SessionInit, CallsExact, OneRefreshPerResult
<1>3. MapExact
    BY DEF SessionInit, MapExact, OnlyLatestMap
<1> QED BY <1>1, <1>2, <1>3 DEF SessionInv

LEMMA SessionInvariant == SessionSpec => []SessionInv
<1>1. SessionInit => SessionInv
    BY SessionStart
<1>2. SessionInv /\ [SessionNext]_sessionVars => SessionInv'
    BY SessionStep
<1> QED BY <1>1, <1>2, PTL DEF SessionSpec

\* The variables of the hook keep their types through every order of results,
\* failures, renewals, preparations and the teardown.
THEOREM SessionTypeCorrect == SessionSpec => []SessionTypeOK
<1>1. SessionInv => SessionTypeOK
    BY DEF SessionInv
<1> QED BY <1>1, SessionInvariant, PTL

-----------------------------------------------------------------------------
(* Layers that wait to be prepared.                                        *)

\* A layer that is being prepared has a call of prepare_map_layer that will replace
\* it, or a renewal under way that will replace the whole map.
Prepares ==
    preparation # None =>
        /\ preparation.waiting \subseteq DOMAIN preparation.layers
        /\ \A i \in DOMAIN preparation.layers :
            preparation.layers[i].kind = "preparing" => i \in preparation.waiting

LayersPrepared ==
    /\ Prepares
    /\ (~gone /\ config # None) =>
        \A i \in DOMAIN config.layers :
            config.layers[i].kind = "preparing" =>
                \/ preparation # None /\ i \in preparation.waiting
                \/ \E c \in calls : c.sequence = sequence

\* Of an answer, just the layers that are left open are to be prepared.
LEMMA ResultOpen ==
    ASSUME NEW m \in Maps, NEW n, NEW open \in SUBSET Queries(m)
    PROVE  /\ DOMAIN Result(m, n, open) = DOMAIN KindOf[m]
           /\ open \subseteq DOMAIN KindOf[m]
           /\ \A i \in DOMAIN KindOf[m] :
                Result(m, n, open)[i].kind = "preparing" => i \in open
<1>1. \A i \in DOMAIN KindOf[m] : KindOf[m][i] \in {"query", "tiles"}
    BY MapAssumption
<1> QED BY <1>1 DEF Result, Queries

\* What shows the layers of the preparation, or none to prepare, is in order.
LEMMA OpenPrepared ==
    ASSUME NEW m \in Maps, NEW n \in Nat, NEW open \in SUBSET Queries(m), NEW seq \in Nat,
           AcceptOpen(m, Result(m, n, open), open, seq)
    PROVE  LayersPrepared'
<1>1. PICK layers : layers = Result(m, n, open)
    OBVIOUS
<1>2. /\ preparation' = [sequence |-> seq, map |-> m, layers |-> layers, waiting |-> open]
      /\ config' = [sequence |-> seq, map |-> m, layers |-> layers]
    BY <1>1 DEF AcceptOpen, Show
<1>3. /\ open \subseteq DOMAIN layers
      /\ \A i \in DOMAIN layers : layers[i].kind = "preparing" => i \in open
    BY <1>1, ResultOpen
<1>4. preparation'.waiting = open /\ preparation'.layers = layers /\ config'.layers = layers
    BY <1>2
<1>5. preparation' # None
    <2>1. layers \in Layers /\ open \in SUBSET Nat
        BY <1>1, ResultType, QueriesAreNumbers
    <2>2. preparation' \in Preparation
        BY <1>2, <2>1 DEF Preparation
    <2> QED BY <2>2, NoneAssumption
<1> QED BY <1>3, <1>4, <1>5 DEF LayersPrepared, Prepares

LEMMA ReadyPrepared ==
    ASSUME NEW m \in Maps, NEW n, NEW seq, AcceptReady(m, Result(m, n, {}), seq), Prepares'
    PROVE  LayersPrepared'
<1>1. config'.layers = Result(m, n, {})
    BY DEF AcceptReady, Show
<1>2. \A i \in DOMAIN Result(m, n, {}) : Result(m, n, {})[i].kind # "preparing"
    BY ResultOpen
<1> QED BY <1>1, <1>2 DEF LayersPrepared

LEMMA PreparedStays ==
    ASSUME LayersPrepared, UNCHANGED <<sequence, config, preparation, gone>>,
           \A c \in calls : c.sequence = sequence => c \in calls'
    PROVE  LayersPrepared'
BY DEF LayersPrepared, Prepares

\* A layer that is replaced leaves the others waiting.
LEMMA ReplacePrepared ==
    ASSUME SessionInv, LayersPrepared, NEW i \in Nat, NEW layer \in Layer,
           layer.pos = i, layer.kind # "preparing", Replace(i, layer)
    PROVE  LayersPrepared'
<1>1. /\ preparation # None /\ preparation \in Preparation /\ i \in DOMAIN preparation.layers
      /\ preparation' # None
    BY ReplaceEffect, NoneAssumption DEF Replace, SessionInv, SessionTypeOK
<1>2. PICK ls : ls = [preparation.layers EXCEPT ![i] = layer]
    OBVIOUS
<1>3. /\ preparation' = [preparation EXCEPT !.layers = ls, !.waiting = @ \ {i}]
      /\ config' = [sequence |-> preparation.sequence, map |-> preparation.map, layers |-> ls]
    BY <1>2 DEF Replace, Show
<1>4. /\ preparation'.layers = ls /\ preparation'.waiting = preparation.waiting \ {i}
      /\ config'.layers = ls
    BY <1>1, <1>3 DEF Preparation
<1>5. DOMAIN ls = DOMAIN preparation.layers /\ ls[i] = layer
      /\ \A j \in DOMAIN ls \ {i} : ls[j] = preparation.layers[j]
    BY <1>1, <1>2
<1>6. /\ preparation.waiting \ {i} \subseteq DOMAIN ls
      /\ \A j \in DOMAIN ls : ls[j].kind = "preparing" => j \in preparation.waiting \ {i}
    BY <1>1, <1>5 DEF LayersPrepared, Prepares
<1> QED BY <1>1, <1>4, <1>6 DEF LayersPrepared, Prepares

LEMMA AnswerPrepares ==
    ASSUME SessionInv, LayersPrepared, NEW c \in calls, RefreshEnds(c)
    PROVE  LayersPrepared'
<1>1. c \in Call /\ c.map \in Maps /\ c.sequence \in Nat /\ issued + 1 \in Nat
    BY DEF SessionInv, SessionTypeOK, Call
<1>2. CASE RefreshIgnored(c)
    <2>1. /\ UNCHANGED <<sequence, config, preparation, gone>>
          /\ \A d \in calls : d.sequence = sequence => d \in calls'
        BY <1>2 DEF RefreshIgnored, EndsCall, IsCurrent
    <2> QED BY <2>1, PreparedStays
<1>3. ASSUME NEW open \in SUBSET Queries(c.map), RefreshAnswered(c, open)
      PROVE  LayersPrepared'
    <2>1. \/ AcceptOpen(c.map, Result(c.map, issued + 1, open), open, c.sequence)
          \/ /\ AcceptReady(c.map, Result(c.map, issued + 1, {}), c.sequence)
             /\ UNCHANGED preparation
        BY <1>3 DEF RefreshAnswered
    <2>2. UNCHANGED preparation => Prepares'
        BY DEF LayersPrepared, Prepares
    <2> QED BY <1>1, <2>1, <2>2, OpenPrepared, ReadyPrepared
<1>4. CASE RefreshRefused(c)
    BY <1>4 DEF RefreshRefused, FailMap, LayersPrepared, Prepares
<1> QED BY <1>2, <1>3, <1>4 DEF RefreshEnds

LEMMA ResultPrepares ==
    ASSUME SessionInv, LayersPrepared, NEW m \in Maps, NEW open \in SUBSET Queries(m),
           NEW saved \in BOOLEAN, ToolResult(m, open, saved)
    PROVE  LayersPrepared'
<1>1. sequence' \in Nat /\ issued + 1 \in Nat /\ sequence' = sequence + 1 /\ ~gone
    BY DEF ToolResult, Message, SessionInv, SessionTypeOK
<1>2. CASE AcceptOpen(m, Result(m, issued + 1, open), open, sequence')
    BY <1>1, <1>2, OpenPrepared
<1>3. CASE /\ open = {} /\ preparation' = None
           /\ AcceptReady(m, Result(m, issued + 1, open), sequence')
    BY <1>1, <1>3, ReadyPrepared DEF Prepares
<1>4. CASE preparation' = None /\ StartOrJoin(m, sequence')
    <2>1. CallsExact' /\ refreshing' # None /\ refreshing'.sequence = sequence'
        BY <1>1, <1>4, CallsStart DEF SessionInv
    <2>2. \E c \in calls' : c.sequence = sequence'
        BY <2>1 DEF CallsExact
    <2> QED BY <1>4, <2>2 DEF LayersPrepared, Prepares
<1> QED BY <1>2, <1>3, <1>4 DEF ToolResult

LEMMA PreparedStep == SessionInv /\ LayersPrepared /\ [SessionNext]_sessionVars => LayersPrepared'
<1> SUFFICES ASSUME SessionInv, LayersPrepared, [SessionNext]_sessionVars
             PROVE  LayersPrepared'
    OBVIOUS
<1>1. CASE HostMessage
    <2>1. CASE ToolFails
        BY <2>1 DEF ToolFails, FailMap, LayersPrepared, Prepares
    <2> QED BY <1>1, <2>1, ResultPrepares DEF HostMessage
<1>2. CASE Teardown
    BY <1>2 DEF Teardown, LayersPrepared, Prepares
<1>3. ASSUME NEW layer \in Layer, Renew(layer)
      PROVE  LayersPrepared'
    <2>1. UNCHANGED <<sequence, config, preparation, gone>> /\ calls \subseteq calls'
        BY <1>3 DEF Renew, StartOrJoin, callVars
    <2> QED BY <2>1, PreparedStays
<1>4. ASSUME NEW c \in calls, RefreshEnds(c)
      PROVE  LayersPrepared'
    BY <1>4, AnswerPrepares
<1>5. CASE PreparationEnds
    <2>1. PICK i \in Nat : LayerPrepared(i) \/ LayerFails(i)
        BY <1>5 DEF PreparationEnds
    <2>2. preparation.map \in Maps /\ issued + 1 \in Nat
        BY <2>1 DEF LayerPrepared, LayerFails, Replace, SessionInv, SessionTypeOK, Preparation
    <2>3. /\ [kind |-> "query", map |-> preparation.map, pos |-> i, issue |-> issued + 1]
                \in Layer
          /\ [kind |-> "failed", map |-> preparation.map, pos |-> i, issue |-> 0] \in Layer
        BY <2>2 DEF Layer
    <2> QED BY <2>1, <2>3, ReplacePrepared DEF LayerPrepared, LayerFails
<1>6. CASE Trouble \/ (\E n \in 1..issued : Expire(n)) \/ UNCHANGED sessionVars
    <2>1. UNCHANGED <<sequence, config, preparation, gone, calls>>
        BY <1>6 DEF Trouble, Expire, sessionVars, callVars
    <2> QED BY <2>1, PreparedStays
<1> QED BY <1>1, <1>2, <1>3, <1>4, <1>5, <1>6 DEF SessionNext

\* No layer is left in preparation: aborted controllers, renewals that overtake them
\* and results in between always leave a call that will replace it.
THEOREM PreparationsAreUnderWay == SessionSpec => []LayersPrepared
<1>1. SessionInit => LayersPrepared
    BY DEF SessionInit, LayersPrepared, Prepares
<1> QED BY <1>1, PreparedStep, SessionInvariant, PTL DEF SessionSpec

-----------------------------------------------------------------------------
(* The widget.                                                             *)

\* What the view knows of layers, and the calls its layers wait for.
WidgetInv ==
    /\ SessionInv
    /\ rendered = None \/ rendered \in Shown
    /\ \A h \in handlers : h.layer \in Layer
    /\ \A r \in renewing : r.call \in calls

\* The layers of the last render are layers.
LEMMA WantedType ==
    ASSUME rendered \in Shown
    PROVE  Wanted \subseteq Layer
BY DEF Wanted, Shown, Layers

\* A handled error leaves the hook alone, or renews a token of one layer, and
\* the layer then waits for a call in flight.
LEMMA HandleErrorStep ==
    ASSUME WidgetInv, NEW h \in handlers, HandleError(h)
    PROVE  /\ WidgetInv'
           /\ UNCHANGED sessionVars \/ Trouble \/ \E layer \in Layer : Renew(layer)
<1>1. UNCHANGED rendered /\ handlers' \subseteq handlers /\ h.layer \in Layer
    BY DEF HandleError, WidgetInv
<1>2. CASE ReportFailure(h) \/ IgnoreExpiry(h)
    <2>1. UNCHANGED sessionVars /\ UNCHANGED renewing
        BY <1>2 DEF ReportFailure, IgnoreExpiry
    <2>2. SessionInv'
        BY <2>1, SessionStep DEF WidgetInv
    <2> QED BY <2>1, <2>2, <1>1 DEF WidgetInv, sessionVars, callVars
<1>3. CASE RenewToken(h)
    <2>1. Renew(h.layer)
        BY <1>3 DEF RenewToken
    <2>2. /\ SessionInv' /\ calls \subseteq calls'
          /\ Renews(h.layer) => refreshing' \in calls'
        BY <2>1, <1>1, RenewStep DEF WidgetInv
    <2>3. \A r \in renewing' : r.call \in calls'
        <3>1. CASE Renews(h.layer)
            BY <3>1, <2>2, <1>3 DEF RenewToken, WidgetInv
        <3>2. CASE ~Renews(h.layer)
            BY <3>2, <2>2, <1>3 DEF RenewToken, WidgetInv
        <3> QED BY <3>1, <3>2
    <2> QED BY <2>1, <2>2, <2>3, <1>1 DEF WidgetInv
<1> QED BY <1>2, <1>3 DEF HandleError

\* A step of the hook or of its environment that the view does not see.
LEMMA UnseenStep ==
    ASSUME WidgetInv, [SessionNext]_sessionVars,
           UNCHANGED <<rendered, handlers, renewing>>, calls \subseteq calls'
    PROVE  WidgetInv'
BY SessionStep DEF WidgetInv

\* The events of the map.
LEMMA MapEventStep ==
    ASSUME WidgetInv, NEW id \in DOMAIN entries,
           MetadataArrive(id) \/ MetadataFail(id) \/ SourceLoads(id)
                \/ SourceReloads(id) \/ TileFails(id)
    PROVE  WidgetInv' /\ (UNCHANGED sessionVars \/ Trouble)
<1>1. UNCHANGED <<rendered, renewing>> /\ (UNCHANGED sessionVars \/ Trouble)
    BY DEF MetadataArrive, MetadataFail, SourceLoads, SourceReloads, TileFails, MapEvent
<1>2. UNCHANGED calls
    BY <1>1 DEF sessionVars, Trouble, callVars
<1>3. SessionInv'
    BY <1>1, SessionStep DEF WidgetInv, SessionNext
<1>4. \A h \in handlers' : h.layer \in Layer
    <2>1. CASE UNCHANGED handlers
        BY <2>1 DEF WidgetInv
    <2>2. CASE TileFails(id)
        <3>1. rendered \in Shown
            BY <2>2 DEF TileFails, MapEvent, Live, WidgetInv
        <3>2. PICK layer \in Wanted :
                handlers' = handlers \cup {[layer |-> layer, code |-> "query_token_expired"]}
                \/ handlers' = handlers \cup {[layer |-> layer, code |-> "other"]}
            BY <2>2 DEF TileFails
        <3>3. layer \in Layer
            BY <3>1, WantedType
        <3> QED BY <3>2, <3>3 DEF WidgetInv
    <2> QED BY <2>1, <2>2 DEF MetadataArrive, MetadataFail, SourceLoads, SourceReloads
<1> QED BY <1>1, <1>2, <1>3, <1>4 DEF WidgetInv

\* Every step of the widget keeps the invariant and is one of the hook, or
\* leaves it alone.
LEMMA WidgetStep ==
    ASSUME WidgetInv, [Next]_vars
    PROVE  WidgetInv' /\ [SessionNext]_sessionVars
<1>1. CASE Render
    <2>1. UNCHANGED sessionVars /\ UNCHANGED <<handlers, renewing>>
        BY <1>1 DEF Render, mapVars
    <2>2. rendered' = None \/ rendered' \in Shown
        BY <1>1 DEF Render, ToRender, WidgetInv, SessionInv, SessionTypeOK
    <2>3. SessionInv'
        BY <2>1, SessionStep DEF WidgetInv
    <2> QED BY <2>1, <2>2, <2>3 DEF WidgetInv, sessionVars, callVars
<1>2. CASE RunEffects \/ StyleLoads
    <2>1. /\ UNCHANGED sessionVars /\ UNCHANGED rendered
          /\ handlers' \subseteq handlers /\ renewing' \subseteq renewing
        BY <1>2 DEF RunEffects, StyleLoads, Dispose
    <2>2. SessionInv'
        BY <2>1, SessionStep DEF WidgetInv
    <2> QED BY <2>1, <2>2 DEF WidgetInv, sessionVars, callVars
<1>3. ASSUME NEW id \in DOMAIN entries,
             MetadataArrive(id) \/ MetadataFail(id) \/ SourceLoads(id)
                \/ SourceReloads(id) \/ TileFails(id)
      PROVE  WidgetInv' /\ [SessionNext]_sessionVars
    BY <1>3, MapEventStep DEF SessionNext
<1>4. ASSUME NEW h \in handlers, HandleError(h)
      PROVE  WidgetInv' /\ [SessionNext]_sessionVars
    BY <1>4, HandleErrorStep DEF SessionNext
<1>5. ASSUME NEW c \in calls, AnswerRefresh(c)
      PROVE  WidgetInv' /\ [SessionNext]_sessionVars
    <2>1. /\ RefreshEnds(c) /\ UNCHANGED <<rendered, handlers>>
          /\ renewing' = {r \in renewing : r.call # c}
        BY <1>5 DEF AnswerRefresh, EndRenewals
    <2>2. SessionInv' /\ calls' = calls \ {c}
        BY <2>1, RefreshStep DEF WidgetInv
    <2> QED BY <2>1, <2>2 DEF WidgetInv, SessionNext
<1>6. CASE AnswerPreparation
    <2>0. preparation \in Preparation
        BY <1>6 DEF AnswerPreparation, WidgetInv, SessionInv, SessionTypeOK
    <2>1. PreparationEnds /\ UNCHANGED <<rendered, handlers, renewing>>
        <3>1. DOMAIN preparation.layers \subseteq Nat
            BY <2>0 DEF Preparation, Layers
        <3> QED BY <1>6, <3>1 DEF AnswerPreparation, PreparationEnds, viewVars
    <2>2. UNCHANGED calls
        BY <2>1 DEF PreparationEnds, LayerPrepared, LayerFails, Replace, callVars
    <2>3. WidgetInv'
        BY <2>1, <2>2, UnseenStep DEF SessionNext
    <2> QED BY <2>1, <2>3 DEF SessionNext
<1>7. CASE TearDown
    <2>1. /\ Teardown /\ UNCHANGED rendered /\ handlers' = {} /\ renewing' = {}
        BY <1>7 DEF TearDown, Dispose
    <2>2. SessionInv'
        BY <2>1, TeardownStep DEF WidgetInv
    <2> QED BY <2>1, <2>2 DEF WidgetInv, SessionNext
<1>8. CASE Environment
    <2>1. /\ HostMessage \/ \E n \in 1..issued : Expire(n)
          /\ UNCHANGED <<rendered, handlers, renewing>>
        BY <1>8 DEF Environment, viewVars
    <2>2. calls \subseteq calls'
        BY <2>1 DEF HostMessage, ToolResult, ToolFails, StartOrJoin, Expire, callVars
    <2>3. WidgetInv'
        BY <2>1, <2>2, UnseenStep DEF SessionNext
    <2> QED BY <2>1, <2>3 DEF SessionNext
<1>9. CASE UNCHANGED vars
    <2>1. UNCHANGED sessionVars /\ UNCHANGED <<rendered, handlers, renewing, calls>>
        BY <1>9 DEF vars, viewVars, sessionVars, callVars
    <2> QED BY <2>1, UnseenStep
<1> QED BY <1>1, <1>2, <1>3, <1>4, <1>5, <1>6, <1>7, <1>8, <1>9 DEF Next

LEMMA WidgetInvariant == Spec => []WidgetInv
<1>1. Init => WidgetInv
    BY SessionStart DEF Init, WidgetInv
<1>2. WidgetInv /\ [Next]_vars => WidgetInv'
    BY WidgetStep
<1> QED BY <1>1, <1>2, PTL DEF Spec

-----------------------------------------------------------------------------
(* The theorems.                                                           *)

\* The widget implements its hook: whatever React and the map do, the hook
\* takes steps of its own or none.
THEOREM WidgetImplementsSession == Spec => SessionSpec
<1>1. Init => SessionInit
    BY DEF Init
<1>2. WidgetInv /\ [Next]_vars => [SessionNext]_sessionVars
    BY WidgetStep
<1> QED BY <1>1, <1>2, WidgetInvariant, PTL DEF Spec, SessionSpec

\* The widget never shows the map of an older result without a call under way
\* that replaces it, never a map beside an error, and keeps nothing that could
\* bring an older result back.
THEOREM WidgetShowsLatest == Spec => []OnlyLatestMap
<1>1. WidgetInv => OnlyLatestMap
    BY DEF WidgetInv, SessionInv, MapExact
<1> QED BY <1>1, WidgetInvariant, PTL

\* No two calls refresh one result, and a layer waits for a renewal only while
\* its call is in flight.
THEOREM WidgetRenewsOnce == Spec => []RenewalsAreUnderWay
<1>1. WidgetInv => RenewalsAreUnderWay
    BY DEF WidgetInv, SessionInv, CallsExact, RenewalsAreUnderWay
<1> QED BY <1>1, WidgetInvariant, PTL

=============================================================================

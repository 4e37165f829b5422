----------------------------- MODULE MapSession -----------------------------
(***************************************************************************)
(* The hook of the map widget that an MCP host shows beside a conversation:*)
(* it takes the results of the map tools, prepares the layers that a       *)
(* result leaves open, renews expired query tokens through the host and    *)
(* keeps the map that is to be shown.                                      *)
(* (dataset-mcp/ui/src/mcp/useMcpApp.ts)                                   *)
(*                                                                         *)
(* An action is what runs between two turns of the event loop: a message   *)
(* of the host, or what follows an await on a server tool.  The server     *)
(* issues a query id and a token for every query layer of every answer;    *)
(* one number stands for what one answer issues.                           *)
(***************************************************************************)
EXTENDS Naturals, Sequences

CONSTANTS
    Maps,       \* map definitions (map_spec)
    KindOf,     \* the sources of a definition: "query" or external "tiles"
    None,
    MaxResults, \* bound: tool results and connection errors
    MaxEvents   \* bound: expiries of tokens

ASSUME MapAssumption ==
    KindOf \in [Maps -> Seq({"query", "tiles"})]
ASSUME BoundAssumption == MaxResults \in Nat /\ MaxEvents \in Nat

VARIABLES
    sequence,    \* mapSequenceRef: the tool results and errors so far
    config,      \* mapConfiguration, with tokensRef and queryTokens
    failed,      \* bridgeError is set: an error is shown instead of a map
    renewal,     \* refreshExpiredRef: what it refreshes, or None
    preparation, \* the AbortController of preparationAbortRef with its closure
    calls,       \* calls of refresh_map that the host has not answered
    refreshing,  \* the call that later renewals of the sequence join
    started,     \* calls so far: the identity of their promises
    issued,      \* answers of the server so far
    expired,     \* the answers whose tokens the server refuses by now
    gone,        \* the host has torn the widget down
    events

tokenVars == <<issued, expired>>
callVars == <<calls, refreshing, started>>
sessionVars == <<sequence, config, failed, renewal, preparation, callVars,
                 tokenVars, gone, events>>

Layer == [kind : {"query", "tiles", "preparing", "failed"}, map : Maps,
          pos : Nat, issue : Nat]
\* The place of a layer is part of its id.
Layers == {s \in Seq(Layer) : \A i \in DOMAIN s : s[i].pos = i}
Shown == [sequence : Nat, map : Maps, layers : Layers]
Preparation == [sequence : Nat, map : Maps, layers : Layers, waiting : SUBSET Nat]
Call == [id : Nat, sequence : Nat, map : Maps]
Renewable == [sequence : Nat, map : Maps]

ASSUME NoneAssumption ==
    None \notin Call /\ None \notin Renewable /\ None \notin Preparation

SessionTypeOK ==
    /\ sequence \in Nat /\ started \in Nat /\ issued \in Nat
    /\ config = None \/ config \in Shown
    /\ failed \in BOOLEAN /\ gone \in BOOLEAN
    /\ renewal = None \/ renewal \in Renewable
    /\ preparation = None \/ preparation \in Preparation
    /\ calls \subseteq Call /\ (refreshing = None \/ refreshing \in Call)
    /\ expired \subseteq Nat
    /\ events \in 0..MaxEvents

SessionInit ==
    /\ sequence = 0 /\ started = 0 /\ issued = 0
    /\ config = None /\ failed = FALSE
    /\ renewal = None /\ preparation = None
    /\ calls = {} /\ refreshing = None
    /\ expired = {} /\ gone = FALSE /\ events = MaxEvents

-----------------------------------------------------------------------------
(* Results of the server.                                                  *)

Queries(m) == {i \in DOMAIN KindOf[m] : KindOf[m][i] = "query"}

\* The layers of answer n for map m, of which those of "open" are left to the
\* widget to prepare.
Result(m, n, open) ==
    [i \in DOMAIN KindOf[m] |->
        [kind |-> IF i \in open THEN "preparing" ELSE KindOf[m][i],
         map |-> m, pos |-> i,
         issue |-> IF i \in Queries(m) \ open THEN n ELSE 0]]

\* earliestExpiration(result) <= Date.now(): an answer issues its tokens at one
\* moment, and external layers have none.
HasExpired(layers, dead) ==
    \E i \in DOMAIN layers : layers[i].kind = "query" /\ layers[i].issue \in dead

Show(seq, m, layers) ==
    /\ config' = [sequence |-> seq, map |-> m, layers |-> layers]
    /\ failed' = FALSE

\* refreshMap: one call of a sequence at a time.
StartOrJoin(m, seq) ==
    IF refreshing # None /\ refreshing.sequence = seq
    THEN UNCHANGED callVars
    ELSE /\ started' = started + 1
         /\ refreshing' = [id |-> started + 1, sequence |-> seq, map |-> m]
         /\ calls' = calls \cup {refreshing'}

\* Mutant: a failure leaves the preparation in progress.
FailMapOnly ==
    /\ config' = None /\ failed' = TRUE
    /\ renewal' = None /\ UNCHANGED preparation

\* The controller is aborted, the closure of the renewal replaced.
FailMap ==
    /\ config' = None /\ failed' = TRUE
    /\ renewal' = None /\ preparation' = None

\* acceptMapResult for a result of the sequence seq with layers to prepare:
\* publish and one call of prepare_map_layer for each.
AcceptOpen(m, layers, open, seq) ==
    /\ renewal' = [sequence |-> seq, map |-> m]
    /\ preparation' = [sequence |-> seq, map |-> m, layers |-> layers, waiting |-> open]
    /\ Show(seq, m, layers)

\* acceptMapResult for a result that is ready and has not expired.
AcceptReady(m, layers, seq) ==
    /\ renewal' = [sequence |-> seq, map |-> m]
    /\ Show(seq, m, layers)

-----------------------------------------------------------------------------
(* Messages of the host.                                                   *)

Message == ~gone /\ sequence < MaxResults /\ UNCHANGED events

\* ontoolresult with a map.  It cancels the preparation of the map before.
ToolResult(m, open, saved) ==
    LET layers == Result(m, issued + 1, open)
        dead == IF saved THEN expired \cup {issued + 1} ELSE expired
    IN /\ Message
       /\ sequence' = sequence + 1
       /\ issued' = issued + 1 /\ expired' = dead
       /\ \/ /\ open # {}
             /\ AcceptOpen(m, layers, open, sequence')
             /\ UNCHANGED callVars
          \/ /\ open = {} /\ preparation' = None
             /\ \/ /\ HasExpired(layers, dead)
                   /\ renewal' = [sequence |-> sequence', map |-> m]
                   /\ StartOrJoin(m, sequence')
                   /\ UNCHANGED <<config, failed>>
                \/ /\ ~HasExpired(layers, dead)
                   /\ AcceptReady(m, layers, sequence')
                   /\ UNCHANGED callVars
       /\ UNCHANGED gone

\* ontoolresult with an error or an invalid result, and onerror.
ToolFails ==
    /\ Message
    /\ sequence' = sequence + 1
    /\ FailMap
    /\ UNCHANGED <<callVars, tokenVars, gone>>

\* onteardown, and the cleanup of the hook.
Teardown ==
    /\ ~gone /\ gone' = TRUE
    /\ sequence' = sequence + 1
    /\ preparation' = None /\ renewal' = None
    /\ UNCHANGED <<config, failed, callVars, tokenVars, events>>

-----------------------------------------------------------------------------
(* Renewal of tokens.                                                      *)

\* refreshExpiredToken starts or joins a call; otherwise it returns at once.
Renews(layer) ==
    /\ renewal # None /\ renewal.sequence = sequence
    /\ config # None /\ \E i \in DOMAIN config.layers : config.layers[i] = layer

Renew(layer) ==
    /\ IF Renews(layer) THEN StartOrJoin(renewal.map, sequence)
                        ELSE UNCHANGED callVars
    /\ UNCHANGED <<sequence, config, failed, renewal, preparation, tokenVars, gone, events>>

\* Mutant: the end of a call clears what other renewals join, whoever set it.
EndsAnyCall(c) ==
    /\ c \in calls /\ calls' = calls \ {c}
    /\ refreshing' = None
    /\ UNCHANGED started

\* The finally clause of refreshMap.
EndsCall(c) ==
    /\ c \in calls /\ calls' = calls \ {c}
    /\ refreshing' = IF refreshing = c THEN None ELSE refreshing
    /\ UNCHANGED started

IsCurrent(c) == c.sequence = sequence

\* performRefresh: an answer for another sequence is ignored, its tokens unseen.
RefreshIgnored(c) ==
    /\ EndsCall(c) /\ ~IsCurrent(c)
    /\ UNCHANGED <<sequence, config, failed, renewal, preparation, tokenVars, gone, events>>

RefreshAnswered(c, open) ==
    LET layers == Result(c.map, issued + 1, open)
    IN /\ EndsCall(c) /\ IsCurrent(c)
       /\ issued' = issued + 1
       /\ \/ open # {} /\ AcceptOpen(c.map, layers, open, c.sequence)
          \/ /\ open = {} /\ AcceptReady(c.map, layers, c.sequence)
             /\ UNCHANGED preparation
       /\ UNCHANGED <<sequence, expired, gone, events>>

\* An error, an invalid result, or tokens that have expired again.
RefreshRefused(c) ==
    /\ EndsCall(c) /\ IsCurrent(c)
    /\ FailMap
    /\ UNCHANGED <<sequence, tokenVars, gone, events>>

-----------------------------------------------------------------------------
(* Preparation of the layers that a result leaves open.  A call whose      *)
(* controller has been aborted ends without effect.                        *)

\* replace and publish
Replace(i, layer) ==
    LET layers == [preparation.layers EXCEPT ![i] = layer]
    IN /\ preparation # None /\ preparation.sequence = sequence
       /\ i \in preparation.waiting /\ i \in DOMAIN preparation.layers
       /\ preparation' = [preparation EXCEPT !.layers = layers, !.waiting = @ \ {i}]
       /\ Show(preparation.sequence, preparation.map, layers)
       /\ UNCHANGED <<sequence, renewal, callVars, gone, events>>

LayerPrepared(i) ==
    /\ Replace(i, [kind |-> "query", map |-> preparation.map, pos |-> i,
                   issue |-> issued + 1])
    /\ issued' = issued + 1 /\ UNCHANGED expired

\* An error, another layer than was asked for, or a token that has expired.
LayerFails(i) ==
    /\ Replace(i, [kind |-> "failed", map |-> preparation.map, pos |-> i, issue |-> 0])
    /\ UNCHANGED tokenVars

-----------------------------------------------------------------------------
Event == ~gone /\ events > 0 /\ events' = events - 1

\* Time: the tokens of an answer expire.
Expire(n) ==
    /\ Event /\ n \in (1..issued) \ expired
    /\ expired' = expired \cup {n}
    /\ UNCHANGED <<sequence, config, failed, renewal, preparation, callVars,
                   issued, gone>>

\* Failures and moves of the map that is shown: nothing changes here, but they
\* draw on the bound of events.
Trouble ==
    /\ Event
    /\ UNCHANGED <<sequence, config, failed, renewal, preparation, callVars, tokenVars, gone>>

HostMessage ==
    \/ \E m \in Maps : \E open \in SUBSET Queries(m) : \E saved \in BOOLEAN :
            ToolResult(m, open, saved)
    \/ ToolFails
RefreshEnds(c) ==
    \/ RefreshIgnored(c)
    \/ \E open \in SUBSET Queries(c.map) : RefreshAnswered(c, open)
    \/ RefreshRefused(c)
PreparationEnds == \E i \in Nat : LayerPrepared(i) \/ LayerFails(i)

SessionNext ==
    \/ HostMessage \/ Teardown
    \/ \E layer \in Layer : Renew(layer)
    \/ \E c \in calls : RefreshEnds(c)
    \/ PreparationEnds
    \/ \E n \in 1..issued : Expire(n)
    \/ Trouble

SessionSpec == SessionInit /\ [][SessionNext]_sessionVars

-----------------------------------------------------------------------------
\* The map that is shown is that of the last tool result, unless that result
\* had expired tokens and the call that renews them is in flight.  A map never
\* stands beside an error, it can always have its tokens renewed, and nothing
\* else of an older result survives: neither its preparation nor the closure
\* that renews its tokens.
OnlyLatestMap ==
    ~gone =>
        /\ config # None =>
            /\ ~failed /\ renewal # None
            /\ \/ config.sequence = sequence
               \/ \E c \in calls : c.sequence = sequence
        /\ preparation # None => preparation.sequence = sequence
        /\ renewal # None => renewal.sequence = sequence

\* However many tiles fail with an expired token, and however many results
\* replaced one another, no two refresh calls of one result are in flight.
OneRefreshPerResult ==
    \A c, d \in calls : c.sequence = d.sequence => c = d

=============================================================================

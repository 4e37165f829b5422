--------------------------- MODULE MapWorkspace ---------------------------
(***************************************************************************)
(* The map page of the webapp: the list of loaded layers that React keeps, *)
(* the commands that change it (picker, layer list and WebMCP tools), and  *)
(* the task that brings MapLibre's sources in line with the list.          *)
(* (webapp/src/routes/collections.$collectionSlug.map.tsx,                 *)
(*  webapp/src/components/map/useMapWorkspaceCommands.ts,                  *)
(*  webapp/src/components/viewer/useMapInitialization.ts)                  *)
(*                                                                         *)
(* One browser tab: an action is what runs between two turns of the event  *)
(* loop.  A state setter does not change what the commands read: they read *)
(* the list of the last render, and a render is a turn of its own.  An     *)
(* await on a promise that is already settled does not leave the turn; an  *)
(* await on the network does.                                              *)
(***************************************************************************)
EXTENDS Naturals, Sequences, FiniteSets

CONSTANTS
    Catalog,        \* layers of the catalog: PMTiles archives read over the network
    Query,          \* layers of query results: tiles of the query service
    Calls,          \* calls that add a catalog layer, by the picker or a tool
    RouteLists,     \* the layer lists that a URL of the page may name
    None,
    Broken,         \* PMTiles archives that can never be read
    MaxOperations,  \* bound: operations of the user, of the agent and of the URL
    MaxFaults       \* bound: reads and tiles that fail although the archive is sound

Layers == Catalog \cup Query
Ids(list) == {list[i].id : i \in DOMAIN list}
Entry(l) == [id |-> l, visible |-> TRUE, error |-> FALSE]

ASSUME LayerAssumption ==
    /\ Catalog \cap Query = {} /\ None \notin Layers /\ Broken \subseteq Catalog
    /\ \A list \in RouteLists :
        /\ list \in Seq({Entry(l) : l \in Catalog})
        /\ \A i, j \in DOMAIN list : list[i].id = list[j].id => i = j
ASSUME BoundAssumption == MaxOperations \in Nat /\ MaxFaults \in Nat

VARIABLES
    layers,      \* loadedLayers, with every queued update applied
    rendered,    \* loadedLayersRef: loadedLayers as of the last render
    dirty,       \* layers has another identity than rendered: a render is due
    call,        \* the calls that add a layer
    outcome,     \* what each call was answered
    pending,     \* pendingLayerIdsRef
    prepared,    \* preparedCatalogLayersRef
    styleReady,  \* mapsWithInitialStyle has the map
    sync,        \* syncLoadedMapSources: not running, waiting for the style, reading
    reading,     \* the position in the list whose archive it reads, or 0
    onMap,       \* the sources of the map, with their rendered layers
    managed,     \* managedSourceIds
    described,   \* the keys of vectorLayersBySource
    interactive, \* the layers of interactiveLayerIds
    failures,    \* runtimeSourceFailuresRef
    operations, faults

listVars == <<layers, rendered, dirty>>
callVars == <<call, outcome, pending, prepared>>
mapVars == <<styleReady, sync, reading, onMap, managed, described, interactive>>
bounds == <<operations, faults>>
vars == <<listVars, callVars, mapVars, failures, bounds>>

Entries == [id : Layers, visible : BOOLEAN, error : BOOLEAN]
Idle == [pc |-> "idle", layer |-> None, hide |-> FALSE]

TypeOK ==
    /\ layers \in Seq(Entries) /\ rendered \in Seq(Entries) /\ dirty \in BOOLEAN
    /\ call \in [Calls -> [pc : {"idle", "preparing", "resolving"},
                           layer : Catalog \cup {None}, hide : BOOLEAN]]
    /\ outcome \in [Calls -> {"none", "ok", "failed"}]
    /\ pending \subseteq Catalog /\ prepared \subseteq Catalog
    /\ styleReady \in BOOLEAN
    /\ sync \in {"none", "queued", "reading"} /\ reading \in 0..Len(rendered)
    /\ onMap \subseteq Layers /\ managed \subseteq Layers
    /\ described \subseteq Layers /\ interactive \subseteq Layers
    /\ failures \in [Layers -> SUBSET {"tile", "unidentified"}]
    /\ operations \in 0..MaxOperations /\ faults \in 0..MaxFaults

Init ==
    /\ layers \in RouteLists /\ rendered = layers /\ dirty = FALSE
    /\ call = [c \in Calls |-> Idle] /\ outcome = [c \in Calls |-> "none"]
    /\ pending = {} /\ prepared = {}
    /\ styleReady = FALSE /\ sync = "queued" /\ reading = 0
    /\ onMap = {} /\ managed = {} /\ described = {} /\ interactive = {}
    /\ failures = [l \in Layers |-> {}]
    /\ operations = MaxOperations /\ faults = MaxFaults

-----------------------------------------------------------------------------
(* The list.                                                               *)

SetLayers(list) == layers' = list /\ dirty' = TRUE

\* filter: the ids of a list are distinct (UniqueIds).
Without(list, l) ==
    IF l \notin Ids(list) THEN list
    ELSE LET p == CHOOSE i \in DOMAIN list : list[i].id = l
         IN [i \in 1..(Len(list) - 1) |-> IF i < p THEN list[i] ELSE list[i + 1]]

\* Mutant: the updater of addDatasetLayer trusts the checks made before it.
AppendLayerUnchecked(l) == SetLayers(Append(layers, Entry(l)))

\* The updater of addDatasetLayer returns the list it got when the id is there.
AppendLayer(l) ==
    IF l \in Ids(layers) THEN UNCHANGED <<layers, dirty>>
    ELSE SetLayers(Append(layers, Entry(l)))

MarkError(list, l, failed) ==
    [i \in DOMAIN list |-> IF list[i].id = l THEN [list[i] EXCEPT !.error = failed]
                                             ELSE list[i]]

Operate == operations > 0 /\ operations' = operations - 1 /\ UNCHANGED faults
Fault == faults > 0 /\ faults' = faults - 1 /\ UNCHANGED operations

-----------------------------------------------------------------------------
(* The source task.  One run goes through the list of the render that      *)
(* started it; a later render cancels it and starts another.               *)

\* From position i of list on, until the next read of an archive or the end,
\* where the map has the sources "have" and vectorLayersBySource the keys "know".
\* A query layer that the map has already is not described again.
Run(list, i, have, know) ==
    LET reads == {j \in i..Len(list) : list[j].id \in Catalog}
        stop == IF reads = {} THEN Len(list) + 1
                ELSE CHOOSE j \in reads : \A k \in reads : j <= k
        passed == {list[k].id : k \in i..(stop - 1)}
        active == Ids(list)
    IN IF stop <= Len(list)
       THEN /\ sync' = "reading" /\ reading' = stop
            /\ managed' = managed \cup passed \cup {list[stop].id}
            /\ onMap' = have \cup passed
            /\ described' = know \cup (passed \ have)
            /\ UNCHANGED interactive
       ELSE /\ sync' = "none" /\ reading' = 0
            /\ managed' = (managed \cup passed) \cap active
            /\ onMap' = (have \cup passed) \ ((managed \cup passed) \ active)
            /\ described' = (know \cup (passed \ have)) \cap active
            /\ interactive' = {e.id : e \in {list[k] : k \in {n \in DOMAIN list : list[n].visible}}}

\* Mutant: a run in progress goes on with its position in another list.
RenderKeepingRun ==
    /\ dirty
    /\ rendered' = layers /\ dirty' = FALSE /\ UNCHANGED layers
    /\ IF styleReady /\ sync # "reading" THEN Run(layers, 1, onMap, described)
       ELSE UNCHANGED <<sync, reading, onMap, managed, described, interactive>>
    /\ UNCHANGED <<styleReady, callVars, failures, bounds>>

\* Mutant: a run in progress is cancelled and no other started.
RenderCancelling ==
    /\ dirty
    /\ rendered' = layers /\ dirty' = FALSE /\ UNCHANGED layers
    /\ IF styleReady /\ sync # "reading" THEN Run(layers, 1, onMap, described)
       ELSE /\ sync' = (IF styleReady THEN "none" ELSE "queued") /\ reading' = 0
            /\ UNCHANGED <<onMap, managed, described, interactive>>
    /\ UNCHANGED <<styleReady, callVars, failures, bounds>>

\* React renders: the commands get the new list, and the effect on it cancels
\* the run in progress and starts another, or queues it for the style.
Render ==
    /\ dirty
    /\ rendered' = layers /\ dirty' = FALSE /\ UNCHANGED layers
    /\ IF styleReady THEN Run(layers, 1, onMap, described)
       ELSE /\ sync' = "queued" /\ reading' = 0
            /\ UNCHANGED <<onMap, managed, described, interactive>>
    /\ UNCHANGED <<styleReady, callVars, failures, bounds>>

\* Mutant: the run that waits for the style is not resumed.
StyleLoadsUnheard ==
    /\ ~styleReady /\ styleReady' = TRUE
    /\ UNCHANGED <<listVars, callVars, sync, reading, onMap, managed, described,
                   interactive, failures, bounds>>

StyleLoads ==
    /\ ~styleReady /\ styleReady' = TRUE
    /\ Run(rendered, 1, onMap, described)
    /\ UNCHANGED <<listVars, callVars, failures, bounds>>

Reading(l) == sync = "reading" /\ rendered[reading].id = l

\* The archive's metadata, which name at least one vector layer, have arrived.
ReadArchive(l) ==
    /\ Reading(l) /\ l \notin Broken
    /\ Run(rendered, reading + 1, onMap \cup {l}, described \cup {l})
    /\ UNCHANGED <<listVars, callVars, styleReady, failures, bounds>>

\* reportSourceSyncError: the run ends where it is, the layer is marked.
FailToRead(l) ==
    /\ Reading(l)
    /\ IF l \in Broken THEN UNCHANGED bounds ELSE Fault
    /\ sync' = "none" /\ reading' = 0
    /\ SetLayers(MarkError(layers, l, TRUE))
    /\ UNCHANGED <<rendered, callVars, styleReady, onMap, managed, described,
                   interactive, failures>>

-----------------------------------------------------------------------------
(* Errors of tiles.  sourcesRef has the list of the last render.           *)

TileFails(l, kind) ==
    /\ Fault /\ l \in onMap /\ l \in Ids(rendered)
    /\ failures' = [failures EXCEPT ![l] = @ \cup {kind}]
    /\ SetLayers(MarkError(layers, l, TRUE))
    /\ UNCHANGED <<rendered, callVars, mapVars>>

\* The failed tile has loaded at last.  A failure without a tile is not undone.
TileLoads(l) ==
    /\ "tile" \in failures[l] /\ l \in onMap /\ l \in Ids(rendered)
    /\ failures' = [failures EXCEPT ![l] = @ \ {"tile"}]
    /\ IF failures[l] = {"tile"} THEN SetLayers(MarkError(layers, l, FALSE))
                                 ELSE UNCHANGED <<layers, dirty>>
    /\ UNCHANGED <<rendered, callVars, mapVars, bounds>>

-----------------------------------------------------------------------------
(* Commands.                                                               *)

RemoveLayer(l) ==
    /\ Operate /\ l \in Ids(rendered)
    /\ SetLayers(Without(layers, l))
    /\ UNCHANGED <<rendered, callVars, mapVars, failures>>

SetLayerVisibility(l, visible) ==
    /\ Operate /\ l \in Ids(rendered)
    /\ SetLayers([i \in DOMAIN layers |->
                    IF layers[i].id = l THEN [layers[i] EXCEPT !.visible = visible]
                                        ELSE layers[i]])
    /\ UNCHANGED <<rendered, callVars, mapVars, failures>>

\* The new list is made of the entries of the last render, not of the queue's.
ReorderLayers(order) ==
    /\ Operate
    /\ order \in [DOMAIN rendered -> DOMAIN rendered]
    /\ \A i, j \in DOMAIN order : order[i] = order[j] => i = j
    /\ SetLayers([i \in DOMAIN rendered |-> rendered[order[i]]])
    /\ UNCHANGED <<rendered, callVars, mapVars, failures>>

\* executeQuery shows a result on the map, on top of the list.
ShowQuery(q) ==
    /\ Operate
    /\ SetLayers(Append(Without(layers, q), Entry(q)))
    /\ UNCHANGED <<rendered, callVars, mapVars, failures>>

\* The URL of the page names other layers.
Navigate(list) ==
    /\ Operate /\ SetLayers(list)
    /\ UNCHANGED <<rendered, callVars, mapVars, failures>>

-----------------------------------------------------------------------------
(* Adding a layer.                                                         *)

Answer(c, result) ==
    /\ call' = [call EXCEPT ![c] = Idle]
    /\ outcome' = [outcome EXCEPT ![c] = result]

\* addDatasetLayer refuses a layer of the last render and one being added.
Refused(l) == l \in Ids(rendered) \/ l \in pending

\* What addDatasetLayer does in the turn in which it has its layer: it checks the
\* list of the last render again and queues the update.
Added(c, l) ==
    IF l \in Ids(rendered)
    THEN Answer(c, "failed") /\ UNCHANGED <<layers, dirty>>
    ELSE Answer(c, "ok") /\ AppendLayer(l)

\* The picker adds a layer.
PickLayer(c, l) ==
    /\ Operate /\ call[c] = Idle
    /\ ~Refused(l)
    /\ IF l \in prepared
       THEN /\ prepared' = prepared \ {l}
            /\ Added(c, l) /\ UNCHANGED pending
       ELSE /\ pending' = pending \cup {l}
            /\ call' = [call EXCEPT ![c] = [pc |-> "resolving", layer |-> l, hide |-> FALSE]]
            /\ outcome' = [outcome EXCEPT ![c] = "none"]
            /\ UNCHANGED <<layers, dirty, prepared>>
    /\ UNCHANGED <<rendered, mapVars, failures>>

\* Mutant: a layer that is not found stays pending.
ResolvedPending(c, found) ==
    /\ call[c].pc = "resolving"
    /\ pending' = IF found THEN pending \ {call[c].layer} ELSE pending
    /\ IF found THEN Added(c, call[c].layer)
                ELSE Answer(c, "failed") /\ UNCHANGED <<layers, dirty>>
    /\ UNCHANGED <<rendered, prepared, mapVars, failures, bounds>>

\* resolveDescriptor answers, or does not find the source, or fails.
Resolved(c, found) ==
    /\ call[c].pc = "resolving"
    /\ pending' = pending \ {call[c].layer}
    /\ IF found THEN Added(c, call[c].layer)
                ELSE Answer(c, "failed") /\ UNCHANGED <<layers, dirty>>
    /\ UNCHANGED <<rendered, prepared, mapVars, failures, bounds>>

\* The add_dataset_layer tool looks the layer up in the catalog.
CallTool(c, l, hide) ==
    /\ Operate /\ call[c] = Idle
    /\ call' = [call EXCEPT ![c] = [pc |-> "preparing", layer |-> l, hide |-> hide]]
    /\ outcome' = [outcome EXCEPT ![c] = "none"]
    /\ UNCHANGED <<listVars, pending, prepared, mapVars, failures>>

\* catalogMapLayer answers.  The layer is prepared, added and, when the call asks
\* for it, hidden in this one turn; setLayerVisibility reads the list of the last
\* render, which does not have the layer yet, and fails.
Prepared(c, found) ==
    LET l == call[c].layer IN
    /\ call[c].pc = "preparing"
    /\ IF ~found
       THEN Answer(c, "failed") /\ UNCHANGED <<layers, dirty, prepared>>
       ELSE IF Refused(l)
       THEN Answer(c, "failed") /\ prepared' = prepared \cup {l} /\ UNCHANGED <<layers, dirty>>
       ELSE /\ Answer(c, IF call[c].hide THEN "failed" ELSE "ok")
            /\ AppendLayer(l)
            /\ prepared' = prepared \ {l}
    /\ UNCHANGED <<rendered, pending, mapVars, failures, bounds>>

-----------------------------------------------------------------------------
Commands ==
    \/ \E l \in Layers : RemoveLayer(l) \/ \E v \in BOOLEAN : SetLayerVisibility(l, v)
    \/ \E order \in [DOMAIN rendered -> DOMAIN rendered] : ReorderLayers(order)
    \/ \E q \in Query : ShowQuery(q)
    \/ \E list \in RouteLists : Navigate(list)
    \/ \E c \in Calls, l \in Catalog :
        PickLayer(c, l) \/ \E hide \in BOOLEAN : CallTool(c, l, hide)

Next ==
    \/ Render
    \/ StyleLoads
    \/ \E l \in Catalog : ReadArchive(l) \/ FailToRead(l)
    \/ \E l \in Layers : TileLoads(l) \/ \E k \in {"tile", "unidentified"} : TileFails(l, k)
    \/ \E c \in Calls, found \in BOOLEAN : Resolved(c, found) \/ Prepared(c, found)
    \/ Commands

Spec == Init /\ [][Next]_vars

\* React renders what is due, the style or its fallback loads, a read of an
\* archive and a request to the catalog end.
Fairness ==
    /\ WF_vars(Render) /\ WF_vars(StyleLoads)
    /\ WF_vars(\E l \in Catalog : ReadArchive(l) \/ FailToRead(l))
    /\ \A c \in Calls : WF_vars(\E found \in BOOLEAN : Resolved(c, found) \/ Prepared(c, found))

FairSpec == Spec /\ Fairness

-----------------------------------------------------------------------------
(* Properties.                                                             *)

Unique(list) == \A i, j \in DOMAIN list : list[i].id = list[j].id => i = j

\* No layer is twice in the list, whatever calls add it at the same time: the ids
\* are keys of the list items, of the styles and of the map's sources, and an
\* order with a repeated id is refused for ever.
UniqueIds == Unique(layers) /\ Unique(rendered)

Settled == styleReady /\ ~dirty /\ sync = "none"

\* When the page has nothing left to do, the map has the sources of the listed
\* layers and no other, each described for the style editor and, if visible, open
\* to clicks; and at any time a source of the map is known for later removal and
\* clicks are only looked up in layers that exist.
MapMatchesList ==
    /\ onMap \subseteq managed /\ interactive \subseteq onMap
    /\ (onMap \cap Query) \subseteq described
    /\ Settled =>
        /\ onMap = Ids(rendered) /\ managed = Ids(rendered) /\ described = Ids(rendered)
        /\ interactive = {rendered[i].id : i \in {n \in DOMAIN rendered : rendered[n].visible}}

\* A layer is pending exactly while one call waits for it, so that a later call
\* for it is refused just then.
PendingExact ==
    \A l \in Catalog :
        LET waiting == {c \in Calls : call[c].pc = "resolving" /\ call[c].layer = l}
        IN Cardinality(waiting) = IF l \in pending THEN 1 ELSE 0

\* Once the commands cease, the page settles, unless an archive cannot be read.
Settles == <>[]Settled

\* What the design says of a tool: a call that is answered with a failure has
\* left the list as it was.
FailedAddChangesNothing ==
    [][\A c \in Calls :
        outcome[c] = "none" /\ outcome'[c] = "failed" => layers' = layers]_vars
=============================================================================

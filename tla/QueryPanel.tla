---------------------------- MODULE QueryPanel ----------------------------
(***************************************************************************)
(* The data panel of the map page: query results, to which pages are added *)
(* as they arrive, and the features selected on the map, which share one   *)
(* panel (webapp/src/routes/collections.$collectionSlug.map.tsx,           *)
(* webapp/src/components/map/queryResults.ts, mapDataPanelState.ts,        *)
(* featureSelection.ts).                                                   *)
(*                                                                         *)
(* One browser tab.  What an answer of the network or a tool changes is    *)
(* queued and shown by a later turn, Render; handlers of clicks see what   *)
(* the last render showed, and only the effects of that render come        *)
(* between a click and its own.                                            *)
(***************************************************************************)
EXTENDS Naturals, Sequences, FiniteSets

CONSTANTS
    Queries,        \* query results that the service may create
    Total,          \* Total[q]: the rows of the result q
    Ordered,        \* results whose SQL gives each row its place
    PageSizes,      \* page sizes of requests
    Catalog,        \* catalog layers
    Features,       \* features drawn on the map
    LayerOf,        \* LayerOf[f]: the layer of feature f
    MaxSelected,    \* MAX_SELECTED_FEATURES, per layer
    Calls,          \* requests to the query service that may be under way
    None,
    MaxOperations   \* bound: operations of the user and of the agent

Layers == Catalog \cup Queries

ASSUME PanelAssumption ==
    /\ Total \in [Queries -> Nat] /\ Ordered \subseteq Queries
    /\ PageSizes \subseteq Nat \ {0}
    /\ Catalog \cap Queries = {} /\ None \notin Queries
    /\ LayerOf \in [Features -> Layers] /\ MaxSelected \in Nat \ {0}
    /\ IsFiniteSet(Features) /\ MaxOperations \in Nat

VARIABLES
    result,       \* queryResult
    panel,        \* dataPanelState
    selected,     \* selectedFeatures
    wasCapped,    \* wasSelectionCapped
    layers,       \* the ids of loadedLayers
    loading,      \* isLoadingQueryPage
    shown,        \* what the handlers and effects of the last render refer to
    effects,      \* the effects of the last render have not run yet
    urgent,       \* a click is to be rendered before anything else happens
    tokens,       \* the keys of queryTokensRef
    failing,      \* query layers with a tile that failed
    call,         \* the requests under way
    operations

pageVars == <<result, panel, selected, wasCapped, layers, loading>>
renderVars == <<shown, effects, urgent>>
vars == <<pageVars, renderVars, tokens, failing, call, operations>>

Page == [query : Queries, offset : Nat, rows : Seq(Queries \X Nat), next : Nat, limit : PageSizes]
Result == [page : Page, error : {"none", "page", "layer"}]
Panel == [open : BOOLEAN, mode : {"query", "selected"}]

ASSUME NoneAssumption == None \notin Result

Idle == [pc |-> "idle", query |-> None, offset |-> 0, limit |-> 0, button |-> FALSE]
Call ==
    {Idle}
    \cup [pc : {"creating"}, query : {None}, offset : {0}, limit : PageSizes, button : {FALSE}]
    \cup [pc : {"paging"}, query : Queries, offset : Nat, limit : PageSizes, button : BOOLEAN]

TypeOK ==
    /\ result \in Result \cup {None} /\ panel \in Panel
    /\ selected \subseteq Features /\ wasCapped \in BOOLEAN
    /\ layers \subseteq Layers /\ loading \in BOOLEAN
    /\ shown \in [result : Result \cup {None}, selected : SUBSET Features,
                  layers : SUBSET Layers, loading : BOOLEAN, panel : Panel]
    /\ effects \in BOOLEAN /\ urgent \in BOOLEAN
    /\ tokens \subseteq Queries /\ failing \subseteq Queries
    /\ call \in [Calls -> Call]
    /\ operations \in 0..MaxOperations

Current == [result |-> result, selected |-> selected, layers |-> layers,
            loading |-> loading, panel |-> panel]

Init ==
    /\ result = None /\ panel = [open |-> FALSE, mode |-> "query"]
    /\ selected = {} /\ wasCapped = FALSE /\ layers = Catalog /\ loading = FALSE
    /\ shown = Current /\ effects = FALSE /\ urgent = FALSE
    /\ tokens = {} /\ failing = {} /\ call = [c \in Calls |-> Idle]
    /\ operations = MaxOperations

-----------------------------------------------------------------------------
(* Pages of a result.                                                      *)

Least(a, b) == IF a < b THEN a ELSE b

\* The rows that may be at place n of the result q.  A row is its query and its
\* number.  Every page is a new execution: without a deterministic order, which the
\* service warns of, it may find the rows in another order.
RowsAt(q, n) == {q} \X (IF q \in Ordered THEN {n} ELSE 1..Total[q])

\* serialize_rows: a page ends at its limit, at the last row, or at the row that
\* would exceed the byte budget, unless that is the first one, which fails the
\* request.  How many rows fit is not known here.
Lengths(q, offset, limit) ==
    LET left == IF Total[q] > offset THEN Total[q] - offset ELSE 0 IN
    Least(1, left)..Least(limit, left)

\* Mutant: the row that was left out is counted in next_offset.
SkippingNext(q, offset, length) ==
    IF offset + length < Total[q] THEN offset + length + 1 ELSE 0

\* has_more and next_offset, with 0 for a page that has no next one.
NextOffset(q, offset, length) ==
    IF offset + length < Total[q] THEN offset + length ELSE 0

PageRows(q, offset, length) ==
    {rows \in [1..length -> {q} \X (1..Total[q])] :
        /\ \A i \in 1..length : rows[i] \in RowsAt(q, offset + i)
        /\ \A i, j \in 1..length : rows[i] = rows[j] => i = j}

\* The pages that the service may answer.
Pages(q, offset, limit) ==
    UNION {{[query |-> q, offset |-> offset, limit |-> limit, rows |-> rows,
             next |-> NextOffset(q, offset, length)] : rows \in PageRows(q, offset, length)} :
           length \in Lengths(q, offset, limit)}

\* Mutant: a page is added to what is there, wherever it begins.
AppendAnyPage(current, next) ==
    IF current.query # next.query THEN next
    ELSE [next EXCEPT !.offset = current.offset, !.rows = current.rows \o next.rows]

\* appendQueryPage: a page that does not continue the rows replaces them.
AppendPage(current, next) ==
    IF current.query # next.query \/ next.offset # current.offset + Len(current.rows)
    THEN next
    ELSE [next EXCEPT !.offset = current.offset, !.rows = current.rows \o next.rows]

CanSetPage(page) == page.next # 0 \/ page.offset > 0

-----------------------------------------------------------------------------
(* The panel: reduceMapDataPanelState.                                     *)

ShowQuery == panel' = [open |-> TRUE, mode |-> "query"]
ShowSelected == panel' = [open |-> TRUE, mode |-> "selected"]
Collapse == panel' = [panel EXCEPT !.open = FALSE]

ToggleQueryResults ==
    IF panel.open /\ panel.mode = "query" THEN Collapse ELSE ShowQuery

FeaturesCleared(hasQueryResults) ==
    IF hasQueryResults THEN ShowQuery
    ELSE panel' = [open |-> FALSE, mode |-> "selected"]

Operate == operations > 0 /\ operations' = operations - 1

\* A click is rendered before the next event.
Click == Operate /\ urgent' = TRUE /\ UNCHANGED <<shown, effects>>

-----------------------------------------------------------------------------
(* Rendering, and the effect that drops the features of removed layers.    *)

AtRest == shown = Current /\ ~effects /\ ~urgent

Render ==
    /\ shown # Current \/ urgent
    /\ ~effects
    /\ shown' = Current /\ effects' = TRUE /\ urgent' = FALSE
    /\ UNCHANGED <<pageVars, tokens, failing, call, operations>>

Retained == {f \in shown.selected : LayerOf[f] \in shown.layers}

\* Mutant: the effect acts only when nothing is left.
RunEffectsLate ==
    /\ effects /\ effects' = FALSE
    /\ IF shown.selected # {} /\ Retained = {}
       THEN selected' = {} /\ FeaturesCleared(shown.result # None)
       ELSE UNCHANGED <<selected, panel>>
    /\ UNCHANGED <<result, wasCapped, layers, loading, shown, urgent, tokens, failing, call,
                   operations>>

\* The effect replaces the selection by what it keeps of the one it was rendered
\* with, and leaves it alone when it keeps all.
RunEffects ==
    /\ effects /\ effects' = FALSE
    /\ selected' = IF Retained = shown.selected THEN selected ELSE Retained
    /\ IF shown.selected # {} /\ Retained = {} THEN FeaturesCleared(shown.result # None)
                                               ELSE UNCHANGED panel
    /\ UNCHANGED <<result, wasCapped, layers, loading, shown, urgent, tokens, failing, call,
                   operations>>

-----------------------------------------------------------------------------
(* Queries and pages.                                                      *)

\* The run_dataset_query tool.
RunQuery(c, limit) ==
    /\ Operate /\ call[c] = Idle
    /\ call' = [call EXCEPT ![c] = [Idle EXCEPT !.pc = "creating", !.limit = limit]]
    /\ UNCHANGED <<pageVars, renderVars, tokens, failing>>

\* A result is never created twice.  It is drawn if the agent asked for that and
\* the service offers a map of it.
Created(c, q, drawn) ==
    /\ call[c].pc = "creating" /\ q \notin tokens
    /\ tokens' = tokens \cup {q}
    /\ layers' = IF drawn THEN layers \cup {q} ELSE layers
    /\ \E page \in Pages(q, 0, call[c].limit) : result' = [page |-> page, error |-> "none"]
    /\ ShowQuery
    /\ call' = [call EXCEPT ![c] = Idle]
    /\ UNCHANGED <<selected, wasCapped, loading, renderVars, failing, operations>>

\* The set_result_page tool, for any query of this page.
RunPage(c, q, offset, limit) ==
    /\ Operate /\ call[c] = Idle
    /\ shown.result # None /\ CanSetPage(shown.result.page)
    /\ q \in tokens
    /\ call' = [call EXCEPT ![c] = [pc |-> "paging", query |-> q, offset |-> offset,
                                    limit |-> limit, button |-> FALSE]]
    /\ UNCHANGED <<pageVars, renderVars, tokens, failing>>

\* Mutant: the button is not disabled while a page is loading.
LoadNextAgain(c) ==
    /\ Click /\ call[c] = Idle
    /\ shown.panel.open /\ ~(shown.panel.mode = "selected" /\ shown.selected # {})
    /\ shown.result # None /\ shown.result.page.next # 0
    /\ call' = [call EXCEPT ![c] = [pc |-> "paging", query |-> shown.result.page.query,
                                    offset |-> shown.result.page.next,
                                    limit |-> shown.result.page.limit, button |-> TRUE]]
    /\ loading' = TRUE
    /\ UNCHANGED <<result, panel, selected, wasCapped, layers, tokens, failing>>

\* The "Load more" button of the query results.
LoadNext(c) ==
    /\ Click /\ call[c] = Idle
    /\ shown.panel.open /\ ~(shown.panel.mode = "selected" /\ shown.selected # {})
    /\ shown.result # None /\ shown.result.page.next # 0 /\ ~shown.loading
    /\ call' = [call EXCEPT ![c] = [pc |-> "paging", query |-> shown.result.page.query,
                                    offset |-> shown.result.page.next,
                                    limit |-> shown.result.page.limit, button |-> TRUE]]
    /\ loading' = TRUE
    /\ UNCHANGED <<result, panel, selected, wasCapped, layers, tokens, failing>>

PageArrives(c) ==
    /\ call[c].pc = "paging"
    /\ \E page \in Pages(call[c].query, call[c].offset, call[c].limit) :
          result' = IF result # None /\ result.page.query = call[c].query
                    THEN [page |-> AppendPage(result.page, page), error |-> "none"]
                    ELSE result
    /\ loading' = IF call[c].button THEN FALSE ELSE loading
    /\ call' = [call EXCEPT ![c] = Idle]
    /\ UNCHANGED <<panel, selected, wasCapped, layers, renderVars, tokens, failing, operations>>

\* A request fails or is aborted.  The handler of the button marks whatever result
\* is there by then.
CallFails(c) ==
    /\ call[c] # Idle
    /\ result' = IF call[c].button /\ result # None
                 THEN [result EXCEPT !.error = "page"] ELSE result
    /\ loading' = IF call[c].button THEN FALSE ELSE loading
    /\ call' = [call EXCEPT ![c] = Idle]
    /\ UNCHANGED <<panel, selected, wasCapped, layers, renderVars, tokens, failing, operations>>

\* handleMapSourceError and handleMapSourceRecovered for a query layer.
LayerFails(q) ==
    /\ Operate /\ q \in shown.layers
    /\ failing' = failing \cup {q}
    /\ result' = IF result # None /\ result.page.query = q
                 THEN [result EXCEPT !.error = "layer"] ELSE result
    /\ UNCHANGED <<panel, selected, wasCapped, layers, loading, renderVars, tokens, call>>

LayerRecovers(q) ==
    /\ q \in failing /\ q \in shown.layers
    /\ failing' = failing \ {q}
    /\ result' = IF result # None /\ result.page.query = q /\ result.error = "layer"
                 THEN [result EXCEPT !.error = "none"] ELSE result
    /\ UNCHANGED <<panel, selected, wasCapped, layers, loading, renderVars, tokens, call, operations>>

-----------------------------------------------------------------------------
(* Layers and features.                                                    *)

\* The remove_layer tool and the button.
RemoveLayer(l) ==
    /\ Operate /\ l \in shown.layers
    /\ layers' = layers \ {l}
    /\ UNCHANGED <<result, panel, selected, wasCapped, loading, renderVars, tokens, failing, call>>

Within(hits, rows) ==
    /\ rows \subseteq hits
    /\ \A l \in Layers :
          LET of == {f \in hits : LayerOf[f] = l} IN
          Cardinality(rows \cap of) = Least(Cardinality(of), MaxSelected)

\* handleFeatureSelection: a click or a box on the map replaces the selection by
\* what it hits, at most MaxSelected features of a layer.
Select(hits) ==
    /\ Click
    /\ \A f \in hits : LayerOf[f] \in shown.layers
    /\ \E rows \in SUBSET Features :
          /\ Within(hits, rows)
          /\ selected' = rows
          /\ wasCapped' = (rows # hits)
    /\ IF hits # {} THEN ShowSelected ELSE FeaturesCleared(shown.result # None)
    /\ UNCHANGED <<result, layers, loading, tokens, failing, call>>

\* clearSelectedFeatures, from the table or by the clear_selection tool.
ClearSelection ==
    /\ Operate
    /\ selected' = {} /\ wasCapped' = FALSE
    /\ FeaturesCleared(shown.result # None)
    /\ UNCHANGED <<result, layers, loading, renderVars, tokens, failing, call>>

\* The buttons of the panel and of the items of query layers.
ClickPanel ==
    /\ Click
    /\ \/ shown.layers \cap Queries # {} /\ ToggleQueryResults
       \/ shown.panel.open /\ (shown.result # None \/ shown.selected # {}) /\ Collapse
       \/ /\ shown.panel.open /\ shown.result # None /\ shown.selected # {}
          /\ ShowQuery \/ ShowSelected
    /\ UNCHANGED <<result, selected, wasCapped, layers, loading, tokens, failing, call>>

-----------------------------------------------------------------------------
Others ==
    \/ \E c \in Calls :
          \/ LoadNext(c) \/ PageArrives(c) \/ CallFails(c)
          \/ \E limit \in PageSizes : RunQuery(c, limit)
          \/ \E q \in Queries :
                \/ \E drawn \in BOOLEAN : Created(c, q, drawn)
                \/ \E offset \in 0..Total[q], limit \in PageSizes : RunPage(c, q, offset, limit)
    \/ \E q \in Queries : LayerFails(q) \/ LayerRecovers(q)
    \/ \E l \in Layers : RemoveLayer(l)
    \/ \E hits \in SUBSET Features : Select(hits)
    \/ ClearSelection
    \/ ClickPanel

Next == Render \/ RunEffects \/ (~urgent /\ Others)

Spec == Init /\ [][Next]_vars

-----------------------------------------------------------------------------
(* Properties.                                                             *)

InPlace(page) ==
    /\ \A i \in DOMAIN page.rows : page.rows[i] \in RowsAt(page.query, page.offset + i)
    /\ page.next # 0 => page.next = page.offset + Len(page.rows)
    /\ page.next = 0 <=> page.offset + Len(page.rows) >= Total[page.query]

\* The table shows rows of one query, and "Load more" continues where they end,
\* until the last, wherever the service cuts its pages and in whatever order those
\* asked for by the button and by tools arrive, of this query or of another.  With a
\* deterministic order every row is there once and at its place; without one only
\* the number of rows and the place of the next are claimed.
RowsInPlace == result # None => InPlace(result.page)

\* "Load more" is disabled exactly while the page it asked for is under way, however
\* that request ends and whatever else is asked for meanwhile.
LoadingExact ==
    /\ loading <=> \E c \in Calls : call[c].button
    /\ \A c, d \in Calls : call[c].button /\ call[d].button => c = d

\* An open panel has something to show, no layer has more selected features than
\* the table takes, and when the page is at rest every selected feature belongs to
\* a loaded layer: layers are removed, queries answered and features selected in
\* any order, each on what the last render showed.
PanelHasContent ==
    /\ panel.open => result # None \/ selected # {}
    /\ \A l \in Layers : Cardinality({f \in selected : LayerOf[f] = l}) <= MaxSelected
    /\ AtRest => \A f \in selected : LayerOf[f] \in layers
=============================================================================

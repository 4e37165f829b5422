# HIFLD Next: a verification development

TLA+ models of the concurrent parts of HIFLD Next, model-checked with TLC and
proved about with TLAPS. Paths are relative to the root of the repository.

HIFLD Next publishes a catalog of geospatial datasets. A publisher writes a
release (an SQLite catalog and STAC documents) to object storage; three services
read it:

- the **webapp** (TypeScript): pages, a REST API and a STAC API over a local copy
  of the SQLite catalog, and a proxy to the query service; its map page loads
  catalog layers and query results, by hand or by an agent's WebMCP tools;
- the **feature server** (Python): OGC API Features over another copy of it;
- the **dataset MCP service** (Python): tools for language models, SQL over the
  datasets' Parquet files on a ClickHouse cluster, and vector tiles of query
  results, shown by a map widget.

Contents: [Inventory](#inventory), [Plan](#plan), [Modules](#the-modules),
[Runs](#the-runs), [Fairness](#fairness), [Proofs](#what-is-proved),
[Findings](#where-code-and-documents-disagree),
[Outside](#what-is-not-modelled).

## Inventory

### Components that keep state

**Tile cache** (`dataset-mcp/app/query/tile_cache.py`). State: a TTL/LRU store
of encoded tiles with byte and entry limits, and a table of computations in
progress, each with a count of waiting requests. Operations: look up, join or
start a computation; release a waiter; cancel and retire a computation nobody
waits for; store. Hard: any request may be cancelled at any await, twice; a
cancelled computation takes a while to end and may succeed after all; a request
for the same key may arrive at each of these moments. Correct if: waiters are
counted exactly, one computation per key, nobody receives another request's
cancellation, the limits bound what really runs, and calls end.

**ClickHouse query client** (`dataset-mcp/query_engine/client.py`, with
`routing.py`). State: the number of pending queries; each call's deadline and
the identifier and endpoint of its attempt. Operations: query (a loop of
attempts until one is not refused), the kill of an abandoned query. Hard:
timeouts nested in timeouts, cancellation during the cleanup of a cancellation,
a kill that overtakes the query, a lost connection that says nothing about the
query behind it. Correct if: the queue's count survives every exit, no call has
two queries at once, no query runs on without a reason, the reported reason is
the right one, and calls end in bounded time.

**Feature-server catalog** (`feature-server/app/catalog/fetcher.py`,
`registry.py`, and the lifespan and handlers of `app/asgi.py`). State: the active
snapshot with its file, reference counts, retired snapshots; the fetcher's etag,
generation, URL and last error. Operations: poll, download, validate, activate,
acquire and release a snapshot, shut down. Hard: requests in threads use a
snapshot across activations; a refresh can fail at a dozen points; the
activation thread reads what the fetcher has already changed. Correct if: a file
lives exactly as long as someone may read it, failures change nothing, and what
the fetcher believes about the registry is true.

**Webapp catalog** (`webapp/src/lib/catalog-repository.ts`,
`catalog-runtime.ts`, and the handlers in `api-client.ts` and `routes/stac`).
State: the active repository, its fingerprint and catalog URL, leases, retired
repositories; the shared promise of the start. Operations: start, timed refresh,
lease. Hard: leases across I/O and activations, a source that changes while it
is copied, a start that fails under waiting requests. Correct if: a database is
open exactly as long as it is active or leased, fingerprint, URL and repository
agree, and what is published becomes visible.

**HTTP concurrency limiter** (`dataset-mcp/app/http_app.py`,
`app/http/disconnect.py`). State: two semaphores, a count of tile requests per
query. Hard: the capacity of a request whose client has gone must be kept until
its cleanup ends. Correct if: what is counted is what runs.

**Worker pool** (`dataset-mcp/query_worker/pool.py`). State: spawned processes,
the queue of free ones, an admission lock per query. Hard: replacement of
workers during cancellation and shutdown. Only tests construct it since queries
moved to ClickHouse.

**Metadata reader** (`dataset-mcp/query_engine/metadata.py`). State: two
60-second caches of 32 entries.

**Map page: layer list and map sources** (`webapp/src/routes/`
`collections.$collectionSlug.map.tsx`, `components/map/useMapWorkspaceCommands.ts`,
`lib/webmcp/mapTools.ts`, `components/viewer/useMapInitialization.ts`). State: the
list of loaded layers, the layers being added, the sources and interactive layers
of the MapLibre map, the task that aligns them. Operations: add, remove, show,
hide and reorder layers by picker, list, URL and tools; the task's reads of
archives; tile errors. Hard: commands decide on the list of the last render while
other updates are queued; a render cancels the task between two reads. Correct
if: no layer is listed twice, and the map ends up with exactly what is listed.

**Map page: query results and data panel** (the same route,
`components/map/queryResults.ts`, `mapDataPanelState.ts`, `featureSelection.ts`).
State: the current result with the rows loaded so far, the selection, what the
panel shows. Operations: run a query, load a page by button or tool, select and
clear features, remove layers. Hard: answers arrive in any order and meet another
result; the service cuts a page at a byte budget; effects of a render act on what it showed. Correct if: rows are in place,
the button waits for its request and no longer, and an open panel has content.

**MCP map widget** (`dataset-mcp/ui/src/mcp/useMcpApp.ts`, `components/MapView.tsx`,
`components/tileSources.ts`, `App.tsx`). State of the hook: a sequence number, the
map shown with its tokens, the preparation and the refresh in progress. State of
the view: the MapLibre map, its entries and load states, the layers that wait for
a new token. Hard: results, refreshes, preparations, renders, tiles and teardown
come in any order, and tokens expire at any time. Correct if: what is shown is of
the latest result, one result is refreshed by one call, a render disturbs no
layer it does not change, and every layer ends up loaded or failed.

**STAC listing** (`webapp/src/lib/stac-api.ts`). State: none on the server; a
cursor bound to a generation travels with the client. Correct if: a crawl that
ends without an error has seen one generation, completely.

### Components without state of their own

Query application service and token codec (`dataset-mcp/app/query`), SQL policy
and result serialization, the executor (of which `QueryPanel` has the
paging), the MCP tools, the MCP catalog client,
the feature server's provider and storage, the webapp's REST routes and proxy,
its other pages and the parts of its map that only draw, the map packages, the
charts. The WebMCP tools are commands of the two parts of the map page. All are
listed one by one in `PROJECT.json`, with what is modelled of them or why nothing is.

### How they interact

    publisher --writes--> object storage <--polls-- webapp catalog, feature-server catalog
    tile request --> limiter --> tile cache --> executor --> query client --> ClickHouse replica
    page query, MCP tool ------> limiter --> executor --> query client --> ClickHouse replica
    MCP catalog client --> webapp REST API --> webapp catalog
    map page --> webapp REST API, PMTiles archives, proxy --> queries and tiles
    map widget --> MCP host --> MCP tools (tokens); map widget --> tile requests

Two catalogs follow one source independently, so that the services may serve
different revisions for a while. In the dataset service cancellation is the
signal that crosses every layer: a client that goes away cancels the tile
request, the cache cancels the computation once nobody waits for it, and the
query client kills the query; each layer keeps its admission until the one below
has ended. On the two maps React's renders are what crosses the layers: handlers
and effects act on what the last render showed, and the state has moved on.

The hazards of the code, each at its line and with the properties that cover it
or the reason none does, are in `PROJECT.json`.

## Plan

In order of importance; each step is a module, its runs, and the proofs of its
safety.

1. **TileCache**, **FeatureCatalog**, **WebCatalog**, **QueryClient**: done,
   checked and proved.
2. **SnapshotService**, the abstract specification of the two catalogs, and
   **OwnedWork**, that of the tile cache and the query client: done; the four
   refinements are checked and proved.
3. **MapWorkspace** and **QueryPanel**, the two halves of the map page: done,
   checked and proved.
4. **MapSession**, the hook of the map widget, and **MapWidget**, which composes
   it with the view: done, checked and proved, with the proof that the whole
   implements the hook.
5. **HttpCapacity**: the limiter, the tile counters and `serve_connected_tile`
   with repeated cancellation; property: capacity given back equals capacity
   taken, and not before the work it covers has ended. Then **TileServing**,
   which composes it with two copies of OwnedWork: the computations of the tile
   cache, and the queries of the query client. Not begun.
6. **StacCrawl** on WebCatalog: a crawl that completes equals one generation's
   list. **WorkerPool** and **MetadataCaches**, which are of less weight: the
   first is used by tests only, in the second a race costs one more read. The
   pure parts (the byte budget of the response reader, replica
   rotation) as functions checked against a reference definition over small
   inputs. Not begun.

Bounds planned for 5 and 6: two or three actors, two keys or sequences, one or
two units of each resource. Theorems worth proving there: the capacity
invariants of HttpCapacity for every limit. No module that is proved about uses a
RECURSIVE operator.

## The modules

| module | models | proofs |
| --- | --- | --- |
| `TileCache` | tile cache | `TileCacheProofs` |
| `QueryClient` | query client and its replicas | `QueryClientProofs` |
| `FeatureCatalog` | fetcher, registry, lifespan and handlers of the feature server | `FeatureCatalogProofs` |
| `WebCatalog` | lifecycle, runtime and handlers of the webapp | `WebCatalogProofs` |
| `OwnedWork` | what the tile cache and the query client promise | - |
| `SnapshotService` | what the two catalogs promise | - |
| `MapWorkspace` | layer list, commands and source task of the map page | `MapWorkspaceProofs` |
| `QueryPanel` | query results, selection and data panel of the map page | `QueryPanelProofs` |
| `MapSession` | the hook of the map widget | `MapWidgetProofs` |
| `MapWidget` | the hook, React's renders and the view | `MapWidgetProofs`, `MapViewProofs` |
| `MC...` | definitions for TLC | - |

Operators whose comment starts with "Mutant" are wrong variants of the operator
that follows them; no specification uses them. Each property has one that breaks
it, which shows that the property depends on the code.

### TileCache

asyncio runs one task at a time and the cache's lock is never held across an
await, so what runs between two awaits is one action. A *flight* is an
`_InFlight` object with its compute task and its cleanup task.

| state | code |
| --- | --- |
| `pc`, `key`, `at` | where a call of `get_or_compute` is suspended, its key and its flight |
| `cancelled`, `outcome` | a pending cancellation; how the call ended |
| `entries`, `bytes` | `_entries` in LRU order, `_bytes`; `left` is `expires_at` minus the clock |
| `inFlight`, `waiters` | `_in_flight`, `_InFlight.waiters` |
| `task`, `taskKey`, `cleanup` | the compute task, what it computes; the task of `_retire` |

Actions: `Call` and `Retry` run the loop of `get_or_compute` (hit, join, wait
for a retiring flight, start, or reject); `TaskStores` and `TaskRaises` end a
computation; `Leave...` is `_release_waiter` in its cases; `Cancel` requests a
cancellation and `CancelledWhileRetired`, `CancelledInCleanup` deliver it at the
waits where it has its own effect; `RetireBegins` and `RetireEnds` are
`_retire`; `Tick` is the clock. A tile is its size in bytes, and what a store
holds in all is the last of its partial sums (`BytesOf`). The content of keys and
tiles is left out.

### QueryClient

| state | code |
| --- | --- |
| `pending` | `_pending` |
| `place` | the await a call of `query` is at: the router, the HTTP exchange, the sleep, `_finish_cancellation` |
| `attempt`, `replica`, `owner` | `internal_query_id`, `endpoint`, and the call of an attempt |
| `cause`, `cancelled`, `expired` | the exception in flight in `_attempt`, and the interruptions seen meanwhile |
| `left`, `budget` | ticks to the deadline, and of the five seconds of a kill |
| `query` | what has become of the query on its replica (external) |
| `unkilled` | history: queries whose kill failed or came before them |

Actions: `Call`, `Send`, `Receive`, `Refused`, `Wake` are the loop of `query`;
`TooLarge`, `TransportFails`, `AttemptTimesOut` the failures of `_attempt`,
which all run the cleanup; `Expire` and `Cancel` interrupt whatever the call
waits for, and are only remembered during the cleanup; `Kill` and `KillFails`
end it. `RunQuery`, `RefuseQuery`, `EndQuery` are the replica: a request whose
connection was closed may still run. `wait_end_of_query` makes a replica answer
when the query has ended, which is why a response can be too large only then.
The texts of server errors are abstracted to "refused" (code 202) and "error".

### OwnedWork

`holds` says which work each user waits for or is stopping, `running` what runs,
and `strays` what its last user could not stop. `Begin`, `Join`, `End`, `Leave`,
`Stop` and `Lose` say when work may start and when a user may go: after the work
has ended, while another user stays with it, or after stopping it; work that
could not be stopped is a stray. At most `Limit` works run besides the strays.

| OwnedWork | TileCache | QueryClient |
| --- | --- | --- |
| `holds` | the flight of a caller that awaits its task or its cleanup (`Held`) | the attempt of a call |
| `running` | flights whose task has not ended (`Computing`) | attempts whose request travels or whose query runs (`Underway`) |
| `strays` | none: `_retire` waits for the task | `unkilled` |
| `Limit` | `max_in_flight` | `max_pending_queries` |

### FeatureCatalog

A revision is what the polled URL answers with, named by its etag; two revisions
may hold the same generation. `refresh` is cut where it awaits:
`step` is the HTTP answer or the thread it waits for.

| state | code |
| --- | --- |
| `activeEtag`, `activeGeneration`, `catalogUrl`, `previousUrl`, `result` | the fetcher's fields; `last_error` is set when `result` is "failed" |
| `current`, `references`, `retired` | `SnapshotRegistry.current`, `ApiSnapshot.references`, the retired list |
| `files`, `made`, `root` | existing SQLite files; the revision a snapshot was built from; the revision whose URL its links use |
| `request`, `holds`, `checked` | where a request is, what it acquired, what an items request was validated against |
| `phase` | the lifespan |

Actions: `Begin`, `PointerAnswers`, `NotModified`, `CatalogAnswers`,
`CandidateOpens`, `Replace`, `Activated` and the failures `FetchFails`,
`OpenFails`, `RejectReuse`, `BuildFails`; `BeginItems`, `EndValidation`,
`Execute`, `Respond` for requests; `Started`, `Stop`, `Close` for the lifespan;
`Publish` is the publisher. A rollback is a publication of an old revision.
The validations of a candidate and the many errors of a download are a success
or a failure at the step where they happen.

### WebCatalog

JavaScript runs a callback with its promise continuations to the end: an action
is what runs between two waits for I/O or the timer.

| state | code |
| --- | --- |
| `repository`, `fingerprint`, `activeUrl`, `lastError` | the fields of `CatalogLifecycle` |
| `leases`, `retired`, `open` | the lease map, the retired set, databases not yet closed |
| `step`, `seen`, `copied` | where `#sourceSnapshot` waits, the fingerprint it was told, what it wrote |
| `runtime` | the shared promise of `activeCatalogLifecycle` |
| `request`, `holds`, `url`, `data` | a handler's place, its lease, its captured URL, the revisions its answer is made of |

Actions: `TimerFires`, `SourceAnswers`, `Unchanged`, `Written`, `Activate`,
`RefreshFails` for refreshes (the same steps serve the start); `Arrive`,
`Lease`, `Release` for STAC routes, which hold one lease, and `ReadDataset`,
`ReadFiles`, `EndPage` for dataset pages, which lease per query. `sourceKind`
is what `CATALOG_*` configures. A file source is fingerprinted by `stat` before
it is copied, so that its fingerprint may be older than the copy; the
properties about fingerprints are stated for the other two.

### SnapshotService

`active`, `users`, `alive`, and `Swap`, `Enter`, `Leave`, `Shutdown`. The
resource of a snapshot exists exactly while it is active or used. FeatureCatalog
implements it with the candidate's file excluded until the registry has it,
WebCatalog with repositories as snapshots and open databases as resources.

### MapWorkspace

A state setter queues its update; the commands go on reading the list of the last
render (`loadedLayersRef`) until `Render`. An action is one turn of the event
loop; an await on a promise that is settled does not end the turn.

| state | code |
| --- | --- |
| `layers`, `rendered`, `dirty` | `loadedLayers` with the queued updates applied, as of the last render, and whether they differ |
| `call`, `outcome` | where each call of `addDatasetLayer` or of the `add_dataset_layer` tool waits, and what it was answered |
| `pending`, `prepared` | `pendingLayerIdsRef`, `preparedCatalogLayersRef` |
| `styleReady`, `sync`, `reading` | `mapsWithInitialStyle`; the task `syncLoadedMapSources` and the archive it reads |
| `onMap`, `managed`, `described`, `interactive` | the map's sources, `managedSourceIds`, `vectorLayersBySource`, `interactiveLayerIds` |
| `failures` | `runtimeSourceFailuresRef` |

Actions: `Render` (which cancels the task and starts another), `StyleLoads`,
`ReadArchive` and `FailToRead` (the task's only waits), `TileFails` and
`TileLoads`, `PickLayer`, `CallTool`, `Prepared` and `Resolved` for adding,
`RemoveLayer`, `SetLayerVisibility`, `ReorderLayers`, `ShowQuery`, `Navigate`.
`Run` is the task between two waits: it walks the list of its render and, at the
end, removes what is not listed. Styles, palettes and the contents of the
archives are left out.

### QueryPanel

| state | code |
| --- | --- |
| `result`, `loading` | `queryResult` with its pages and error, `isLoadingQueryPage` |
| `panel`, `selected`, `wasCapped` | `dataPanelState`, `selectedFeatures`, `wasSelectionCapped` |
| `layers` | the ids of the loaded layers |
| `shown`, `effects`, `urgent` | what the last render showed; its effects are due; a click is to be rendered before the next event |
| `tokens`, `failing` | the keys of `queryTokensRef`; query layers with a failed tile |
| `call` | queries and pages under way, and whether the button asked |

Actions: `RunQuery`/`Created`, `RunPage`, `LoadNext`, `PageArrives`, `CallFails`;
`LayerFails`, `LayerRecovers`, `RemoveLayer`; `Select`, `ClearSelection`,
`ClickPanel`; `Render` and `RunEffects`. A row is its query and its number, which
is what tells a page in place from one that is not; `AppendPage` is
`appendQueryPage`, `FeaturesCleared` and the others the cases of
`reduceMapDataPanelState`.

The pages are those of the query service. `Lengths` and `NextOffset` are
`serialize_rows` (`dataset-mcp/app/query/serialization.py:154`): a page ends at its
limit, at the last row, or at any row before, where the byte budget ends it, and the
next begins where it ended; a first row over the budget is a `CallFails`. Every page is
a new execution with `LIMIT` and `OFFSET` (`query_engine/executor.py:167`), so the
place of a row is only certain if the SQL orders it. `Ordered` names the results
for which it does; `RowsAt` lets the rows of the others come from anywhere in the
result, which is what `result_order_is_not_deterministic` warns of
(`app/query/service.py:156`). `deterministic_order` only says that there is an
`ORDER BY`: a result whose `ORDER BY` has ties, or whose source is rewritten under the
same name between two pages, is not in `Ordered`. `Total` is assumed to stay: that
a source gains or loses rows between two pages is not modelled.

### MapSession and MapWidget

MapSession is the hook `useMcpApp` alone. MapWidget extends it with what the
hook's state is for: each of its steps is one of the hook, of React, or of the
MapLibre map.

| state | code |
| --- | --- |
| `sequence`, `config`, `failed` | `mapSequenceRef`; `mapConfiguration` with its tokens; `bridgeError` |
| `renewal`, `preparation` | `refreshExpiredRef`; the controller of `preparationAbortRef` with its closure |
| `calls`, `refreshing`, `started` | calls of `refresh_map` in flight, and the one that renewals join |
| `issued`, `expired` | answers of the server so far; those whose tokens it refuses by now |
| `rendered`, `effectsDue` | `latestRef`; the effects of the last render have not run |
| `view` | the MapLibre map: `mapLifecycleKey` and whether its style has loaded |
| `entries`, `statuses` | `activeLayers`; the load states reported for each id |
| `handlers`, `renewing` | error events whose body is being read; `renewingLayers` |

Actions of the hook: `ToolResult`, `ToolFails`, `Teardown`, `Renew`,
`RefreshIgnored`, `RefreshAnswered`, `RefreshRefused`, `LayerPrepared`,
`LayerFails`; of the view: `Render`, `RunEffects`, `StyleLoads`, `MetadataArrive`,
`MetadataFail`, `SourceLoads`, `SourceReloads`, `TileFails`, `HandleError`.
`Expire` is time. An answer of the server issues an id and a token for each of
its query layers; one number, `issued`, stands for all of them. Time does not
pass within a turn; pending effects run before the next render; events of a view
that is no longer rendered are lost. Layers that the result leaves to the widget
to prepare are part of the contract and of the widget's tests; the server of
this revision does not produce them.

## The runs

| run | constants | shows |
| --- | --- | --- |
| `tile_cache_safety` | 2 callers, 3 keys, sizes 1, 2 and 4, 3 bytes, 2 entries, 2 places, TTL 1 | `WaitersExact`, `NobodyAwaitsACancelledTask`, `SingleFlight`, `OnlyTheCancelledSeeCancellation` and the refinement `ImplementsOwnedWork` under joins, releases and repeated cancellation in every order; `StoreAccounting` for entries that fit alone, together, or never |
| `tile_cache_liveness` | 2 callers, 2 keys, 1 place | `ComputationsBounded`, `RetiredWaitEnds`, `CallsEnd` |
| `query_client` | 2 calls, 1 place, 2 attempts, 2 replicas, deadline 2, kill 1 | `PendingExact`, `QueriesAreOwned`, `OutcomeIsJust`, `EndsInTime`, the refinement `ImplementsOwnedWork`, `CallsEnd` |
| `feature_catalog` | both kinds of upstream, 3 revisions (2 of one generation), 3 snapshots, 1 request | `ReferencesExact`, `FilesExistIffUsed`, `RevisionsAgree`, `FailedRefreshKeepsSnapshot`, the refinement `ImplementsService`, and `Converges` |
| `web_catalog` | three kinds of source, 3 revisions, 3 repositories, 1 request | `LeasesKeepDatabases`, `RevisionsAgree` (also when the object changes between HEAD and GET), `ImplementsService`, `Converges`, `WaitingEnds` |
| `map_workspace` | 2 archives, 1 query layer, 2 calls, 3 operations, 1 fault | `UniqueIds`, `MapMatchesList`, `PendingExact`, `Settles` |
| `query_panel` | an ordered result of 3 rows and an unordered one of 2, pages of up to 1 and 2, 2 requests, 3 features, 4 operations | `RowsInPlace`, `LoadingExact`, `PanelHasContent` |
| `map_widget` | 3 maps, 2 results or errors, 2 expiries or failures | `OnlyLatestMap`, `RenewalsAreUnderWay`, `ViewMatches`, `KeepsSources`, `WidgetSettles` |
| `feature_catalog_mixed`, `feature_catalog_unlink`, `web_catalog_mixed`, `map_workspace_failed_add` | as the runs above | the findings below |

`TypeOK` is checked in `map_workspace` and `map_widget`; that of the other
modules is proved, which says more.

Why the bounds are enough:

- *Callers and flights.* A race on a computation is between one that leaves and
  one that joins; with three identities of flights and two places, a retiring
  computation, the one that replaces it and one of another key coexist, and
  identities are reused. The theorems hold for any number of callers.
- *Keys.* Two keys compete for the last place; three, with two entries, make an
  eviction choose.
- *Snapshots and repositories.* Three let a request hold one while the active one
  is replaced by a third; identities are reused once free. One request meets
  every step of a refresh at every step of its own; that counts are right for
  any number is proved.
- *Revisions.* Three, with rollbacks, allow "new, old, new again", and a
  revision that repeats a generation.
- *Query client.* With one place and two callers one of them meets a full
  queue; the second attempt identity lets a stray of an earlier call run beside
  a new query. Deadline 2 lets a refusal, a sleep and a retry fall on different
  ticks, and a kill budget of 1 is enough to pass the deadline during a cleanup.
- *Clock.* An entry's life and a call's deadline are counted down, never a
  clock up, which keeps the state space finite without a bound.
- *Map page.* Two calls race to add one layer; two archives let a render fall
  between two reads and change the order of the rest; three operations are an
  addition, a removal and one more change before the next render. A result of
  three rows takes two pages of two, or three if they are cut short, so that a
  page may follow, overlap or precede another, and a result of two rows without an
  order replaces it meanwhile. Four
  operations are a query, two pages and a change of layers or selection.
- *Map widget.* Two results, so that everything of the first may meet the
  second; a map of two layers, one of each kind, one whose only layer has the
  same id but another address, and one that needs a new MapLibre map. Two events
  are an expiry and a failure of what renews it, or two expiries.
- `MaxOperations`, `MaxFaults`, `MaxResults` and `MaxEvents` are the only bounds
  that the code does not have; the theorems hold for every value of them.

Symmetry is used only in runs without liveness. Deadlock is checked except where
the system may stop: a closed server (FeatureCatalog), and a page or widget at
rest whose user and host do nothing more (MapWorkspace, QueryPanel, MapWidget).

## Fairness

- *TileCache.* The event loop runs what is ready (`Retry`, `Leave`,
  `LeaveCleanup`), and compute tasks end, because queries have deadlines (see
  `CallsEnd` of QueryClient) and a cancelled one is killed. Callers owe nothing.
  `CallsEnd` assumes that cancellations stop: otherwise a caller may find
  another retiring computation each time it looks.
- *QueryClient.* Time passes; the call's timeout fires; a kill ends by its five
  seconds. Replicas, the network and the router are allowed to do nothing at
  all; timers that are due fire before time goes on.
- *FeatureCatalog.* The poll interval elapses, HTTP exchanges and threads end
  (`Begin`, `Refresh`, `Started`): httpx gives up by its default timeouts.
- *WebCatalog.* The timer fires and refreshes and handlers end. `fetch` is
  called without a timeout of its own; the HTTP client's defaults are assumed.
- *MapWorkspace.* React renders what is due; the style loads, or the fallback
  the page installs when it does not; reads of archives and requests to the
  catalog end, with success or failure. Nobody owes a command or a tile.
- *MapWidget.* React renders and runs effects; the host answers calls or lets
  them fail by its timeout; bodies of failed tiles and tile metadata are read or
  time out after 15 seconds; the style loads, and MapLibre reaches idle.

`Settles` needs that reads do not fail for ever, which `MaxFaults` and the empty
`Broken` give: a read that fails marks its layer, the mark is a new list, and its
render starts the task again. `WidgetSettles` needs that tokens do not expire for
ever, which `MaxEvents` gives; the host owes no further message.

`Converges` of both catalogs assumes that publications and failures stop, and
nothing about when.

## What is proved

TLAPS proves the following for every value of the constants that satisfies the
modules' assumptions (finite sets of actors, positive limits, and distinct null
values), where TLC checks one instance.

**TileCacheProofs**: `TypeOK`, `WaitersExact`, `NobodyAwaitsACancelledTask`,
`SingleFlight` (`OneComputationPerKey`, `NoEntryWhileComputing`,
`ComputationsAreOwned`), `ComputationsBounded`, `OnlyTheCancelledSeeCancellation`,
`StoreAccounting`, `NobodyWaitsInVain`, and that the module implements OwnedWork.
The properties are not inductive: that nobody awaits a cancelled task needs that
a flight with a cleanup is not joined, which needs that it stays registered under its key until the task has ended, which
needs that the caller that started the cleanup waits for it. `IInv` says for
each caller what its flight looks like, for each registered flight what its task
does, and for each flight in use that it is registered. `ComputationsBounded`
follows by an injection of the running computations into the table. That the
store has no entry of a key under computation needs that its keys are distinct
(`SInv`), since eviction and renewal are about positions.

`StoreAccounting` is about a sum over the entries, which the code keeps in step
by additions and subtractions. The sums lemmas say how the sum changes when an
entry is appended, dropped from the front, or taken out of the middle. Each is an
induction over positions, done by contradiction: the least position at which two
sums differ has a predecessor at which they agree. With them the account is exact
after every store, renewal, expiry and eviction, the limits hold, and the tile
that is being stored is never what its eviction takes (`StoredTileIsKept`).

`NobodyWaitsInVain` is the safety half of `RetiredWaitEnds` and `CallsEnd`: a task
that is awaited runs or has ended, and a retirement that is awaited was started and
its task cancelled, so that only the event loop's fairness is missing. It needs
that a cleanup which waits has cancelled its task before (`WaitsHold`).

**QueryClientProofs**: `TypeOK`, `PendingExact`, `QueriesAreOwned`
(`RunningIsOwned` and `OneQueryPerCall`), `OutcomeIsJust`, `EndsInTime`, and that
the module implements OwnedWork. `IInv`
adds that a call has an attempt exactly while it sends or kills it and that
attempt and owner point to each other (`CallsHold`, `AttemptsHold`), that an interruption is remembered
nowhere but in a cleanup (`InterruptionsHold`), and that what is overdue is
covered by what the cleanup has used up (`TimesHold`). The refinement needs that
a stray is a query that runs (`StraysHold`). `QueriesAreBounded`, that at most
`max_pending_queries` queries run besides strays, is proved from OwnedWork alone
and carried over by the refinement.

**FeatureCatalogProofs**, in layers, each an invariant on top of the one
before: `CountInv` (types and reference counts, whatever fails), `FilesInv` (who
may use which file, at each step of a refresh) and `RevisionInv` (which revision
the fetcher's fields and the snapshots are of). From them `TypeOK`,
`ReferencesExact`, `FilesExistIffUsed`, `FetcherAgreesWithRegistry`,
`RevisionsAgree`, `FailedRefreshKeepsSnapshot`, `UnchangedIsServed`, and that the
module implements SnapshotService. All but the first two assume that removing a
file does not fail (`UnlinkMayFail = FALSE`); the finding
`feature_catalog_unlink` shows that they need it. `ServedInv`, on top of
`CountInv`, does without: the links of every snapshot lead into its own release
(`LinksMatchRelease`, the other half of `RevisionsAgree`), and a snapshot whose
etag the fetcher holds has its file (`ServedFileExists`). It needs of each step
of a refresh where the candidate's file is and whom its removal can hurt
(`CandidateHolds`).

**WebCatalogProofs**: `TypeOK`, `LeasesKeepDatabases` (`LeasesExact` and
`OpenIffUsed`), `RevisionsAgree` (`UrlBacksRepository` and
`FingerprintIsServed`), `StartedServes`, and that the module implements
SnapshotService, for the three kinds of source. `IInv` adds what a refresh knows
at each wait and that every repository in use was made of a revision. On top of
it, `AnswersHold`: a STAC answer is made of the one revision its lease began
with, whatever is activated meanwhile. `StartHolds`: while requests wait for the
start, it is under way, which with fairness gives `WaitingEnds`.

The refinements of SnapshotService are proved by showing that in every reachable
state the resources that exist are those in use: a step then is `Swap`, `Enter`,
`Leave`, `Shutdown` or a stutter according to what it does to `active` and
`users`. Those of OwnedWork are proved action by action: for the tile cache the
invariant says that a caller who leaves a computation that still runs is not its
last waiter, and a place is free when one starts because the running
computations are as few as the registered flights; for the query client a call
holds its attempt until the kill has ended, and the calls are counted by
`PendingExact`.

**MapWorkspaceProofs**: `TypeOK`, `UniqueIds`, `PendingExact`, `MapMatchesList`,
`WorkIsDue`, `AnswersTellList`.
That the map agrees with the list at rest is a fact about the end of a run of the
source task, of which the code keeps only the position. `WorkspaceInv` therefore
says what a run that is reading has already done (`RunSoFar`: every earlier layer
of its list is on the map and described, and what it reads is known for later
removal), that the sources of runs that were cancelled are never forgotten
(`onMap` is within `managed`), and that a run that ends with a failure leaves a
render due. The lemma `RunEffect` says what one stretch of a run does, and
`Stop` where it ends; each command has a lemma that the new list is one without
repetitions. `WorkIsDue` is the safety half of `Settles`: a page that is not at
rest waits for the style, a render or an archive, so that no cancelled run is
ever forgotten. `AnswersTellList` is an action property: a call that waited is
answered "ok" with its layer in the list, and as failed with the list unchanged,
but for the one case of the finding `map_workspace_failed_add`.

**QueryPanelProofs**: `TypeOK`, `RowsInPlace`, `LoadingExact`, `PanelHasContent`.
`IInv` relates the state to the last render: the button is disabled, or about to
be, while its request is under way (`ButtonHolds`); what was shown of queries is
still there (`ResultHolds`); selected features are of layers last shown, but for
those the due effects will drop (`SelectionHolds`). `FetchedPage` and
`AppendedPage` are the arithmetic of pages: one that the service answers is in
place however it is cut, and one that continues rows in place leaves them in place,
for any lengths and page sizes. What is proved of a result outside `Ordered` is that
its rows are its own and that the next page begins after as many as there are.

**MapWidgetProofs**: the types of the hook, `OnlyLatestMap`,
`RenewalsAreUnderWay`, `LayersPrepared`, and that every step of MapWidget is a step of MapSession
or leaves it alone (`Spec => SessionSpec`), so that what holds of the hook holds
of the widget. `SessionInv` adds that a call of the current sequence is the one
renewals join (`CallsExact`) and that what is being prepared can be renewed
(`MapExact`). `LayersPrepared`: a layer that is being prepared has a preparation
that will replace it, or a renewal under way that replaces the whole map.

**MapViewProofs**, on top: `TypeOK`, `ViewMatches`, `KeepsSources`, and
`Settled \/ SomethingIsDue`, the safety half of `WidgetSettles`: a widget that is
not at rest waits for an event that somebody owes it. `ViewInv`
says of each entry that its id, its progress and its load state go together
(`EntryOK`), also between a render and its effects, when entries and render
differ, and of each error being handled that its layer has a source, and a
token if the error is an expiry. Two layers of
one render have two ids because the position is part of the id (`IdUnique`).

Only model-checked: the liveness properties (`RetiredWaitEnds`, `CallsEnd` of
TileCache and QueryClient, `Converges` of both catalogs, `WaitingEnds`,
`Settles`, `WidgetSettles`), which need fairness. Every invariant, action property
and refinement of a passing run is proved.

## Where code and documents disagree

- `feature_catalog_mixed`: an items request is validated against one snapshot
  and executed against another (`feature-server/app/asgi.py:227`), although the
  design has every request capture the snapshot once.
- `feature_catalog_unlink`: `SnapshotRegistry.replace` publishes the new
  snapshot before its last step that can fail (`registry.py:42`); a failure is
  reported as a failed refresh, which removes the file of the snapshot that is
  now active. `ServedFileStays` proves that it happens only with the fetcher's
  etag left behind.
- `web_catalog_mixed`: a dataset page reads the dataset and its files under two
  leases (`webapp/src/lib/api-client.ts:602`), and may combine two revisions.
  STAC answers cannot, which is proved (`StacAnswersAreOfTheirLease`).
- `map_workspace_failed_add`: `add_dataset_layer` with `visible: false` adds the
  layer and then hides it by the list of the last render, which does not have it
  yet (`webapp/src/lib/webmcp/mapTools.ts:307`): the tool fails and the layer
  stays, visible, although the design has failures change nothing.

Met while modelling, and not stated by a run:

- Sources of removed layers. The design has a test that sources "coexist and clean
  up independently" (`docs/superpowers/specs/2026-08-30-webmcp-webapp-design.md:760`);
  the source task removes what is no longer listed only at its end
  (`useMapInitialization.ts:868-869`), so that a listed layer that cannot be read
  keeps removed ones on the map until a run succeeds. `MapMatchesList` speaks of
  pages that have come to rest after a run to the end.
- `dataset-mcp/app/tools/maps.py` gives catalog layers a `collection_slug` and
  names of its own, where `dataset-mcp/ui/src/mcp/contracts.ts:135-158` is strict
  and requires `collection_id` and others: the widget refuses every map with a
  catalog layer. MapWidget has query layers and external tiles only.
- `useMcpApp.ts:241`: a refreshed map without open layers does not abort the
  preparations of the result before it; a late one publishes the old layers with
  their expired tokens. The next renewal heals it, which is why `WidgetSettles`
  holds.
- `MapView.tsx`, about 1217: the late error of an external layer is charged to its
  successor when that has the same id; about 950, a snapshot that is queued may
  follow the report "failed"; 1115-1122, an entry that is kept keeps the name it
  had in the reported states.
- The route of the map page: the results of two queries apply in the order of the
  answers; the failure of a page marks the result that is current by then; tokens
  of queries are kept as long as the page; the same layer twice in the URL is
  listed twice (the model's `RouteLists` have it once).

## What is not modelled

- Contents: SQL, Parquet, geometry, STAC documents, tiles, styles, texts of
  errors. They are members of small sets where a property tells them apart.
- `CatalogLifecycle.close`, which only tests call, and leftover candidate files.
- The router's address cache and rotation: any replica may be chosen.
- `ready` and `close` of the query client.
- The limiter, worker pool, metadata caches and STAC cursors; the plan and
  `PROJECT.json` say why they come later. Of the limiter, TileCache has the
  cancellations it causes.
- Of the map page: styles, palettes, export, camera, the search of the picker and
  the columns of the table. `QueryPanel` and `MapWorkspace` are not composed: they
  share the layers of queries, which either creates and removes by itself.
- Of the map widget: hidden layers, empty results, selection and highlights, and
  the notices about load states to the host, which are read off `statuses`.
- Smaller hazards that are known and have no property: a caller that joins a
  computation after its failure (`tile_cache.py:118`); a release pointer that
  names the active generation under a new etag (`fetcher.py:141`); an `OSError`
  in the `finally` of a refresh (`fetcher.py:165`); `_execute` answering 503 for
  any `RuntimeError` (`asgi.py:197`); leftover candidate files, the error kept by
  an unchanged source, and `close` under a lease (`catalog-repository.ts:696`,
  `698`, `721`); a `fetch` that hangs (`751`); an order that is given for an older
  list (`useMapWorkspaceCommands.ts:305`).
- Crashes of a whole process: each service starts from nothing but the
  published catalog, so that a restart is `Init`; a page or widget that is
  reloaded starts from its URL or its host's next message.
- Pages, forms, tables, charts and documentation of the webapp, which are most of
  its lines and render what they are given without state that outlives a render:
  a model of them would restate them.

----------------------------- MODULE MapWidget -----------------------------
(***************************************************************************)
(* The map widget as a whole: the hook of MapSession, React's renders of   *)
(* the map it holds, and the MapLibre map of the view with the entries,    *)
(* load states and token renewals of its layers.                           *)
(* (dataset-mcp/ui/src/App.tsx, src/components/MapView.tsx)                *)
(*                                                                         *)
(* What the hook sets is seen by the view at the next render, and the      *)
(* effects of a render are a turn of their own; events of the map may come *)
(* in between.                                                             *)
(***************************************************************************)
EXTENDS MapSession

CONSTANTS
    KeyOf       \* mapLifecycleKey: worker, title and camera of a definition

ASSUME KeyAssumption ==
    /\ DOMAIN KeyOf = Maps
    /\ None \notin [key : {KeyOf[m] : m \in Maps}, style : BOOLEAN]

VARIABLES
    rendered,   \* latestRef: the map and the tokens of the last render, or None
    effectsDue, \* the effects of that render have not run
    view,       \* the MapLibre map: its lifecycle key and styleReady, or None
    entries,    \* activeLayers: layer and progress of each id
    statuses,   \* the load states that are reported for each id
    handlers,   \* error events whose body is being read
    renewing    \* renewingLayers: ids, with the call each of them waits for

viewVars == <<rendered, effectsDue, view, entries, statuses, handlers, renewing>>
mapVars == <<view, entries, statuses, handlers, renewing>>
vars == <<sessionVars, viewVars>>

\* The id of a layer: query_id, external-<n> or preparing-<n>.
Id(layer) ==
    CASE layer.kind = "query" -> <<"query", layer.pos, layer.issue>>
      [] layer.kind = "tiles" -> <<"external", layer.pos, 0>>
      [] OTHER                -> <<"preparing", layer.pos, 0>>

Wanted == {rendered.layers[i] : i \in DOMAIN rendered.layers}
Key(c) == KeyOf[c.map]
NoEntries == [id \in {} |-> None]
Progress == {"none", "resolving", "added"}
States == {"preparing", "loading", "loaded", "failed"}

TypeOK ==
    /\ SessionTypeOK
    /\ rendered = None \/ rendered \in Shown
    /\ effectsDue \in BOOLEAN
    /\ view = None \/ (view.style \in BOOLEAN /\ \E m \in Maps : view.key = KeyOf[m])
    /\ \A id \in DOMAIN entries : entries[id].layer \in Layer /\ entries[id].progress \in Progress
    /\ \A id \in DOMAIN statuses : statuses[id] \in States
    /\ \A h \in handlers : h.layer \in Layer /\ h.code \in {"query_token_expired", "other"}
    /\ \A r \in renewing : r.call \in Call

Init ==
    /\ SessionInit
    /\ rendered = None /\ effectsDue = FALSE
    /\ view = None /\ entries = NoEntries /\ statuses = NoEntries
    /\ handlers = {} /\ renewing = {}

-----------------------------------------------------------------------------
(* Rendering.                                                              *)

\* App shows an error, nothing yet, or the view.
ToRender == IF failed THEN None ELSE config

\* React runs the effects of a render before it renders again.
Render ==
    /\ ~gone /\ ~effectsDue /\ rendered # ToRender
    /\ rendered' = ToRender /\ effectsDue' = TRUE
    /\ UNCHANGED <<sessionVars, mapVars>>

\* Mutant: no default for a layer that needs no preparation.
StatusOfKind(layer) == layer.kind

InitialStatus(layer) ==
    IF layer.kind \in {"preparing", "failed"} THEN layer.kind ELSE "loading"

\* A layer of the tile service is on the map at once, an external one when its
\* metadata are there.
NewEntry(layer) ==
    [layer |-> layer,
     progress |-> CASE layer.kind = "query" -> "added"
                    [] layer.kind = "tiles" -> "resolving"
                    [] OTHER -> "none"]

\* Source, tile_url, query_token and preparation_status are as before.
Same(old, new) == old = [new EXCEPT !.map = IF new.kind = "tiles" THEN @ ELSE old.map]

\* Mutant: an entry is compared by its id only.
KeptById(layer) == Id(layer) \in DOMAIN entries

\* Mutant: every render builds all layers anew.
KeptNever(layer) == FALSE

Kept(layer) == Id(layer) \in DOMAIN entries /\ Same(entries[Id(layer)].layer, layer)

\* initializeQueryLayers: what is not wanted, or has changed, leaves the map and
\* the states; what is new is added; the rest keeps its source and its state.
Reconcile ==
    LET ids == {Id(l) : l \in Wanted}
        Of(id) == CHOOSE l \in Wanted : Id(l) = id
    IN /\ entries' = [id \in ids |->
            IF Kept(Of(id)) THEN [entries[id] EXCEPT !.layer = Of(id)] ELSE NewEntry(Of(id))]
       /\ statuses' = [id \in ids |->
            IF Kept(Of(id)) THEN statuses[id] ELSE InitialStatus(Of(id))]

Dispose == entries' = NoEntries /\ handlers' = {} /\ renewing' = {}

\* The map of the view serves the last render as well.
InPlace == view # None /\ view.key = Key(rendered)

\* The lifecycle effect and the effect that reconciles.
RunEffects ==
    /\ ~gone /\ effectsDue /\ effectsDue' = FALSE
    /\ \/ /\ rendered = None
          /\ view' = None /\ statuses' = NoEntries /\ Dispose
       \/ /\ rendered # None
          /\ ~InPlace
          /\ view' = [key |-> Key(rendered), style |-> FALSE]
          /\ statuses' = [id \in {Id(l) : l \in Wanted} |->
                InitialStatus(CHOOSE l \in Wanted : Id(l) = id)]
          /\ Dispose
       \/ /\ rendered # None /\ InPlace
          /\ IF view.style THEN Reconcile ELSE UNCHANGED <<entries, statuses>>
          /\ UNCHANGED <<view, handlers, renewing>>
    /\ UNCHANGED <<sessionVars, rendered>>

\* A view that is no longer rendered ends with its cleanup; what its map does
\* until then is lost.
Live == ~gone /\ view # None /\ rendered # None

\* Mutant: layers are added only by the effects of a render.
StyleLoadsOnly ==
    /\ Live /\ ~view.style
    /\ view' = [view EXCEPT !.style = TRUE]
    /\ UNCHANGED <<sessionVars, rendered, effectsDue, entries, statuses, handlers, renewing>>

\* style.load of the map; latestRef may be a render ahead of the effects.
StyleLoads ==
    /\ Live /\ ~view.style
    /\ view' = [view EXCEPT !.style = TRUE]
    /\ Reconcile
    /\ UNCHANGED <<sessionVars, rendered, effectsDue, handlers, renewing>>

-----------------------------------------------------------------------------
(* Events of the map.                                                      *)

SetStatus(id, status) ==
    statuses' = IF id \in DOMAIN statuses THEN [statuses EXCEPT ![id] = status]
                                          ELSE statuses

MapEvent == Live /\ UNCHANGED <<rendered, effectsDue, view>>

\* resolveTileSource returned, and the entry is still the one that asked.
MetadataArrive(id) ==
    /\ MapEvent
    /\ id \in DOMAIN entries /\ entries[id].progress = "resolving"
    /\ entries' = [entries EXCEPT ![id].progress = "added"]
    /\ UNCHANGED <<sessionVars, statuses, handlers, renewing>>

MetadataFail(id) ==
    /\ MapEvent /\ Trouble
    /\ id \in DOMAIN entries /\ entries[id].progress = "resolving"
    /\ entries' = [entries EXCEPT ![id].progress = "none"]
    /\ SetStatus(id, "failed")
    /\ UNCHANGED <<handlers, renewing>>

OnMap(id) == id \in DOMAIN entries /\ entries[id].progress = "added"

\* render and idle of the map: reportLoadedSources.
SourceLoads(id) ==
    /\ MapEvent
    /\ OnMap(id) /\ id \in DOMAIN statuses /\ statuses[id] = "loading"
    /\ \A r \in renewing : r.id # id
    /\ SetStatus(id, "loaded")
    /\ UNCHANGED <<sessionVars, entries, handlers, renewing>>

\* sourcedataloading: the map was moved and loads tiles.
SourceReloads(id) ==
    /\ MapEvent /\ Trouble
    /\ OnMap(id) /\ id \in DOMAIN statuses /\ statuses[id] = "loaded"
    /\ SetStatus(id, "loading")
    /\ UNCHANGED <<entries, handlers, renewing>>

\* A tile fails: the layer is looked up in the last render, the body of the
\* response is read.
TileFails(id) ==
    /\ MapEvent /\ OnMap(id)
    /\ \E layer \in Wanted :
        /\ Id(layer) = id
        /\ IF HasExpired(<<layer>>, expired)
           THEN /\ handlers' = handlers \cup {[layer |-> layer, code |-> "query_token_expired"]}
                /\ UNCHANGED sessionVars
           ELSE /\ handlers' = handlers \cup {[layer |-> layer, code |-> "other"]}
                /\ Trouble
    /\ UNCHANGED <<entries, statuses, renewing>>

\* The body says something else than an expired token.
ReportFailure(h) ==
    /\ h.code = "other"
    /\ SetStatus(Id(h.layer), "failed")
    /\ UNCHANGED <<sessionVars, renewing>>

\* The token was replaced by a later render, or is being renewed.
IgnoreExpiry(h) ==
    /\ h.code = "query_token_expired"
    /\ h.layer \notin Wanted \/ \E r \in renewing : r.id = Id(h.layer)
    /\ UNCHANGED <<sessionVars, statuses, renewing>>

\* The layer waits for the call that it starts or joins; when the hook has
\* nothing to renew the await is over at once.
RenewToken(h) ==
    /\ h.code = "query_token_expired"
    /\ h.layer \in Wanted /\ \A r \in renewing : r.id # Id(h.layer)
    /\ statuses' = [id \in DOMAIN statuses \cup {Id(h.layer)} |->
            IF id = Id(h.layer) THEN "loading" ELSE statuses[id]]
    /\ Renew(h.layer)
    /\ renewing' = IF Renews(h.layer)
                   THEN renewing \cup {[id |-> Id(h.layer), call |-> refreshing']}
                   ELSE renewing

HandleError(h) ==
    /\ Live /\ h \in handlers /\ handlers' = handlers \ {h}
    /\ ReportFailure(h) \/ IgnoreExpiry(h) \/ RenewToken(h)
    /\ UNCHANGED <<rendered, effectsDue, view, entries>>

-----------------------------------------------------------------------------
(* The hook.                                                               *)

\* The finally clause of the error handler.
EndRenewals(c) == renewing' = {r \in renewing : r.call # c}

AnswerRefresh(c) ==
    /\ ~gone
    /\ RefreshEnds(c) /\ EndRenewals(c)
    /\ UNCHANGED <<rendered, effectsDue, view, entries, statuses, handlers>>

AnswerPreparation ==
    /\ ~gone
    /\ preparation # None
    /\ \E i \in DOMAIN preparation.layers : LayerPrepared(i) \/ LayerFails(i)
    /\ UNCHANGED viewVars

\* onteardown waits for the handler of the view, which disposes of the map.
TearDown ==
    /\ Teardown
    /\ view' = None /\ Dispose
    /\ UNCHANGED <<rendered, effectsDue, statuses>>

Environment ==
    /\ HostMessage \/ \E n \in 1..issued : Expire(n)
    /\ UNCHANGED viewVars

Next ==
    \/ Render \/ RunEffects \/ StyleLoads
    \/ \E id \in DOMAIN entries :
        \/ MetadataArrive(id) \/ MetadataFail(id)
        \/ SourceLoads(id) \/ SourceReloads(id) \/ TileFails(id)
    \/ \E h \in handlers : HandleError(h)
    \/ \E c \in calls : AnswerRefresh(c)
    \/ AnswerPreparation \/ TearDown \/ Environment

Spec == Init /\ [][Next]_vars

\* React renders and runs effects; the host answers calls or lets them fail by
\* its timeout; reading a body or metadata ends (by a timeout of 15 seconds);
\* the basemap style loads, and MapLibre reaches idle.
Fairness ==
    /\ WF_vars(Render) /\ WF_vars(RunEffects) /\ WF_vars(StyleLoads)
    /\ WF_vars(\E id \in DOMAIN entries : MetadataArrive(id) \/ MetadataFail(id))
    /\ WF_vars(\E id \in DOMAIN entries : SourceLoads(id))
    /\ WF_vars(\E h \in handlers : HandleError(h))
    /\ WF_vars(\E c \in calls : AnswerRefresh(c))
    /\ WF_vars(AnswerPreparation)

FairSpec == Spec /\ Fairness

-----------------------------------------------------------------------------
(* Properties.                                                             *)

\* When the effects of the last render have run on a map with its style, the
\* layers on the map are those of the render with their tokens, and what is
\* reported of each is so: nothing is called loaded that is not on the map,
\* nothing waits that nobody works on.
ViewMatches ==
    (Live /\ view.style /\ ~effectsDue) =>
        /\ {entries[id].layer : id \in DOMAIN entries} = Wanted
        /\ DOMAIN statuses = DOMAIN entries
        /\ \A id \in DOMAIN entries :
            /\ statuses[id] = "loaded" => OnMap(id)
            /\ statuses[id] = "loading" => entries[id].progress # "none"
            /\ statuses[id] = "preparing" <=> entries[id].layer.kind = "preparing"

\* No two calls refresh one result, and every layer that waits for a renewal
\* waits for a call that will be answered.
RenewalsAreUnderWay ==
    /\ OneRefreshPerResult
    /\ \A r \in renewing : r.call \in calls

\* A step that leaves the map in place keeps the source of every layer whose
\* token and address did not change, whatever happens to the other layers.
KeepsSources ==
    [][ (Live /\ view' # None /\ view'.key = view.key /\ view.style) =>
          \A id \in DOMAIN entries :
              (OnMap(id) /\ entries[id].layer \in Wanted) => OnMap(id)' ]_vars

\* When messages, expiries and failures cease, the widget comes to rest with
\* the map of the hook shown, every layer loaded or reported as failed, and no
\* preparation, renewal or error handler left waiting.
Settled ==
    \/ gone
    \/ /\ rendered = ToRender /\ ~effectsDue
       /\ calls = {} /\ handlers = {} /\ renewing = {}
       /\ preparation # None => preparation.waiting = {}
       /\ rendered # None =>
            /\ view # None /\ view.style
            /\ \A l \in Wanted : Id(l) \in DOMAIN statuses
                               /\ statuses[Id(l)] \in {"loaded", "failed"}
WidgetSettles == <>[]Settled

=============================================================================

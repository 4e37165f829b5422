--------------------------- MODULE MapViewProofs ---------------------------
(***************************************************************************)
(* Proofs about the view of the map widget: what is on the map and what is *)
(* reported of it agree with the last render, and a render keeps the       *)
(* sources that it does not change.                                        *)
(***************************************************************************)
EXTENDS MapWidgetProofs

-----------------------------------------------------------------------------
(* The invariants.                                                         *)

Entry == [layer : Layer, progress : Progress]
Views == [key : {KeyOf[m] : m \in Maps}, style : BOOLEAN]
Handler == [layer : {l \in Layer : l.kind \in {"query", "tiles"}},
            code : {"query_token_expired", "other"}]

\* An entry, and what is reported of it.
EntryOK(id) ==
    LET e == entries[id] IN
    /\ e \in Entry /\ Id(e.layer) = id
    /\ e.layer.kind = "query" => e.progress = "added"
    /\ e.layer.kind \in {"preparing", "failed"} => e.progress = "none"
    /\ id \in DOMAIN statuses
    /\ statuses[id] = "loaded" => e.progress = "added"
    /\ statuses[id] = "loading" => e.progress # "none"
    /\ statuses[id] = "preparing" <=> e.layer.kind = "preparing"

EntriesOK ==
    /\ \A id \in DOMAIN entries : EntryOK(id)
    /\ \A id \in DOMAIN statuses : statuses[id] \in States

\* The map shows the last render.
AsRendered ==
    /\ {entries[id].layer : id \in DOMAIN entries} = Wanted
    /\ DOMAIN statuses = DOMAIN entries

HandlersOK ==
    \A h \in handlers :
        h \in Handler /\ (h.code = "query_token_expired" => h.layer.kind = "query")

ViewInv ==
    /\ WidgetInv /\ effectsDue \in BOOLEAN
    /\ view = None \/ view \in Views
    /\ EntriesOK /\ HandlersOK
    /\ (Live /\ view.style /\ ~effectsDue) => AsRendered

-----------------------------------------------------------------------------
(* Layers and their ids.                                                   *)

\* An id tells the place of a layer, and its kind apart from the outcome of a
\* preparation.
LEMMA IdParts ==
    ASSUME NEW l \in Layer, NEW k \in Layer, Id(l) = Id(k)
    PROVE  /\ l.pos = k.pos
           /\ l.kind = "query" <=> k.kind = "query"
           /\ l.kind = "tiles" <=> k.kind = "tiles"
<1>1. /\ l.kind \in {"query", "tiles", "preparing", "failed"}
      /\ k.kind \in {"query", "tiles", "preparing", "failed"}
    BY DEF Layer
<1>2. \A x \in Layer :
        /\ x.kind = "query" => Id(x)[1] = "query"
        /\ x.kind = "tiles" => Id(x)[1] = "external"
        /\ x.kind \in {"preparing", "failed"} => Id(x)[1] = "preparing"
        /\ Id(x)[2] = x.pos
    BY DEF Id, Layer
<1>3. Id(l)[1] = Id(k)[1] /\ Id(l)[2] = Id(k)[2]
    OBVIOUS
<1>4. /\ l.kind = "query" => Id(l)[1] = "query"
      /\ l.kind = "tiles" => Id(l)[1] = "external"
      /\ l.kind \in {"preparing", "failed"} => Id(l)[1] = "preparing"
      /\ Id(l)[2] = l.pos
    BY <1>2
<1>5. /\ k.kind = "query" => Id(k)[1] = "query"
      /\ k.kind = "tiles" => Id(k)[1] = "external"
      /\ k.kind \in {"preparing", "failed"} => Id(k)[1] = "preparing"
      /\ Id(k)[2] = k.pos
    BY <1>2
<1> QED BY <1>1, <1>3, <1>4, <1>5

\* No two layers of a render have the same id.
LEMMA IdUnique ==
    ASSUME rendered \in Shown, NEW l \in Wanted, NEW k \in Wanted, Id(l) = Id(k)
    PROVE  l = k
<1>1. PICK i \in DOMAIN rendered.layers : l = rendered.layers[i]
    BY DEF Wanted
<1>2. PICK j \in DOMAIN rendered.layers : k = rendered.layers[j]
    BY DEF Wanted
<1>3. l.pos = i /\ k.pos = j
    BY <1>1, <1>2 DEF Shown, Layers
<1>4. l.pos = k.pos
    BY WantedType, IdParts
<1> QED BY <1>1, <1>2, <1>3, <1>4

\* A kept entry has the layer of the render up to its map.
LEMMA SameParts ==
    ASSUME NEW l \in Layer, NEW k \in Layer, Same(l, k)
    PROVE  l.kind = k.kind /\ l.pos = k.pos /\ l.issue = k.issue
BY DEF Same, Layer

LEMMA SameRefl ==
    ASSUME NEW l \in Layer
    PROVE  Same(l, l)
BY DEF Same, Layer

-----------------------------------------------------------------------------
(* Reconciliation.                                                         *)

\* A new entry and its first state agree.
LEMMA NewEntryOK ==
    ASSUME NEW l \in Layer
    PROVE  /\ NewEntry(l) \in Entry /\ NewEntry(l).layer = l
           /\ InitialStatus(l) \in States /\ InitialStatus(l) # "loaded"
           /\ l.kind = "query" => NewEntry(l).progress = "added"
           /\ l.kind \in {"preparing", "failed"} => NewEntry(l).progress = "none"
           /\ InitialStatus(l) = "loading" => NewEntry(l).progress # "none"
           /\ InitialStatus(l) = "preparing" <=> l.kind = "preparing"
<1>1. l.kind \in {"query", "tiles", "preparing", "failed"}
    BY DEF Layer
<1>2. CASE l.kind = "query"
    BY <1>2 DEF NewEntry, Entry, Progress, InitialStatus, States
<1>3. CASE l.kind = "tiles"
    BY <1>3 DEF NewEntry, Entry, Progress, InitialStatus, States
<1>4. CASE l.kind \in {"preparing", "failed"}
    BY <1>4 DEF NewEntry, Entry, Progress, InitialStatus, States
<1> QED BY <1>1, <1>2, <1>3, <1>4

\* After a reconciliation the map has the layers of the render, whatever was on
\* it before.
LEMMA ReconcileEffect ==
    ASSUME EntriesOK, rendered \in Shown, Reconcile, UNCHANGED rendered
    PROVE  EntriesOK' /\ AsRendered'
<1> DEFINE ids == {Id(l) : l \in Wanted}
           Of(id) == CHOOSE l \in Wanted : Id(l) = id
<1>1. \A id \in ids : Of(id) \in Wanted /\ Id(Of(id)) = id
    OBVIOUS
<1>2. Wanted \subseteq Layer
    BY WantedType
<1>3. /\ entries' = [id \in ids |->
            IF Kept(Of(id)) THEN [entries[id] EXCEPT !.layer = Of(id)] ELSE NewEntry(Of(id))]
      /\ statuses' = [id \in ids |->
            IF Kept(Of(id)) THEN statuses[id] ELSE InitialStatus(Of(id))]
    BY DEF Reconcile
<1>4. \A l \in Wanted : Of(Id(l)) = l
    BY <1>1, IdUnique
<1>5. Wanted' = Wanted
    BY DEF Wanted
<1>6. DOMAIN entries' = ids /\ DOMAIN statuses' = ids
    BY <1>3
<1> HIDE DEF Of
<1>7. \A id \in ids : EntryOK(id)' /\ entries'[id].layer = Of(id) /\ statuses'[id] \in States
    <2> SUFFICES ASSUME NEW id \in ids
                 PROVE  EntryOK(id)' /\ entries'[id].layer = Of(id) /\ statuses'[id] \in States
        OBVIOUS
    <2>1. PICK l : l = Of(id)
        OBVIOUS
    <2>2. l \in Layer /\ l \in Wanted /\ Id(l) = id
        BY <2>1, <1>1, <1>2
    <2>3. CASE Kept(l)
        <3>1. id \in DOMAIN entries /\ Same(entries[id].layer, l)
            BY <2>2, <2>3 DEF Kept
        <3>2. EntryOK(id) /\ statuses[id] \in States
            BY <3>1 DEF EntriesOK, EntryOK
        <3>3. PICK e : e = entries[id]
            OBVIOUS
        <3>4. e \in Entry /\ e.layer.kind = l.kind
            <4>1. e \in Entry /\ e.layer \in Layer
                BY <3>2, <3>3 DEF EntryOK, Entry
            <4> QED BY <4>1, <3>1, <3>3, <2>2, SameParts
        <3>5. entries'[id] = [e EXCEPT !.layer = l] /\ statuses'[id] = statuses[id]
            BY <1>3, <2>1, <2>3, <3>3
        <3>6. /\ entries'[id] \in Entry /\ entries'[id].layer = l
              /\ entries'[id].progress = e.progress
            BY <3>4, <3>5, <2>2 DEF Entry
        <3>7. EntryOK(id)'
            <4>1. Id(entries'[id].layer) = id
                BY <3>6, <2>2
            <4>2. /\ e.layer.kind = "query" => e.progress = "added"
                  /\ e.layer.kind \in {"preparing", "failed"} => e.progress = "none"
                  /\ statuses[id] = "loaded" => e.progress = "added"
                  /\ statuses[id] = "loading" => e.progress # "none"
                  /\ statuses[id] = "preparing" <=> e.layer.kind = "preparing"
                BY <3>2, <3>3 DEF EntryOK
            <4>3. id \in DOMAIN statuses'
                BY <1>6
            <4> QED BY <4>1, <4>2, <4>3, <3>4, <3>5, <3>6 DEF EntryOK, Id
        <3> QED BY <3>2, <3>5, <3>6, <3>7, <2>1
    <2>4. CASE ~Kept(l)
        <3>1. entries'[id] = NewEntry(l) /\ statuses'[id] = InitialStatus(l)
            BY <1>3, <2>1, <2>4
        <3>2. /\ NewEntry(l) \in Entry /\ NewEntry(l).layer = l
              /\ InitialStatus(l) \in States /\ InitialStatus(l) # "loaded"
              /\ l.kind = "query" => NewEntry(l).progress = "added"
              /\ l.kind \in {"preparing", "failed"} => NewEntry(l).progress = "none"
              /\ InitialStatus(l) = "loading" => NewEntry(l).progress # "none"
              /\ InitialStatus(l) = "preparing" <=> l.kind = "preparing"
            BY <2>2, NewEntryOK
        <3>3. id \in DOMAIN statuses'
            BY <1>6
        <3>4. Id(entries'[id].layer) = id
            BY <3>1, <3>2, <2>2
        <3> QED BY <3>1, <3>2, <3>3, <3>4, <2>1 DEF EntryOK, Id
    <2> QED BY <2>3, <2>4
<1>8. {entries'[id].layer : id \in DOMAIN entries'} = Wanted
    <2>1. \A id \in DOMAIN entries' : entries'[id].layer \in Wanted
        BY <1>1, <1>6, <1>7
    <2>2. \A l \in Wanted : Id(l) \in DOMAIN entries' /\ entries'[Id(l)].layer = l
        BY <1>4, <1>6, <1>7
    <2> QED BY <2>1, <2>2
<1>9. EntriesOK'
    BY <1>6, <1>7 DEF EntriesOK
<1> QED BY <1>5, <1>6, <1>8, <1>9 DEF AsRendered

-----------------------------------------------------------------------------
(* The steps of the view.                                                  *)

\* The agreement of map and render speaks of these variables only.
LEMMA AsRenderedStays ==
    ASSUME ViewInv, UNCHANGED <<rendered, view, entries>>,
           ~effectsDue' => ~effectsDue, ~gone' => ~gone,
           DOMAIN statuses' = DOMAIN statuses
    PROVE  (Live /\ view.style /\ ~effectsDue)' => AsRendered'
<1>1. (Live /\ view.style /\ ~effectsDue)' => Live /\ view.style /\ ~effectsDue
    BY DEF Live
<1>2. AsRendered => AsRendered'
    BY DEF AsRendered, Wanted
<1> QED BY <1>1, <1>2 DEF ViewInv

\* What the view does not see leaves what it shows.
LEMMA ViewUnseen ==
    ASSUME ViewInv, WidgetInv', UNCHANGED <<rendered, effectsDue, view, entries, statuses>>,
           handlers' \subseteq handlers, ~gone' => ~gone
    PROVE  ViewInv'
<1>1. (Live /\ view.style /\ ~effectsDue)' => AsRendered'
    BY AsRenderedStays
<1>2. EntriesOK' /\ HandlersOK'
    BY DEF ViewInv, EntriesOK, EntryOK, HandlersOK
<1> QED BY <1>1, <1>2 DEF ViewInv

LEMMA SetStatusMeans ==
    ASSUME NEW id, NEW status, SetStatus(id, status)
    PROVE  /\ DOMAIN statuses' = DOMAIN statuses
           /\ \A j \in DOMAIN statuses : j # id => statuses'[j] = statuses[j]
           /\ id \in DOMAIN statuses => statuses'[id] = status
BY DEF SetStatus

\* The state of one layer is set to one that its entry, if any, supports.
LEMMA StatusStep ==
    ASSUME ViewInv, WidgetInv', UNCHANGED <<rendered, effectsDue, view, gone>>,
           handlers' \subseteq handlers,
           NEW id, NEW status \in States,
           DOMAIN statuses' = DOMAIN statuses,
           \A j \in DOMAIN statuses : j # id => statuses'[j] = statuses[j],
           id \in DOMAIN statuses => statuses'[id] = status,
           DOMAIN entries' = DOMAIN entries,
           \A j \in DOMAIN entries : entries'[j].layer = entries[j].layer,
           \A j \in DOMAIN entries : j # id => entries'[j] = entries[j],
           id \in DOMAIN entries =>
                /\ entries'[id] \in Entry
                /\ entries[id].layer.kind = "query" => entries'[id].progress = "added"
                /\ entries[id].layer.kind \in {"preparing", "failed"}
                        => entries'[id].progress = "none"
                /\ status = "loaded" => entries'[id].progress = "added"
                /\ status = "loading" => entries'[id].progress # "none"
                /\ status = "preparing" <=> entries[id].layer.kind = "preparing"
    PROVE  ViewInv'
<1>1. \A j \in DOMAIN entries : j # id => EntryOK(j)'
    <2> SUFFICES ASSUME NEW j \in DOMAIN entries, j # id
                 PROVE  EntryOK(j)'
        OBVIOUS
    <2>1. EntryOK(j) /\ j \in DOMAIN statuses
        BY DEF ViewInv, EntriesOK, EntryOK
    <2>2. entries'[j] = entries[j] /\ statuses'[j] = statuses[j]
        BY <2>1
    <2> QED BY <2>1, <2>2 DEF EntryOK, Id
<1>2. id \in DOMAIN entries => EntryOK(id)'
    <2> SUFFICES ASSUME id \in DOMAIN entries
                 PROVE  EntryOK(id)'
        OBVIOUS
    <2>1. EntryOK(id) /\ id \in DOMAIN statuses
        BY DEF ViewInv, EntriesOK, EntryOK
    <2>2. Id(entries'[id].layer) = id
        BY <2>1 DEF EntryOK
    <2>3. id \in DOMAIN statuses' /\ statuses'[id] = status
        BY <2>1
    <2> QED BY <2>2, <2>3 DEF EntryOK, Id
<1>3. EntriesOK'
    BY <1>1, <1>2 DEF ViewInv, EntriesOK
<1>4. (Live /\ view.style /\ ~effectsDue)' => AsRendered'
    <2>1. {entries'[j].layer : j \in DOMAIN entries'} = {entries[j].layer : j \in DOMAIN entries}
        OBVIOUS
    <2> QED BY <2>1 DEF ViewInv, AsRendered, Live, Wanted
<1>5. HandlersOK'
    BY DEF ViewInv, HandlersOK
<1> QED BY <1>3, <1>4, <1>5 DEF ViewInv

LEMMA RenderStep ==
    ASSUME ViewInv, WidgetInv', Render
    PROVE  ViewInv'
<1>1. UNCHANGED <<view, entries, statuses, handlers>> /\ effectsDue' = TRUE
    BY DEF Render, mapVars
<1>2. EntriesOK' /\ HandlersOK'
    BY <1>1 DEF ViewInv, EntriesOK, EntryOK, HandlersOK
<1> QED BY <1>1, <1>2 DEF ViewInv

LEMMA RunEffectsStep ==
    ASSUME ViewInv, WidgetInv', RunEffects
    PROVE  ViewInv'
<1>1. /\ UNCHANGED <<rendered, gone>> /\ effectsDue' = FALSE
      /\ rendered = None \/ rendered \in Shown
    BY DEF RunEffects, sessionVars, ViewInv, WidgetInv
<1>2. CASE rendered = None
    <2>1. /\ view' = None /\ DOMAIN statuses' = {} /\ DOMAIN entries' = {} /\ handlers' = {}
        BY <1>2 DEF RunEffects, Dispose, NoEntries
    <2> QED BY <2>1, <1>1 DEF ViewInv, EntriesOK, HandlersOK, Live
<1>3. CASE rendered # None /\ ~InPlace
    <2>1. /\ view' = [key |-> Key(rendered), style |-> FALSE]
          /\ statuses' = [id \in {Id(l) : l \in Wanted} |->
                InitialStatus(CHOOSE l \in Wanted : Id(l) = id)]
          /\ DOMAIN entries' = {} /\ handlers' = {}
        BY <1>3 DEF RunEffects, Dispose, NoEntries
    <2>2. view' \in Views
        BY <2>1, <1>1, <1>3 DEF Views, Key, Shown
    <2>3. \A id \in DOMAIN statuses' : statuses'[id] \in States
        <3> SUFFICES ASSUME NEW id \in {Id(l) : l \in Wanted}
                     PROVE  statuses'[id] \in States
            BY <2>1
        <3>1. PICK l : l = (CHOOSE k \in Wanted : Id(k) = id)
            OBVIOUS
        <3>2. l \in Wanted
            BY <3>1
        <3>3. l \in Layer
            BY <3>2, <1>1, <1>3, WantedType
        <3> QED BY <3>1, <3>3, <2>1, NewEntryOK
    <2> QED BY <2>1, <2>2, <2>3, <1>1 DEF ViewInv, EntriesOK, HandlersOK, Live
<1>4. CASE rendered # None /\ InPlace
    <2>1. UNCHANGED <<view, handlers>> /\ HandlersOK'
        BY <1>4 DEF RunEffects, InPlace, ViewInv, HandlersOK
    <2>2. CASE view.style
        <3>1. Reconcile
            BY <1>4, <2>2 DEF RunEffects, InPlace
        <3>2. EntriesOK' /\ AsRendered'
            BY <3>1, <1>1, <1>4, ReconcileEffect DEF ViewInv
        <3> QED BY <3>2, <2>1, <2>2, <1>1, <1>4 DEF ViewInv, InPlace
    <2>3. CASE ~view.style
        <3>1. UNCHANGED <<entries, statuses>>
            BY <1>4, <2>3 DEF RunEffects, InPlace
        <3>2. EntriesOK'
            BY <3>1 DEF ViewInv, EntriesOK, EntryOK
        <3> QED BY <3>1, <3>2, <2>1, <2>3, <1>1 DEF ViewInv
    <2> QED BY <2>2, <2>3
<1> QED BY <1>2, <1>3, <1>4 DEF RunEffects

LEMMA StyleLoadsStep ==
    ASSUME ViewInv, WidgetInv', StyleLoads
    PROVE  ViewInv'
<1>1. /\ rendered \in Shown /\ UNCHANGED <<rendered, effectsDue, handlers, gone>>
      /\ view \in Views
    BY DEF StyleLoads, Live, ViewInv, WidgetInv, sessionVars
<1>2. EntriesOK' /\ AsRendered'
    BY <1>1, ReconcileEffect DEF StyleLoads, ViewInv
<1>3. view' \in Views /\ view'.style
    BY <1>1 DEF StyleLoads, Views
<1>4. HandlersOK'
    BY <1>1 DEF ViewInv, HandlersOK
<1> QED BY <1>1, <1>2, <1>3, <1>4 DEF ViewInv

\* The events of the map.
LEMMA MetadataStep ==
    ASSUME ViewInv, WidgetInv', NEW id \in DOMAIN entries,
           MetadataArrive(id) \/ MetadataFail(id)
    PROVE  ViewInv'
<1>1. UNCHANGED <<rendered, effectsDue, view, gone, handlers>>
    BY DEF MetadataArrive, MetadataFail, MapEvent, sessionVars, Trouble
<1>2. PICK p : (MetadataArrive(id) /\ p = "added") \/ (MetadataFail(id) /\ p = "none")
    OBVIOUS
<1>3. entries' = [entries EXCEPT ![id].progress = p] /\ p \in Progress
    BY <1>2 DEF MetadataArrive, MetadataFail, Progress
<1>4. /\ EntryOK(id) /\ entries[id].progress = "resolving"
    BY <1>2 DEF MetadataArrive, MetadataFail, ViewInv, EntriesOK
<1>5. PICK e : e = entries[id]
    OBVIOUS
<1>6. e \in Entry /\ id \in DOMAIN statuses
    BY <1>4, <1>5 DEF EntryOK
<1>7. entries'[id] = [e EXCEPT !.progress = p]
    BY <1>3, <1>5
<1>8. entries'[id] \in Entry /\ entries'[id].layer = e.layer /\ entries'[id].progress = p
    BY <1>3, <1>6, <1>7 DEF Entry
<1>9. e.layer.kind = "tiles"
    BY <1>4, <1>5, <1>6 DEF EntryOK, Entry, Layer
<1>10. /\ DOMAIN entries' = DOMAIN entries
       /\ \A j \in DOMAIN entries : j # id => entries'[j] = entries[j]
       /\ \A j \in DOMAIN entries : entries'[j].layer = entries[j].layer
    BY <1>3, <1>5, <1>8
<1>11. CASE MetadataArrive(id) /\ p = "added"
    <2>1. PICK s : s = statuses[id]
        OBVIOUS
    <2>2. UNCHANGED statuses /\ s \in States
        BY <1>6, <1>11, <2>1 DEF MetadataArrive, ViewInv, EntriesOK
    <2>3. /\ s = "preparing" <=> e.layer.kind = "preparing"
          /\ p = "added"
        BY <1>4, <1>5, <1>11, <2>1 DEF EntryOK
    <2> QED BY <1>1, <1>5, <1>8, <1>9, <1>10, <2>1, <2>2, <2>3, StatusStep
<1>12. CASE MetadataFail(id) /\ p = "none"
    <2>1. SetStatus(id, "failed") /\ "failed" \in States
        BY <1>12 DEF MetadataFail, States
    <2>2. /\ DOMAIN statuses' = DOMAIN statuses
          /\ \A j \in DOMAIN statuses : j # id => statuses'[j] = statuses[j]
          /\ id \in DOMAIN statuses => statuses'[id] = "failed"
        BY <2>1, SetStatusMeans
    <2> QED BY <1>1, <1>5, <1>8, <1>9, <1>10, <2>1, <2>2, StatusStep
<1> QED BY <1>2, <1>11, <1>12

LEMMA SourceStep ==
    ASSUME ViewInv, WidgetInv', NEW id \in DOMAIN entries,
           SourceLoads(id) \/ SourceReloads(id)
    PROVE  ViewInv'
<1>1. UNCHANGED <<rendered, effectsDue, view, gone, handlers, entries>>
    BY DEF SourceLoads, SourceReloads, MapEvent, sessionVars, Trouble
<1>2. PICK s \in {"loaded", "loading"} : SetStatus(id, s)
    BY DEF SourceLoads, SourceReloads
<1>3. entries[id].progress = "added" /\ EntryOK(id)
    BY DEF SourceLoads, SourceReloads, OnMap, ViewInv, EntriesOK
<1>4. entries[id] \in Entry /\ entries[id].layer.kind \notin {"preparing", "failed"}
      /\ (entries[id].layer.kind = "query" => entries[id].progress = "added")
    BY <1>3 DEF EntryOK
<1>5. s \in States /\ s # "preparing"
    BY DEF States
<1>6. /\ DOMAIN statuses' = DOMAIN statuses
      /\ \A j \in DOMAIN statuses : j # id => statuses'[j] = statuses[j]
      /\ id \in DOMAIN statuses => statuses'[id] = s
    BY <1>2, SetStatusMeans
<1>7. /\ DOMAIN entries' = DOMAIN entries
      /\ \A j \in DOMAIN entries : entries'[j] = entries[j]
    BY <1>1
<1>8. /\ entries'[id] \in Entry
      /\ entries[id].layer.kind = "query" => entries'[id].progress = "added"
      /\ entries[id].layer.kind \in {"preparing", "failed"} => entries'[id].progress = "none"
      /\ s = "loaded" => entries'[id].progress = "added"
      /\ s = "loading" => entries'[id].progress # "none"
      /\ s = "preparing" <=> entries[id].layer.kind = "preparing"
    BY <1>3, <1>4, <1>5, <1>7
<1> QED BY <1>1, <1>5, <1>6, <1>7, <1>8, StatusStep

LEMMA TileFailsStep ==
    ASSUME ViewInv, WidgetInv', NEW id \in DOMAIN entries, TileFails(id)
    PROVE  ViewInv'
<1>1. UNCHANGED <<rendered, effectsDue, view, gone, statuses, entries>>
    BY DEF TileFails, MapEvent, sessionVars, Trouble
<1>2. PICK layer \in Wanted :
        /\ Id(layer) = id
        /\ \/ /\ HasExpired(<<layer>>, expired)
              /\ handlers' = handlers \cup {[layer |-> layer, code |-> "query_token_expired"]}
           \/ handlers' = handlers \cup {[layer |-> layer, code |-> "other"]}
    BY DEF TileFails
<1>3. layer \in Layer
    BY WantedType DEF TileFails, MapEvent, Live, ViewInv, WidgetInv
<1>4. /\ entries[id].layer \in Layer /\ Id(entries[id].layer) = id
      /\ entries[id].layer.kind \notin {"preparing", "failed"}
    BY DEF TileFails, OnMap, ViewInv, EntriesOK, EntryOK, Entry
<1>5. layer.kind \in {"query", "tiles"}
    <2>1. Id(layer) = Id(entries[id].layer)
        BY <1>2, <1>4
    <2>2. /\ layer.kind = "query" <=> entries[id].layer.kind = "query"
          /\ layer.kind = "tiles" <=> entries[id].layer.kind = "tiles"
        BY <2>1, <1>3, <1>4, IdParts
    <2> QED BY <2>2, <1>4 DEF Layer
<1>6. HasExpired(<<layer>>, expired) => layer.kind = "query"
    BY DEF HasExpired
<1>7. HandlersOK'
    <2>1. [layer |-> layer, code |-> "query_token_expired"] \in Handler
        BY <1>3, <1>5 DEF Handler
    <2>2. [layer |-> layer, code |-> "other"] \in Handler
        BY <1>3, <1>5 DEF Handler
    <2> QED BY <2>1, <2>2, <1>2, <1>6 DEF HandlersOK, ViewInv
<1>8. EntriesOK'
    BY <1>1 DEF ViewInv, EntriesOK, EntryOK
<1>9. (Live /\ view.style /\ ~effectsDue)' => AsRendered'
    BY <1>1, AsRenderedStays
<1> QED BY <1>1, <1>7, <1>8, <1>9 DEF ViewInv

\* A failure is reported of a layer that is on the map or no longer there; a
\* layer whose token is renewed is on the map unless effects are due.
LEMMA HandlerStep ==
    ASSUME ViewInv, WidgetInv', NEW h \in handlers, HandleError(h)
    PROVE  ViewInv'
<1>1. /\ UNCHANGED <<rendered, effectsDue, view, gone, entries>>
      /\ handlers' \subseteq handlers /\ Live
    BY DEF HandleError, ReportFailure, IgnoreExpiry, RenewToken, Renew, sessionVars
<1>2. PICK id : id = Id(h.layer)
    OBVIOUS
<1>3. /\ h \in Handler /\ (h.code = "query_token_expired" => h.layer.kind = "query")
      /\ h.layer \in Layer /\ h.layer.kind \in {"query", "tiles"}
    BY DEF ViewInv, HandlersOK, Handler
<1>4. id \in DOMAIN entries =>
        /\ entries[id] \in Entry /\ EntryOK(id)
        /\ entries[id].layer.kind \in {"query", "tiles"}
        /\ h.layer.kind = "query" => entries[id].layer.kind = "query"
    <2> SUFFICES ASSUME id \in DOMAIN entries
                 PROVE  /\ entries[id] \in Entry /\ EntryOK(id)
                        /\ entries[id].layer.kind \in {"query", "tiles"}
                        /\ h.layer.kind = "query" => entries[id].layer.kind = "query"
        OBVIOUS
    <2>1. EntryOK(id)
        BY DEF ViewInv, EntriesOK
    <2>2. entries[id] \in Entry /\ entries[id].layer \in Layer /\ Id(entries[id].layer) = id
        BY <2>1 DEF EntryOK, Entry
    <2>3. /\ h.layer.kind = "query" <=> entries[id].layer.kind = "query"
          /\ h.layer.kind = "tiles" <=> entries[id].layer.kind = "tiles"
        BY <2>2, <1>2, <1>3, IdParts
    <2> QED BY <2>1, <2>2, <2>3, <1>3
<1>5. CASE ReportFailure(h)
    <2>1. SetStatus(id, "failed") /\ "failed" \in States
        BY <1>2, <1>5 DEF ReportFailure, States
    <2>2. /\ DOMAIN statuses' = DOMAIN statuses
          /\ \A j \in DOMAIN statuses : j # id => statuses'[j] = statuses[j]
          /\ id \in DOMAIN statuses => statuses'[id] = "failed"
        BY <2>1, SetStatusMeans
    <2>3. /\ DOMAIN entries' = DOMAIN entries
          /\ \A j \in DOMAIN entries : entries'[j] = entries[j]
        BY <1>1
    <2>4. id \in DOMAIN entries =>
            /\ entries'[id] \in Entry
            /\ entries[id].layer.kind = "query" => entries'[id].progress = "added"
            /\ entries[id].layer.kind \notin {"preparing", "failed"}
        BY <1>4, <2>3 DEF EntryOK
    <2>5. id \in DOMAIN entries =>
            /\ entries'[id] \in Entry
            /\ entries[id].layer.kind = "query" => entries'[id].progress = "added"
            /\ entries[id].layer.kind \in {"preparing", "failed"}
                    => entries'[id].progress = "none"
            /\ "failed" = "loaded" => entries'[id].progress = "added"
            /\ "failed" = "loading" => entries'[id].progress # "none"
            /\ "failed" = "preparing" <=> entries[id].layer.kind = "preparing"
        BY <2>4
    <2> QED BY <1>1, <2>1, <2>2, <2>3, <2>5, StatusStep
<1>6. CASE IgnoreExpiry(h)
    BY <1>1, <1>6, ViewUnseen DEF IgnoreExpiry
<1>7. CASE RenewToken(h)
    <2>1. /\ h.layer \in Wanted /\ h.layer.kind = "query"
          /\ statuses' = [j \in DOMAIN statuses \cup {id} |->
                IF j = id THEN "loading" ELSE statuses[j]]
        BY <1>2, <1>3, <1>7 DEF RenewToken
    <2>2. EntriesOK'
        <3>1. ASSUME NEW j \in DOMAIN entries'
              PROVE  EntryOK(j)'
            <4>1. EntryOK(j) /\ j \in DOMAIN statuses /\ entries' = entries
                BY <1>1 DEF ViewInv, EntriesOK, EntryOK
            <4>2. CASE j # id
                <5>1. statuses'[j] = statuses[j] /\ j \in DOMAIN statuses'
                    BY <2>1, <4>1, <4>2
                <5> QED BY <5>1, <4>1 DEF EntryOK, Id
            <4>3. CASE j = id
                <5>1. statuses'[j] = "loading" /\ j \in DOMAIN statuses'
                    BY <2>1, <4>3
                <5>2. entries[j].layer.kind = "query" /\ entries[j].progress = "added"
                    BY <1>4, <2>1, <4>1, <4>3 DEF EntryOK
                <5> QED BY <5>1, <5>2, <4>1 DEF EntryOK, Id
            <4> QED BY <4>2, <4>3
        <3>2. \A j \in DOMAIN statuses' : statuses'[j] \in States
            <4>1. \A j \in DOMAIN statuses : statuses[j] \in States
                BY DEF ViewInv, EntriesOK
            <4> QED BY <2>1, <4>1 DEF States
        <3> QED BY <3>1, <3>2 DEF EntriesOK
    <2>3. (Live /\ view.style /\ ~effectsDue)' => AsRendered'
        <3> SUFFICES ASSUME (Live /\ view.style /\ ~effectsDue)'
                     PROVE  AsRendered'
            OBVIOUS
        <3>1. AsRendered
            BY <1>1 DEF ViewInv
        <3>2. id \in DOMAIN entries
            <4>1. PICK j \in DOMAIN entries : entries[j].layer = h.layer
                BY <3>1, <2>1 DEF AsRendered
            <4>2. Id(entries[j].layer) = j
                BY DEF ViewInv, EntriesOK, EntryOK
            <4> QED BY <4>1, <4>2, <1>2
        <3>3. DOMAIN statuses' = DOMAIN entries
            BY <3>1, <3>2, <2>1 DEF AsRendered
        <3>4. /\ {entries'[j].layer : j \in DOMAIN entries'} = Wanted
              /\ Wanted' = Wanted
            BY <3>1, <1>1 DEF AsRendered, Wanted
        <3>5. DOMAIN entries' = DOMAIN entries
            BY <1>1
        <3> QED BY <3>3, <3>4, <3>5 DEF AsRendered
    <2>4. HandlersOK'
        BY <1>1 DEF ViewInv, HandlersOK
    <2> QED BY <1>1, <2>2, <2>3, <2>4 DEF ViewInv
<1> QED BY <1>5, <1>6, <1>7 DEF HandleError

LEMMA TearDownViewStep ==
    ASSUME ViewInv, WidgetInv', TearDown
    PROVE  ViewInv'
<1>1. /\ gone' = TRUE /\ view' = None /\ DOMAIN entries' = {} /\ handlers' = {}
      /\ UNCHANGED <<effectsDue, statuses>>
    BY DEF TearDown, Teardown, Dispose, NoEntries
<1>2. EntriesOK' /\ HandlersOK'
    BY <1>1 DEF ViewInv, EntriesOK, HandlersOK
<1> QED BY <1>1, <1>2 DEF ViewInv, Live

\* The invariant is inductive.
LEMMA ViewStep ==
    ASSUME ViewInv, [Next]_vars
    PROVE  ViewInv'
<1>1. WidgetInv'
    BY WidgetStep DEF ViewInv
<1>2. CASE Render \/ RunEffects \/ StyleLoads
    BY <1>1, <1>2, RenderStep, RunEffectsStep, StyleLoadsStep
<1>3. ASSUME NEW id \in DOMAIN entries,
             MetadataArrive(id) \/ MetadataFail(id) \/ SourceLoads(id)
                \/ SourceReloads(id) \/ TileFails(id)
      PROVE  ViewInv'
    BY <1>1, <1>3, MetadataStep, SourceStep, TileFailsStep
<1>4. ASSUME NEW h \in handlers, HandleError(h)
      PROVE  ViewInv'
    BY <1>1, <1>4, HandlerStep
<1>5. ASSUME NEW c \in calls, AnswerRefresh(c)
      PROVE  ViewInv'
    <2>1. UNCHANGED <<rendered, effectsDue, view, entries, statuses, handlers, gone>>
        BY <1>5 DEF AnswerRefresh, RefreshEnds, RefreshIgnored, RefreshAnswered, RefreshRefused
    <2> QED BY <2>1, <1>1, ViewUnseen
<1>6. CASE AnswerPreparation
    <2>1. UNCHANGED <<rendered, effectsDue, view, entries, statuses, handlers, gone>>
        BY <1>6 DEF AnswerPreparation, viewVars, LayerPrepared, LayerFails, Replace
    <2> QED BY <2>1, <1>1, ViewUnseen
<1>7. CASE TearDown
    BY <1>1, <1>7, TearDownViewStep
<1>8. CASE Environment
    <2>1. UNCHANGED <<rendered, effectsDue, view, entries, statuses, handlers, gone>>
        BY <1>8 DEF Environment, viewVars, HostMessage, ToolResult, ToolFails, Expire
    <2> QED BY <2>1, <1>1, ViewUnseen
<1>9. CASE UNCHANGED vars
    <2>1. UNCHANGED <<rendered, effectsDue, view, entries, statuses, handlers, gone>>
        BY <1>9 DEF vars, viewVars, sessionVars
    <2> QED BY <2>1, <1>1, ViewUnseen
<1> QED BY <1>2, <1>3, <1>4, <1>5, <1>6, <1>7, <1>8, <1>9 DEF Next

LEMMA ViewInvariant == Spec => []ViewInv
<1>1. Init => ViewInv
    <2> SUFFICES ASSUME Init PROVE ViewInv
        OBVIOUS
    <2>1. WidgetInv
        BY SessionStart DEF Init, WidgetInv
    <2>2. EntriesOK /\ HandlersOK
        BY DEF Init, NoEntries, EntriesOK, HandlersOK
    <2> QED BY <2>1, <2>2 DEF Init, ViewInv, Live
<1>2. ViewInv /\ [Next]_vars => ViewInv'
    BY ViewStep
<1> QED BY <1>1, <1>2, PTL DEF Spec

-----------------------------------------------------------------------------
(* The theorems.                                                           *)

\* The variables of the widget keep their types through renders, map events,
\* renewals and the teardown.
THEOREM WidgetTypeCorrect == Spec => []TypeOK
<1>1. ViewInv => TypeOK
    <2> SUFFICES ASSUME ViewInv PROVE TypeOK
        OBVIOUS
    <2>1. SessionTypeOK /\ effectsDue \in BOOLEAN /\ (rendered = None \/ rendered \in Shown)
        BY DEF ViewInv, WidgetInv, SessionInv
    <2>2. view = None \/ (view.style \in BOOLEAN /\ \E m \in Maps : view.key = KeyOf[m])
        BY DEF ViewInv, Views
    <2>3. \A id \in DOMAIN entries :
            entries[id].layer \in Layer /\ entries[id].progress \in Progress
        BY DEF ViewInv, EntriesOK, EntryOK, Entry
    <2>4. \A id \in DOMAIN statuses : statuses[id] \in States
        BY DEF ViewInv, EntriesOK
    <2>5. \A h \in handlers : h.layer \in Layer /\ h.code \in {"query_token_expired", "other"}
        BY DEF ViewInv, HandlersOK, Handler
    <2>6. \A r \in renewing : r.call \in Call
        BY <2>1 DEF ViewInv, WidgetInv, SessionTypeOK
    <2> QED BY <2>1, <2>2, <2>3, <2>4, <2>5, <2>6 DEF TypeOK
<1> QED BY <1>1, ViewInvariant, PTL

\* When the effects of the last render have run, the layers on the map are
\* those of the render with their tokens, each with a load state that its
\* progress supports, after any history of renders, failures and renewals.
THEOREM ViewMatchesRender == Spec => []ViewMatches
<1>1. ViewInv => ViewMatches
    <2> SUFFICES ASSUME ViewInv, Live, view.style, ~effectsDue
                 PROVE  /\ {entries[id].layer : id \in DOMAIN entries} = Wanted
                        /\ DOMAIN statuses = DOMAIN entries
                        /\ \A id \in DOMAIN entries :
                            /\ statuses[id] = "loaded" => OnMap(id)
                            /\ statuses[id] = "loading" => entries[id].progress # "none"
                            /\ statuses[id] = "preparing"
                                    <=> entries[id].layer.kind = "preparing"
        BY DEF ViewMatches
    <2>1. AsRendered
        BY DEF ViewInv
    <2>2. \A id \in DOMAIN entries : EntryOK(id)
        BY DEF ViewInv, EntriesOK
    <2> QED BY <2>1, <2>2 DEF AsRendered, EntryOK, OnMap
<1> QED BY <1>1, ViewInvariant, PTL

\* A step that leaves the map in place keeps the source of every layer whose
\* token and address the render did not change.
THEOREM SourcesAreKept == Spec => KeepsSources
<1> DEFINE Kind == (Live /\ view' # None /\ view'.key = view.key /\ view.style) =>
                      \A id \in DOMAIN entries :
                        (OnMap(id) /\ entries[id].layer \in Wanted) => OnMap(id)'
<1>1. ViewInv /\ [Next]_vars => Kind
    <2> SUFFICES ASSUME ViewInv, [Next]_vars, Live, view' # None, view'.key = view.key,
                        view.style, NEW id \in DOMAIN entries, OnMap(id),
                        entries[id].layer \in Wanted
                 PROVE  OnMap(id)'
        OBVIOUS
    <2>1. CASE UNCHANGED entries
        BY <2>1 DEF OnMap
    <2>2. CASE \E j \in DOMAIN entries : MetadataArrive(j) \/ MetadataFail(j)
        <3>1. PICK j \in DOMAIN entries : MetadataArrive(j) \/ MetadataFail(j)
            BY <2>2
        <3>2. entries[j].progress = "resolving" /\ entries[id].progress = "added"
            BY <3>1 DEF MetadataArrive, MetadataFail, OnMap
        <3>3. PICK p : entries' = [entries EXCEPT ![j].progress = p]
            BY <3>1 DEF MetadataArrive, MetadataFail
        <3>4. id # j
            BY <3>2
        <3>5. id \in DOMAIN entries' /\ entries'[id] = entries[id]
            BY <3>3, <3>4
        <3> QED BY <3>2, <3>5 DEF OnMap
    <2>3. CASE RunEffects
        <3>1. rendered # None /\ InPlace
            BY <2>3 DEF RunEffects, Live, InPlace
        <3>2. Reconcile
            BY <3>1, <2>3 DEF RunEffects, InPlace
        <3>3. PICK l : l = entries[id].layer
            OBVIOUS
        <3>4. l \in Wanted /\ l \in Layer /\ Id(l) = id /\ rendered \in Shown
            BY <3>1, <3>3 DEF ViewInv, WidgetInv, EntriesOK, EntryOK, Entry
        <3>5. PICK k : k = (CHOOSE m \in Wanted : Id(m) = id)
            OBVIOUS
        <3>6. k = l
            <4>1. k \in Wanted /\ Id(k) = id
                BY <3>4, <3>5
            <4> QED BY <4>1, <3>4, IdUnique
        <3>7. Kept(l)
            BY <3>3, <3>4, SameRefl DEF Kept
        <3>8. id \in {Id(w) : w \in Wanted}
            BY <3>4
        <3>9. id \in DOMAIN entries' /\ entries'[id] = [entries[id] EXCEPT !.layer = l]
            BY <3>2, <3>5, <3>6, <3>7, <3>8 DEF Reconcile
        <3>10. entries[id] \in Entry /\ entries[id].progress = "added"
            BY DEF ViewInv, EntriesOK, EntryOK, OnMap
        <3>11. entries'[id].progress = "added"
            BY <3>9, <3>10 DEF Entry
        <3> QED BY <3>9, <3>11 DEF OnMap
    <2>4. CASE StyleLoads
        BY <2>4 DEF StyleLoads
    <2>5. CASE TearDown
        BY <2>5 DEF TearDown
    <2>6. \/ UNCHANGED entries
          \/ \E j \in DOMAIN entries : MetadataArrive(j) \/ MetadataFail(j)
          \/ RunEffects \/ StyleLoads \/ TearDown
        BY DEF Next, Render, mapVars, SourceLoads, SourceReloads, TileFails, HandleError,
               AnswerRefresh, AnswerPreparation, Environment, viewVars, vars
    <2> QED BY <2>1, <2>2, <2>3, <2>4, <2>5, <2>6
<1>2. ViewInv /\ [Next]_vars => [Kind]_vars
    BY <1>1
<1> QED BY <1>2, ViewInvariant, PTL DEF Spec, KeepsSources

-----------------------------------------------------------------------------
(* What is due.                                                            *)

\* A view without a map has nothing on it; once the effects have run there is a map
\* exactly for a render.
ViewFollows ==
    /\ view = None => entries = NoEntries /\ handlers = {} /\ renewing = {}
    /\ (~gone /\ ~effectsDue) => (view = None <=> rendered = None)

\* Something that will happen: a render or its effects, the style, an answer of the host
\* to a refresh or to a preparation, the body of an error, metadata, or the map's idle
\* event for a layer that no renewal holds up.
SomethingIsDue ==
    \/ rendered # ToRender \/ effectsDue
    \/ Live /\ ~view.style
    \/ calls # {}
    \/ /\ preparation # None /\ preparation.sequence = sequence
       /\ preparation.waiting \cap DOMAIN preparation.layers # {}
    \/ Live /\ handlers # {}
    \/ Live /\ \E id \in DOMAIN entries :
        \/ entries[id].progress = "resolving"
        \/ OnMap(id) /\ statuses[id] = "loading" /\ \A r \in renewing : r.id # id

\* A map of the view is there.
LEMMA ViewsNotNone == None \notin Views
BY KeyAssumption DEF Views

LEMMA FollowsStep == ViewInv /\ ViewFollows /\ [Next]_vars => ViewFollows'
<1> SUFFICES ASSUME ViewInv, ViewFollows, [Next]_vars PROVE ViewFollows'
    OBVIOUS
<1>1. CASE Render
    BY <1>1 DEF Render, mapVars, ViewFollows
<1>2. CASE RunEffects
    <2>1. UNCHANGED rendered /\ (view = None \/ view # None)
        BY <1>2 DEF RunEffects
    <2>2. CASE rendered = None
        BY <2>2, <1>2 DEF RunEffects, Dispose, ViewFollows
    <2>3. CASE rendered # None /\ ~InPlace
        <3>1. view' = [key |-> Key(rendered), style |-> FALSE] /\ rendered \in Shown
            BY <2>3, <1>2 DEF RunEffects, ViewInv, WidgetInv
        <3>2. view' \in Views
            BY <3>1 DEF Views, Key, Shown
        <3> QED BY <2>1, <2>3, <3>2, ViewsNotNone DEF ViewFollows
    <2>4. CASE rendered # None /\ InPlace
        BY <2>1, <2>4, <1>2 DEF RunEffects, InPlace, ViewFollows
    <2> QED BY <2>2, <2>3, <2>4
<1>3. CASE StyleLoads
    <2>1. view # None /\ view \in Views /\ rendered # None /\ UNCHANGED <<rendered, gone, effectsDue>>
          /\ view' = [view EXCEPT !.style = TRUE]
        BY <1>3 DEF StyleLoads, Live, ViewInv, sessionVars
    <2>2. view' \in Views
        BY <2>1 DEF Views
    <2> QED BY <2>1, <2>2, ViewsNotNone DEF ViewFollows
<1>4. ASSUME Live, UNCHANGED <<rendered, effectsDue, view, gone>>
      PROVE  ViewFollows'
    BY <1>4 DEF Live, ViewFollows
<1>5. CASE \E id \in DOMAIN entries :
              MetadataArrive(id) \/ MetadataFail(id) \/ SourceLoads(id)
                \/ SourceReloads(id) \/ TileFails(id)
    BY <1>4, <1>5 DEF MetadataArrive, MetadataFail, SourceLoads, SourceReloads, TileFails,
                      MapEvent, Trouble, sessionVars, Event
<1>6. CASE \E h \in handlers : HandleError(h)
    BY <1>4, <1>6 DEF HandleError, ReportFailure, IgnoreExpiry, RenewToken, Renew, sessionVars
<1>7. ASSUME NEW c \in calls, AnswerRefresh(c)
      PROVE  ViewFollows'
    <2>1. UNCHANGED <<rendered, effectsDue, view, entries, handlers, gone>>
          /\ renewing' \subseteq renewing
        BY <1>7 DEF AnswerRefresh, RefreshEnds, RefreshIgnored, RefreshAnswered, RefreshRefused,
                    EndRenewals
    <2> QED BY <2>1 DEF ViewFollows
<1>8. CASE TearDown
    BY <1>8 DEF TearDown, Teardown, Dispose, ViewFollows
<1>9. CASE AnswerPreparation \/ Environment \/ UNCHANGED vars
    <2>1. UNCHANGED <<rendered, effectsDue, view, entries, handlers, renewing, gone>>
        BY <1>9 DEF AnswerPreparation, viewVars, LayerPrepared, LayerFails, Replace, Environment,
                    HostMessage, ToolResult, ToolFails, Expire, vars, sessionVars
    <2> QED BY <2>1 DEF ViewFollows
<1> QED BY <1>1, <1>2, <1>3, <1>5, <1>6, <1>7, <1>8, <1>9 DEF Next

\* Where nothing is due, the widget is at rest.
LEMMA RestsOtherwise ==
    ASSUME ViewInv, ViewFollows, LayersPrepared, ~SomethingIsDue
    PROVE  Settled
<1> SUFFICES ASSUME ~gone PROVE Settled
    BY DEF Settled
<1>1. rendered = ToRender /\ ~effectsDue /\ calls = {} /\ effectsDue \in BOOLEAN
    BY DEF SomethingIsDue, ViewInv
<1>2. renewing = {}
    BY <1>1 DEF ViewInv, WidgetInv
<1>3. handlers = {}
    BY <1>1 DEF SomethingIsDue, ViewFollows, Live
<1>4. preparation # None => preparation.waiting = {}
    <2>1. preparation # None => preparation.sequence = sequence
        BY DEF ViewInv, WidgetInv, SessionInv, MapExact, OnlyLatestMap
    <2> QED BY <2>1 DEF SomethingIsDue, LayersPrepared, Prepares
<1>5. ASSUME rendered # None
      PROVE  /\ view # None /\ view.style
             /\ \A l \in Wanted : Id(l) \in DOMAIN statuses
                                /\ statuses[Id(l)] \in {"loaded", "failed"}
    <2>1. Live /\ view # None
        BY <1>1, <1>5 DEF ViewFollows, Live
    <2>2. view.style
        BY <2>1 DEF SomethingIsDue
    <2>3. AsRendered
        BY <1>1, <2>1, <2>2 DEF ViewInv
    <2>4. config = rendered
        BY <1>1, <1>5 DEF ToRender
    <2>5. ASSUME NEW l \in Wanted
          PROVE  Id(l) \in DOMAIN statuses /\ statuses[Id(l)] \in {"loaded", "failed"}
        <3>1. PICK id \in DOMAIN entries : entries[id].layer = l
            BY <2>3 DEF AsRendered
        <3>2. /\ Id(l) = id /\ id \in DOMAIN statuses /\ statuses[id] \in States
              /\ entries[id].progress \in Progress
              /\ statuses[id] = "loading" => entries[id].progress # "none"
              /\ statuses[id] = "preparing" => l.kind = "preparing"
            BY <3>1 DEF ViewInv, EntriesOK, EntryOK, Entry
        <3>3. l.kind # "preparing"
            <4>1. PICK i \in DOMAIN config.layers : l = config.layers[i]
                BY <2>4 DEF Wanted
            <4> QED BY <4>1, <1>1, <1>4, <1>5, <2>4 DEF LayersPrepared
        <3>4. statuses[id] # "loading"
            BY <3>2, <2>1, <1>2 DEF SomethingIsDue, OnMap, Progress
        <3> QED BY <3>2, <3>3, <3>4 DEF States
    <2> QED BY <2>1, <2>2, <2>5
<1> QED BY <1>1, <1>2, <1>3, <1>4, <1>5 DEF Settled

\* The widget is never stuck: however results, renewals, preparations, renders and
\* failures overtake one another, as long as it is not at rest one of those who owe it
\* an event still does.  What WidgetSettles adds, that this ends, is checked.
THEOREM WidgetIsNeverStuck == Spec => [](Settled \/ SomethingIsDue)
<1>1. Init => ViewFollows
    BY DEF Init, ViewFollows
<1>2. Spec => []LayersPrepared
    BY WidgetImplementsSession, PreparationsAreUnderWay, PTL
<1>3. ViewInv /\ ViewFollows /\ LayersPrepared => Settled \/ SomethingIsDue
    BY RestsOtherwise
<1> QED BY <1>1, <1>2, <1>3, FollowsStep, ViewInvariant, PTL DEF Spec

=============================================================================

------------------------- MODULE MapWorkspaceProofs -------------------------
(***************************************************************************)
(* Proofs about the map page, for any layers, calls and lists: the list    *)
(* has no layer twice, a layer is pending for one call, and the sources of *)
(* the map follow the list.                                                *)
(***************************************************************************)
EXTENDS MapWorkspace, FiniteSetTheorems, WellFoundedInduction, TLAPS

-----------------------------------------------------------------------------
(* The invariants.                                                         *)

\* One call waits for a pending layer, and none for another.
OneCallPending ==
    /\ \A l \in Catalog :
        l \in pending <=> \E c \in Calls : call[c].pc = "resolving" /\ call[c].layer = l
    /\ \A c, d \in Calls :
        (call[c].pc = "resolving" /\ call[d].pc = "resolving" /\ call[c].layer = call[d].layer)
            => c = d
    /\ \A c \in Calls : call[c].pc \in {"preparing", "resolving"} => call[c].layer \in Catalog

\* A list of the page.
GoodList(list) == list \in Seq(Entries) /\ Unique(list)

ListPart == GoodList(layers) /\ GoodList(rendered) /\ dirty \in BOOLEAN

CallPart ==
    /\ call \in [Calls -> [pc : {"idle", "preparing", "resolving"},
                           layer : Catalog \cup {None}, hide : BOOLEAN]]
    /\ outcome \in [Calls -> {"none", "ok", "failed"}]
    /\ pending \subseteq Catalog /\ prepared \subseteq Catalog
    /\ OneCallPending

RestPart ==
    /\ failures \in [Layers -> SUBSET {"tile", "unidentified"}]
    /\ operations \in 0..MaxOperations /\ faults \in 0..MaxFaults

\* What a run has done up to the archive that it reads.
RunSoFar ==
    sync = "reading" =>
        /\ reading \in DOMAIN rendered
        /\ rendered[reading].id \in Catalog /\ rendered[reading].id \in managed
        /\ \A k \in 1..(reading - 1) :
            rendered[k].id \in onMap /\ rendered[k].id \in described

\* The list of the render is on the map.
MapIsList ==
    /\ onMap = Ids(rendered) /\ managed = Ids(rendered) /\ described = Ids(rendered)
    /\ interactive = {rendered[i].id : i \in {n \in DOMAIN rendered : rendered[n].visible}}

MapType ==
    /\ styleReady \in BOOLEAN
    /\ sync \in {"none", "queued", "reading"} /\ reading \in 0..Len(rendered)
    /\ onMap \subseteq Layers /\ managed \subseteq Layers
    /\ described \subseteq Layers /\ interactive \subseteq Layers

MapPart ==
    /\ MapType
    /\ onMap \subseteq managed /\ interactive \subseteq onMap
    /\ (onMap \cap Query) \subseteq described
    /\ RunSoFar
    /\ sync = "queued" <=> ~styleReady
    /\ Settled => MapIsList

WorkspaceInv == ListPart /\ CallPart /\ RestPart /\ MapPart

-----------------------------------------------------------------------------
(* Runs of the source task.                                                *)

\* A set of natural numbers has a least element.
LEMMA LeastElement ==
    ASSUME NEW S \in SUBSET Nat, S # {}
    PROVE  \E m \in S : \A k \in S : m <= k
<1>1. PICK m \in S : \A k \in S : <<k, m>> \notin OpToRel(<, Nat)
    BY WFMin, NatLessThanWellFounded, Zenon
<1>2. \A k \in S : ~(k < m)
    BY <1>1, Zenon DEF OpToRel
<1>3. m \in Nat /\ \A k \in S : k \in Nat /\ ~(k < m)
    BY <1>2
<1>4. \A k \in S : m <= k
    BY <1>3
<1> QED BY <1>4

\* The layers of a list are those of the catalog and of queries.
LEMMA ListIds ==
    ASSUME NEW list \in Seq(Entries)
    PROVE  /\ Ids(list) \subseteq Layers
           /\ \A k \in DOMAIN list : list[k] \in Entries /\ list[k].id \in Layers
           /\ DOMAIN list = 1..Len(list) /\ Len(list) \in Nat
<1>1. DOMAIN list = 1..Len(list) /\ Len(list) \in Nat
    OBVIOUS
<1>2. \A k \in DOMAIN list : list[k] \in Entries
    BY <1>1
<1>3. \A k \in DOMAIN list : list[k].id \in Layers
    BY <1>2 DEF Entries
<1> QED BY <1>1, <1>2, <1>3 DEF Ids

\* The first archive of a list from position i on, or the end of the list.
FirstRead(list, i) ==
    LET reads == {j \in i..Len(list) : list[j].id \in Catalog}
    IN IF reads = {} THEN Len(list) + 1
       ELSE CHOOSE j \in reads : \A k \in reads : j <= k

\* Where a run stops: at an archive, or after the end; before that it passes
\* layers of queries only.
LEMMA Stop ==
    ASSUME NEW list \in Seq(Entries), NEW i \in 1..(Len(list) + 1), NEW stop,
           stop = FirstRead(list, i)
    PROVE  /\ stop \in i..(Len(list) + 1)
           /\ \A k \in i..(stop - 1) : list[k].id \in Query
           /\ stop <= Len(list) => list[stop].id \in Catalog
<1> DEFINE reads == {j \in i..Len(list) : list[j].id \in Catalog}
<1>1. Len(list) \in Nat /\ i \in Nat
    OBVIOUS
<1>2. \A k \in i..Len(list) : k \in Nat /\ (list[k].id \in Catalog \/ list[k].id \in Query)
    BY <1>1, ListIds DEF Layers
<1>3. CASE reads = {}
    <2>1. stop = Len(list) + 1
        BY <1>3 DEF FirstRead
    <2>2. \A k \in i..Len(list) : k \notin reads
        BY <1>3
    <2> QED BY <2>1, <2>2, <1>1, <1>2
<1>4. CASE reads # {}
    <2>1. reads \in SUBSET Nat
        BY <1>1
    <2>2. \E m \in reads : \A k \in reads : m <= k
        BY <2>1, <1>4, LeastElement
    <2>3. stop = CHOOSE j \in reads : \A k \in reads : j <= k
        BY <1>4 DEF FirstRead
    <2> HIDE DEF reads
    <2>4. stop \in reads /\ \A k \in reads : stop <= k
        BY <2>2, <2>3
    <2>5. \A k \in Nat : k < stop => k \notin reads
        BY <2>1, <2>4
    <2> USE DEF reads
    <2>6. stop \in i..Len(list) /\ list[stop].id \in Catalog
        BY <2>4
    <2>7. \A k \in i..(stop - 1) : k \in i..Len(list) /\ k \in Nat /\ k < stop
        BY <2>6, <1>1
    <2>8. \A k \in i..(stop - 1) : list[k].id \in Query
        BY <2>5, <2>7, <1>2
    <2> QED BY <2>6, <2>8, <1>1
<1> QED BY <1>3, <1>4

\* A run that starts where all before is on the map and described ends with the
\* list on the map, or at an archive with all before it on the map.
LEMMA RunEffect ==
    ASSUME NEW list \in Seq(Entries), NEW i \in 1..(Len(list) + 1),
           NEW have \in SUBSET Layers, NEW know \in SUBSET Layers,
           rendered' = list, Run(list, i, have, know),
           managed \subseteq Layers, interactive \subseteq onMap, interactive \subseteq Layers,
           onMap \subseteq have, have \subseteq managed, (have \cap Query) \subseteq know,
           \A k \in 1..(i - 1) : list[k].id \in have /\ list[k].id \in know
    PROVE  /\ sync' \in {"none", "reading"} /\ reading' \in 0..Len(list)
           /\ onMap' \subseteq Layers /\ managed' \subseteq Layers
           /\ described' \subseteq Layers /\ interactive' \subseteq Layers
           /\ onMap' \subseteq managed' /\ interactive' \subseteq onMap'
           /\ (onMap' \cap Query) \subseteq described'
           /\ RunSoFar'
           /\ sync' = "none" => MapIsList'
<1>1. PICK stop : stop = FirstRead(list, i)
    OBVIOUS
<1>2. /\ stop \in i..(Len(list) + 1)
      /\ \A k \in i..(stop - 1) : list[k].id \in Query
      /\ stop <= Len(list) => list[stop].id \in Catalog
    BY <1>1, Stop
<1>3. PICK passed : passed = {list[k].id : k \in i..(stop - 1)}
    OBVIOUS
<1>4. PICK active : active = Ids(list)
    OBVIOUS
<1>5. IF stop <= Len(list)
      THEN /\ sync' = "reading" /\ reading' = stop
           /\ managed' = managed \cup passed \cup {list[stop].id}
           /\ onMap' = have \cup passed
           /\ described' = know \cup (passed \ have)
           /\ UNCHANGED interactive
      ELSE /\ sync' = "none" /\ reading' = 0
           /\ managed' = (managed \cup passed) \cap active
           /\ onMap' = (have \cup passed) \ ((managed \cup passed) \ active)
           /\ described' = (know \cup (passed \ have)) \cap active
           /\ interactive' = {e.id : e \in {list[k] : k \in {n \in DOMAIN list : list[n].visible}}}
    BY <1>1, <1>3, <1>4 DEF Run, FirstRead
<1>6. /\ Len(list) \in Nat /\ DOMAIN list = 1..Len(list) /\ active \subseteq Layers
      /\ \A k \in 1..Len(list) : list[k].id \in active
      /\ \A x \in active : \E k \in 1..Len(list) : list[k].id = x
      /\ Query \subseteq Layers
    BY <1>4, ListIds DEF Ids, Layers
<1>7. passed \subseteq Query /\ passed \subseteq active
    BY <1>2, <1>3, <1>6
<1>8. \A k \in 1..(stop - 1) : /\ list[k].id \in have \cup passed
                               /\ list[k].id \in know \cup (passed \ have)
    <2> SUFFICES ASSUME NEW k \in 1..(stop - 1)
                 PROVE  /\ list[k].id \in have \cup passed
                        /\ list[k].id \in know \cup (passed \ have)
        OBVIOUS
    <2>1. k \in 1..(i - 1) \/ k \in i..(stop - 1)
        BY <1>2
    <2>2. CASE k \in 1..(i - 1)
        BY <2>2
    <2>3. CASE k \in i..(stop - 1)
        BY <2>3, <1>3, <1>7
    <2> QED BY <2>1, <2>2, <2>3
<1>9. ((have \cup passed) \cap Query) \subseteq know \cup (passed \ have)
    BY <1>7
<1>10. CASE stop <= Len(list)
    <2>1. /\ sync' = "reading" /\ reading' = stop
          /\ managed' = managed \cup passed \cup {list[stop].id}
          /\ onMap' = have \cup passed
          /\ described' = know \cup (passed \ have)
          /\ interactive' = interactive
        BY <1>5, <1>10
    <2>2. stop \in 1..Len(list) /\ list[stop].id \in Catalog /\ list[stop].id \in Layers
        BY <1>2, <1>6, <1>10 DEF Layers
    <2>3. RunSoFar'
        BY <2>1, <2>2, <1>6, <1>8 DEF RunSoFar
    <2>4. sync' \in {"none", "reading"} /\ reading' \in 0..Len(list) /\ sync' # "none"
        BY <2>1, <2>2
    <2> QED BY <2>1, <2>2, <2>3, <2>4, <1>6, <1>7, <1>9
<1>11. CASE ~(stop <= Len(list))
    <2>1. /\ sync' = "none" /\ reading' = 0
          /\ managed' = (managed \cup passed) \cap active
          /\ onMap' = (have \cup passed) \ ((managed \cup passed) \ active)
          /\ described' = (know \cup (passed \ have)) \cap active
          /\ interactive' = {e.id : e \in {list[k] : k \in {n \in DOMAIN list : list[n].visible}}}
        BY <1>5, <1>11
    <2>2. stop = Len(list) + 1
        BY <1>2, <1>6, <1>11
    <2>3. /\ active \subseteq have \cup passed
          /\ active \subseteq know \cup (passed \ have)
        BY <2>2, <1>6, <1>8
    <2>4. onMap' = active /\ managed' = active /\ described' = active
        BY <2>1, <2>3
    <2>5. interactive' = {list[k].id : k \in {n \in DOMAIN list : list[n].visible}}
        BY <2>1
    <2>6. interactive' \subseteq active
        BY <2>5, <1>6
    <2>7. MapIsList'
        BY <2>4, <2>5, <1>4 DEF MapIsList, Ids
    <2>8. RunSoFar'
        BY <2>1 DEF RunSoFar
    <2> QED BY <2>1, <2>4, <2>6, <2>7, <2>8, <1>6
<1> QED BY <1>10, <1>11

-----------------------------------------------------------------------------
(* Lists.                                                                  *)

LEMMA EntryType ==
    ASSUME NEW l \in Layers
    PROVE  Entry(l) \in Entries /\ Entry(l).id = l
BY DEF Entry, Entries

\* What is appended must be new.
LEMMA AppendGood ==
    ASSUME NEW list, GoodList(list), NEW l \in Layers, l \notin Ids(list)
    PROVE  GoodList(Append(list, Entry(l)))
<1>1. list \in Seq(Entries) /\ Unique(list)
    BY DEF GoodList
<1>2. PICK e : e = Entry(l)
    OBVIOUS
<1>3. e \in Entries /\ e.id = l
    BY <1>2, EntryType
<1>4. PICK new : new = Append(list, e)
    OBVIOUS
<1>5. /\ new \in Seq(Entries) /\ Len(new) = Len(list) + 1
      /\ \A i \in 1..Len(list) : new[i] = list[i]
      /\ new[Len(list) + 1] = e
    BY <1>1, <1>3, <1>4
<1>6. Len(list) \in Nat /\ DOMAIN list = 1..Len(list) /\ DOMAIN new = 1..(Len(list) + 1)
    BY <1>1, <1>5
<1>7. \A i \in 1..Len(list) : list[i].id # l
    BY <1>6 DEF Ids
<1>8. ASSUME NEW i \in DOMAIN new, NEW j \in DOMAIN new, new[i].id = new[j].id
      PROVE  i = j
    <2>1. /\ i \in 1..Len(list) \/ i = Len(list) + 1
          /\ j \in 1..Len(list) \/ j = Len(list) + 1
        BY <1>6
    <2>2. CASE i \in 1..Len(list) /\ j \in 1..Len(list)
        BY <2>2, <1>1, <1>5, <1>6, <1>8 DEF Unique
    <2>3. CASE i = Len(list) + 1 /\ j \in 1..Len(list)
        BY <2>3, <1>3, <1>5, <1>7, <1>8
    <2>4. CASE i \in 1..Len(list) /\ j = Len(list) + 1
        BY <2>4, <1>3, <1>5, <1>7, <1>8
    <2> QED BY <2>1, <2>2, <2>3, <2>4
<1> QED BY <1>2, <1>4, <1>5, <1>8 DEF GoodList, Unique

\* A list with the ids of another and entries of the type is as good.
LEMMA SameIdsGood ==
    ASSUME NEW list, GoodList(list), NEW new, new = [i \in DOMAIN list |-> new[i]],
           \A i \in DOMAIN list : new[i] \in Entries /\ new[i].id = list[i].id
    PROVE  GoodList(new)
<1>1. list \in Seq(Entries) /\ Unique(list) /\ DOMAIN list = 1..Len(list) /\ Len(list) \in Nat
    BY DEF GoodList
<1>2. new \in [1..Len(list) -> Entries]
    BY <1>1
<1>3. new \in Seq(Entries) /\ DOMAIN new = DOMAIN list
    BY <1>1, <1>2
<1> QED BY <1>1, <1>3 DEF GoodList, Unique

LEMMA MarkErrorGood ==
    ASSUME NEW list, GoodList(list), NEW l, NEW failed \in BOOLEAN
    PROVE  GoodList(MarkError(list, l, failed))
<1>1. \A i \in DOMAIN list : list[i] \in Entries
    BY ListIds DEF GoodList
<1>2. \A e \in Entries : /\ [e EXCEPT !.error = failed] \in Entries
                         /\ [e EXCEPT !.error = failed].id = e.id
    BY DEF Entries
<1>3. PICK new : new = MarkError(list, l, failed)
    OBVIOUS
<1>4. new = [i \in DOMAIN list |->
                IF list[i].id = l THEN [list[i] EXCEPT !.error = failed] ELSE list[i]]
    BY <1>3 DEF MarkError
<1>5. \A i \in DOMAIN list : new[i] \in Entries /\ new[i].id = list[i].id
    BY <1>1, <1>2, <1>4
<1>6. new = [i \in DOMAIN list |-> new[i]]
    BY <1>4
<1> QED BY <1>3, <1>5, <1>6, SameIdsGood

LEMMA VisibilityGood ==
    ASSUME NEW list, GoodList(list), NEW l, NEW visible \in BOOLEAN
    PROVE  GoodList([i \in DOMAIN list |->
                IF list[i].id = l THEN [list[i] EXCEPT !.visible = visible] ELSE list[i]])
<1>1. \A i \in DOMAIN list : list[i] \in Entries
    BY ListIds DEF GoodList
<1>2. \A e \in Entries : /\ [e EXCEPT !.visible = visible] \in Entries
                         /\ [e EXCEPT !.visible = visible].id = e.id
    BY DEF Entries
<1>3. PICK new : new = [i \in DOMAIN list |->
            IF list[i].id = l THEN [list[i] EXCEPT !.visible = visible] ELSE list[i]]
    OBVIOUS
<1>4. \A i \in DOMAIN list : new[i] \in Entries /\ new[i].id = list[i].id
    BY <1>1, <1>2, <1>3
<1>5. new = [i \in DOMAIN list |-> new[i]]
    BY <1>3
<1> QED BY <1>3, <1>4, <1>5, SameIdsGood

\* An order that names no place twice repeats no layer.
LEMMA ReorderGood ==
    ASSUME NEW list, GoodList(list), NEW order \in [DOMAIN list -> DOMAIN list],
           \A i, j \in DOMAIN order : order[i] = order[j] => i = j
    PROVE  GoodList([i \in DOMAIN list |-> list[order[i]]])
<1>1. list \in Seq(Entries) /\ Unique(list) /\ DOMAIN list = 1..Len(list) /\ Len(list) \in Nat
    BY DEF GoodList
<1>2. PICK new : new = [i \in DOMAIN list |-> list[order[i]]]
    OBVIOUS
<1>3. new \in [1..Len(list) -> Entries] /\ DOMAIN new = DOMAIN list
    BY <1>1, <1>2
<1>4. new \in Seq(Entries)
    BY <1>1, <1>3
<1>5. ASSUME NEW i \in DOMAIN list, NEW j \in DOMAIN list, new[i].id = new[j].id
      PROVE  i = j
    <2>1. list[order[i]].id = list[order[j]].id /\ order[i] \in DOMAIN list
          /\ order[j] \in DOMAIN list
        BY <1>2, <1>5
    <2>2. order[i] = order[j]
        BY <2>1, <1>1 DEF Unique
    <2> QED BY <2>2
<1> QED BY <1>2, <1>3, <1>4, <1>5 DEF GoodList, Unique

LEMMA WithoutGood ==
    ASSUME NEW list, GoodList(list), NEW l
    PROVE  GoodList(Without(list, l)) /\ l \notin Ids(Without(list, l))
<1>1. list \in Seq(Entries) /\ Unique(list) /\ DOMAIN list = 1..Len(list) /\ Len(list) \in Nat
    BY DEF GoodList
<1>2. CASE l \notin Ids(list)
    BY <1>2 DEF Without
<1>3. CASE l \in Ids(list)
    <2>1. \E i \in DOMAIN list : list[i].id = l
        BY <1>3 DEF Ids
    <2>2. PICK p : p = CHOOSE i \in DOMAIN list : list[i].id = l
        OBVIOUS
    <2>3. p \in 1..Len(list) /\ list[p].id = l
        BY <2>1, <2>2, <1>1
    <2>4. \A i \in 1..Len(list) : list[i].id = l => i = p
        BY <2>3, <1>1 DEF Unique
    <2>5. PICK new : new = Without(list, l)
        OBVIOUS
    <2>6. new = [i \in 1..(Len(list) - 1) |-> IF i < p THEN list[i] ELSE list[i + 1]]
        BY <2>2, <2>5, <1>3 DEF Without
    <2>7. \A i \in 1..(Len(list) - 1) :
            /\ i < p => new[i] = list[i] /\ i \in 1..Len(list)
            /\ ~(i < p) => new[i] = list[i + 1] /\ i + 1 \in 1..Len(list) /\ i + 1 # p
        BY <2>3, <2>6, <1>1
    <2>8. \A i \in 1..(Len(list) - 1) : new[i] \in Entries /\ new[i].id # l
        <3> SUFFICES ASSUME NEW i \in 1..(Len(list) - 1)
                     PROVE  new[i] \in Entries /\ new[i].id # l
            OBVIOUS
        <3>1. CASE i < p
            BY <3>1, <2>3, <2>4, <2>7, <1>1
        <3>2. CASE ~(i < p)
            BY <3>2, <2>3, <2>4, <2>7, <1>1
        <3> QED BY <3>1, <3>2
    <2>9. Len(list) - 1 \in Nat /\ DOMAIN new = 1..(Len(list) - 1)
        BY <2>3, <2>6, <1>1
    <2>10. new \in Seq(Entries)
        <3>1. new \in [1..(Len(list) - 1) -> Entries]
            BY <2>6, <2>8
        <3> QED BY <3>1, <2>9
    <2>11. ASSUME NEW i \in DOMAIN new, NEW j \in DOMAIN new, new[i].id = new[j].id
           PROVE  i = j
        <3>1. i \in 1..(Len(list) - 1) /\ j \in 1..(Len(list) - 1)
            BY <2>9
        <3>2. PICK a \in 1..Len(list) : /\ new[i] = list[a]
                                        /\ (i < p /\ a = i) \/ (~(i < p) /\ a = i + 1)
            BY <3>1, <2>7
        <3>3. PICK b \in 1..Len(list) : /\ new[j] = list[b]
                                        /\ (j < p /\ b = j) \/ (~(j < p) /\ b = j + 1)
            BY <3>1, <2>7
        <3>4. a = b
            BY <3>2, <3>3, <2>11, <1>1 DEF Unique
        <3> QED BY <3>1, <3>2, <3>3, <3>4, <2>3
    <2>12. l \notin Ids(new)
        BY <2>8, <2>9 DEF Ids
    <2> QED BY <2>5, <2>10, <2>11, <2>12 DEF GoodList, Unique
<1> QED BY <1>2, <1>3

LEMMA RouteGood ==
    ASSUME NEW list \in RouteLists
    PROVE  GoodList(list)
<1>1. list \in Seq({Entry(l) : l \in Catalog}) /\ Unique(list)
    BY LayerAssumption DEF Unique
<1>2. {Entry(l) : l \in Catalog} \subseteq Entries
    BY EntryType DEF Layers
<1>3. list \in Seq(Entries)
    BY <1>1, <1>2
<1> QED BY <1>1, <1>3 DEF GoodList

-----------------------------------------------------------------------------
(* The parts of the invariant that a step leaves alone.                    *)

LEMMA ListSet ==
    ASSUME ListPart, NEW list, GoodList(list), SetLayers(list), UNCHANGED rendered
    PROVE  ListPart' /\ dirty' = TRUE
BY DEF ListPart, GoodList, Unique, SetLayers

LEMMA ListStays ==
    ASSUME ListPart, UNCHANGED listVars
    PROVE  ListPart'
BY DEF ListPart, GoodList, Unique, listVars

LEMMA CallStays ==
    ASSUME CallPart, UNCHANGED callVars
    PROVE  CallPart'
BY DEF CallPart, OneCallPending, callVars

LEMMA RestStays ==
    ASSUME RestPart, UNCHANGED <<failures, bounds>>
    PROVE  RestPart'
BY DEF RestPart, bounds

LEMMA RestBounds ==
    ASSUME RestPart, UNCHANGED failures, Operate \/ Fault
    PROVE  RestPart'
<1>1. operations \in 0..MaxOperations /\ faults \in 0..MaxFaults
    BY DEF RestPart
<1>2. operations' \in 0..MaxOperations /\ faults' \in 0..MaxFaults
    BY <1>1, BoundAssumption DEF Operate, Fault
<1> QED BY <1>2 DEF RestPart

\* The map is behind a list that is set; it stays as it was.
LEMMA MapStays ==
    ASSUME MapPart, UNCHANGED <<mapVars, rendered>>, ~dirty' => ~dirty
    PROVE  MapPart'
<1>1. MapType' /\ RunSoFar' /\ (MapIsList => MapIsList')
    BY DEF MapPart, MapType, RunSoFar, MapIsList, Ids, mapVars
<1>2. Settled' => Settled
    BY DEF Settled, mapVars
<1> QED BY <1>1, <1>2 DEF MapPart, mapVars

\* A run keeps what is true of the map, and ends with the list on it.
LEMMA MapRuns ==
    ASSUME MapPart, NEW list, GoodList(list), NEW i \in 1..(Len(list) + 1),
           NEW have \in SUBSET Layers, NEW know \in SUBSET Layers,
           rendered' = list, Run(list, i, have, know), styleReady' = TRUE,
           onMap \subseteq have, have \subseteq managed, (have \cap Query) \subseteq know,
           \A k \in 1..(i - 1) : list[k].id \in have /\ list[k].id \in know
    PROVE  MapPart'
<1>1. /\ sync' \in {"none", "reading"} /\ reading' \in 0..Len(list)
      /\ onMap' \subseteq Layers /\ managed' \subseteq Layers
      /\ described' \subseteq Layers /\ interactive' \subseteq Layers
      /\ onMap' \subseteq managed' /\ interactive' \subseteq onMap'
      /\ (onMap' \cap Query) \subseteq described'
      /\ RunSoFar'
      /\ sync' = "none" => MapIsList'
    BY RunEffect DEF GoodList, MapPart, MapType
<1>2. MapType'
    BY <1>1 DEF MapType
<1>3. Settled' => MapIsList'
    BY <1>1 DEF Settled
<1> QED BY <1>1, <1>2, <1>3 DEF MapPart

-----------------------------------------------------------------------------
(* The steps of the map.                                                   *)

LEMMA RenderStep ==
    ASSUME WorkspaceInv, Render
    PROVE  WorkspaceInv'
<1>1. /\ rendered' = layers /\ dirty' = FALSE /\ layers' = layers
      /\ UNCHANGED <<styleReady, callVars, failures, bounds>>
    BY DEF Render
<1>2. ListPart'
    BY <1>1 DEF WorkspaceInv, ListPart, GoodList, Unique
<1>3. CallPart' /\ RestPart'
    BY <1>1, CallStays, RestStays DEF WorkspaceInv
<1>4. CASE styleReady
    <2>1. Run(layers, 1, onMap, described)
        BY <1>4 DEF Render
    <2>2. GoodList(layers) /\ 1 \in 1..(Len(layers) + 1)
        BY DEF WorkspaceInv, ListPart, GoodList
    <2>3. /\ onMap \in SUBSET Layers /\ described \in SUBSET Layers
          /\ onMap \subseteq managed /\ (onMap \cap Query) \subseteq described
          /\ styleReady' = TRUE
        BY <1>1, <1>4 DEF WorkspaceInv, MapPart, MapType
    <2>4. \A k \in 1..(1 - 1) : layers[k].id \in onMap /\ layers[k].id \in described
        OBVIOUS
    <2>5. MapPart'
        BY <2>1, <2>2, <2>3, <2>4, <1>1, MapRuns DEF WorkspaceInv
    <2> QED BY <2>5, <1>2, <1>3 DEF WorkspaceInv
<1>5. CASE ~styleReady
    <2>1. /\ sync' = "queued" /\ reading' = 0
          /\ UNCHANGED <<onMap, managed, described, interactive>>
        BY <1>5 DEF Render
    <2>2. MapType'
        <3>1. Len(layers) \in Nat
            BY DEF WorkspaceInv, ListPart, GoodList
        <3> QED BY <2>1, <3>1, <1>1 DEF WorkspaceInv, MapPart, MapType
    <2>3. MapPart'
        BY <2>1, <2>2, <1>1, <1>5 DEF WorkspaceInv, MapPart, RunSoFar, Settled
    <2> QED BY <2>3, <1>2, <1>3 DEF WorkspaceInv
<1> QED BY <1>4, <1>5

LEMMA StyleLoadsStep ==
    ASSUME WorkspaceInv, StyleLoads
    PROVE  WorkspaceInv'
<1>1. /\ UNCHANGED <<listVars, callVars, failures, bounds>> /\ styleReady' = TRUE
      /\ Run(rendered, 1, onMap, described)
    BY DEF StyleLoads
<1>2. ListPart' /\ CallPart' /\ RestPart'
    BY <1>1, ListStays, CallStays, RestStays DEF WorkspaceInv
<1>3. GoodList(rendered) /\ 1 \in 1..(Len(rendered) + 1) /\ rendered' = rendered
    BY <1>1 DEF WorkspaceInv, ListPart, GoodList, listVars
<1>4. /\ onMap \in SUBSET Layers /\ described \in SUBSET Layers
      /\ onMap \subseteq managed /\ (onMap \cap Query) \subseteq described
    BY DEF WorkspaceInv, MapPart, MapType
<1>5. \A k \in 1..(1 - 1) : rendered[k].id \in onMap /\ rendered[k].id \in described
    OBVIOUS
<1>6. MapPart'
    BY <1>1, <1>3, <1>4, <1>5, MapRuns DEF WorkspaceInv
<1> QED BY <1>2, <1>6 DEF WorkspaceInv

LEMMA ReadArchiveStep ==
    ASSUME WorkspaceInv, NEW l \in Catalog, ReadArchive(l)
    PROVE  WorkspaceInv'
<1>1. /\ UNCHANGED <<listVars, callVars, styleReady, failures, bounds>>
      /\ sync = "reading" /\ rendered[reading].id = l
      /\ Run(rendered, reading + 1, onMap \cup {l}, described \cup {l})
    BY DEF ReadArchive, Reading
<1>2. ListPart' /\ CallPart' /\ RestPart'
    BY <1>1, ListStays, CallStays, RestStays DEF WorkspaceInv
<1>3. GoodList(rendered) /\ rendered' = rendered /\ DOMAIN rendered = 1..Len(rendered)
      /\ Len(rendered) \in Nat
    BY <1>1 DEF WorkspaceInv, ListPart, GoodList, listVars
<1>4. /\ reading \in DOMAIN rendered /\ l \in managed /\ l \in Layers
      /\ \A k \in 1..(reading - 1) : rendered[k].id \in onMap /\ rendered[k].id \in described
      /\ styleReady \in BOOLEAN /\ styleReady
    BY <1>1 DEF WorkspaceInv, MapPart, MapType, RunSoFar, Layers
<1>5. reading + 1 \in 1..(Len(rendered) + 1)
    BY <1>3, <1>4
<1>6. PICK have, know : have = onMap \cup {l} /\ know = described \cup {l}
    OBVIOUS
<1>7. /\ have \in SUBSET Layers /\ know \in SUBSET Layers
      /\ onMap \subseteq have /\ have \subseteq managed /\ (have \cap Query) \subseteq know
    BY <1>4, <1>6 DEF WorkspaceInv, MapPart, MapType
<1>8. \A k \in 1..((reading + 1) - 1) : rendered[k].id \in have /\ rendered[k].id \in know
    <2> SUFFICES ASSUME NEW k \in 1..((reading + 1) - 1)
                 PROVE  rendered[k].id \in have /\ rendered[k].id \in know
        OBVIOUS
    <2>1. k \in 1..(reading - 1) \/ k = reading
        BY <1>3, <1>4
    <2> QED BY <2>1, <1>1, <1>4, <1>6
<1>9. styleReady' = TRUE
    BY <1>1, <1>4
<1>10. Run(rendered, reading + 1, have, know)
    BY <1>1, <1>6
<1>11. MapPart'
    BY <1>3, <1>5, <1>7, <1>8, <1>9, <1>10, MapRuns DEF WorkspaceInv
<1> QED BY <1>2, <1>11 DEF WorkspaceInv

LEMMA FailToReadStep ==
    ASSUME WorkspaceInv, NEW l \in Catalog, FailToRead(l)
    PROVE  WorkspaceInv'
<1>1. /\ SetLayers(MarkError(layers, l, TRUE)) /\ UNCHANGED rendered
      /\ sync = "reading" /\ sync' = "none" /\ reading' = 0
      /\ UNCHANGED <<callVars, styleReady, onMap, managed, described, interactive, failures>>
      /\ UNCHANGED bounds \/ Fault
    BY DEF FailToRead, Reading
<1>2. ListPart' /\ dirty' = TRUE
    <2>1. GoodList(MarkError(layers, l, TRUE))
        BY MarkErrorGood DEF WorkspaceInv, ListPart
    <2> QED BY <2>1, <1>1, ListSet DEF WorkspaceInv
<1>3. CallPart' /\ RestPart'
    BY <1>1, CallStays, RestStays, RestBounds DEF WorkspaceInv
<1>4. MapType'
    <2>1. Len(rendered) \in Nat
        BY DEF WorkspaceInv, ListPart, GoodList
    <2> QED BY <2>1, <1>1 DEF WorkspaceInv, MapPart, MapType
<1>5. MapPart'
    BY <1>1, <1>2, <1>4 DEF WorkspaceInv, MapPart, RunSoFar, Settled
<1> QED BY <1>2, <1>3, <1>5 DEF WorkspaceInv

LEMMA TileStep ==
    ASSUME WorkspaceInv, NEW l \in Layers,
           TileLoads(l) \/ \E kind \in {"tile", "unidentified"} : TileFails(l, kind)
    PROVE  WorkspaceInv'
<1>1. /\ UNCHANGED <<rendered, callVars, mapVars>>
      /\ \/ UNCHANGED <<layers, dirty>>
         \/ \E failed \in BOOLEAN : SetLayers(MarkError(layers, l, failed))
    BY DEF TileLoads, TileFails
<1>2. ListPart' /\ (~dirty' => ~dirty)
    <2>1. CASE UNCHANGED <<layers, dirty>>
        BY <2>1, <1>1, ListStays DEF WorkspaceInv, listVars
    <2>2. CASE \E failed \in BOOLEAN : SetLayers(MarkError(layers, l, failed))
        <3>1. PICK failed \in BOOLEAN : SetLayers(MarkError(layers, l, failed))
            BY <2>2
        <3>2. GoodList(MarkError(layers, l, failed))
            BY MarkErrorGood DEF WorkspaceInv, ListPart
        <3> QED BY <3>1, <3>2, <1>1, ListSet DEF WorkspaceInv
    <2> QED BY <2>1, <2>2, <1>1
<1>3. CallPart' /\ MapPart'
    BY <1>1, <1>2, CallStays, MapStays DEF WorkspaceInv
<1>4. RestPart'
    <2>1. PICK f : /\ failures' = [failures EXCEPT ![l] = f]
                   /\ \/ f = failures[l] \ {"tile"}
                      \/ \E kind \in {"tile", "unidentified"} : f = failures[l] \cup {kind}
        BY DEF TileLoads, TileFails
    <2>2. failures \in [Layers -> SUBSET {"tile", "unidentified"}]
        BY DEF WorkspaceInv, RestPart
    <2>3. failures' \in [Layers -> SUBSET {"tile", "unidentified"}]
        BY <2>1, <2>2
    <2>4. Fault \/ UNCHANGED bounds
        BY DEF TileLoads, TileFails
    <2>5. operations \in 0..MaxOperations /\ faults \in 0..MaxFaults
        BY DEF WorkspaceInv, RestPart
    <2>6. operations' \in 0..MaxOperations /\ faults' \in 0..MaxFaults
        BY <2>4, <2>5, BoundAssumption DEF Fault, bounds
    <2> QED BY <2>3, <2>6 DEF RestPart
<1> QED BY <1>2, <1>3, <1>4 DEF WorkspaceInv

-----------------------------------------------------------------------------
(* Commands that set the list.                                             *)

LEMMA SettingStep ==
    ASSUME WorkspaceInv, Operate, NEW list, GoodList(list), SetLayers(list),
           UNCHANGED <<rendered, callVars, mapVars, failures>>
    PROVE  WorkspaceInv'
<1>1. ListPart' /\ dirty' = TRUE
    BY ListSet DEF WorkspaceInv
<1> QED BY <1>1, CallStays, MapStays, RestBounds DEF WorkspaceInv

LEMMA CommandStep ==
    ASSUME WorkspaceInv,
           \/ \E l \in Layers : RemoveLayer(l) \/ \E v \in BOOLEAN : SetLayerVisibility(l, v)
           \/ \E order \in [DOMAIN rendered -> DOMAIN rendered] : ReorderLayers(order)
           \/ \E q \in Query : ShowQuery(q)
           \/ \E list \in RouteLists : Navigate(list)
    PROVE  WorkspaceInv'
<1>1. GoodList(layers) /\ GoodList(rendered)
    BY DEF WorkspaceInv, ListPart
<1>2. ASSUME NEW l \in Layers, RemoveLayer(l)
      PROVE  WorkspaceInv'
    <2>1. GoodList(Without(layers, l))
        BY <1>1, WithoutGood
    <2> QED BY <2>1, <1>2, SettingStep DEF RemoveLayer
<1>3. ASSUME NEW l \in Layers, NEW v \in BOOLEAN, SetLayerVisibility(l, v)
      PROVE  WorkspaceInv'
    <2>1. PICK new : new = [i \in DOMAIN layers |->
            IF layers[i].id = l THEN [layers[i] EXCEPT !.visible = v] ELSE layers[i]]
        OBVIOUS
    <2>2. GoodList(new)
        BY <2>1, <1>1, VisibilityGood
    <2>3. SetLayers(new) /\ Operate /\ UNCHANGED <<rendered, callVars, mapVars, failures>>
        BY <2>1, <1>3 DEF SetLayerVisibility
    <2> QED BY <2>2, <2>3, SettingStep
<1>4. ASSUME NEW order \in [DOMAIN rendered -> DOMAIN rendered], ReorderLayers(order)
      PROVE  WorkspaceInv'
    <2>1. PICK new : new = [i \in DOMAIN rendered |-> rendered[order[i]]]
        OBVIOUS
    <2>2. \A i, j \in DOMAIN order : order[i] = order[j] => i = j
        BY <1>4 DEF ReorderLayers
    <2>3. GoodList(new)
        BY <2>1, <2>2, <1>1, ReorderGood
    <2>4. SetLayers(new) /\ Operate /\ UNCHANGED <<rendered, callVars, mapVars, failures>>
        BY <2>1, <1>4 DEF ReorderLayers
    <2> QED BY <2>3, <2>4, SettingStep
<1>5. ASSUME NEW q \in Query, ShowQuery(q)
      PROVE  WorkspaceInv'
    <2>1. GoodList(Without(layers, q)) /\ q \notin Ids(Without(layers, q))
        BY <1>1, WithoutGood
    <2>2. GoodList(Append(Without(layers, q), Entry(q)))
        BY <2>1, AppendGood DEF Layers
    <2> QED BY <2>2, <1>5, SettingStep DEF ShowQuery
<1>6. ASSUME NEW list \in RouteLists, Navigate(list)
      PROVE  WorkspaceInv'
    BY <1>6, RouteGood, SettingStep DEF Navigate
<1> QED BY <1>2, <1>3, <1>4, <1>5, <1>6

-----------------------------------------------------------------------------
(* Calls that add a layer.                                                 *)

\* The updater adds a layer that the list does not have, or leaves the list.
LEMMA AppendStep ==
    ASSUME ListPart, NEW l \in Layers, AppendLayer(l), UNCHANGED rendered
    PROVE  ListPart' /\ (~dirty' => ~dirty)
<1>1. CASE l \in Ids(layers)
    BY <1>1, ListStays DEF AppendLayer, listVars
<1>2. CASE l \notin Ids(layers)
    <2>1. GoodList(Append(layers, Entry(l))) /\ SetLayers(Append(layers, Entry(l)))
        BY <1>2, AppendGood DEF AppendLayer, ListPart
    <2> QED BY <2>1, ListSet
<1> QED BY <1>1, <1>2

LEMMA AddedStep ==
    ASSUME ListPart, NEW c \in Calls, NEW l \in Layers, Added(c, l), UNCHANGED rendered
    PROVE  /\ ListPart' /\ (~dirty' => ~dirty)
           /\ \E result \in {"ok", "failed"} : Answer(c, result)
<1>1. CASE l \in Ids(rendered)
    BY <1>1, ListStays DEF Added, listVars
<1>2. CASE l \notin Ids(rendered)
    BY <1>2, AppendStep DEF Added
<1> QED BY <1>1, <1>2

\* A call is set to a state of its own; the others are as they were.
LEMMA CallSet ==
    ASSUME CallPart, NEW c \in Calls,
           NEW state \in [pc : {"idle", "preparing", "resolving"},
                          layer : Catalog \cup {None}, hide : BOOLEAN],
           NEW result \in {"none", "ok", "failed"},
           call' = [call EXCEPT ![c] = state], outcome' = [outcome EXCEPT ![c] = result]
    PROVE  /\ call' \in [Calls -> [pc : {"idle", "preparing", "resolving"},
                                   layer : Catalog \cup {None}, hide : BOOLEAN]]
           /\ outcome' \in [Calls -> {"none", "ok", "failed"}]
           /\ call'[c] = state
           /\ \A d \in Calls : d # c => call'[d] = call[d]
BY DEF CallPart

\* An answered call waits for nothing: its layer is not pending any more.
LEMMA AnswerStep ==
    ASSUME CallPart, NEW c \in Calls, NEW result \in {"ok", "failed"}, Answer(c, result),
           prepared' \subseteq Catalog,
           pending' = IF call[c].pc = "resolving" THEN pending \ {call[c].layer} ELSE pending
    PROVE  CallPart'
<1>1. Idle \in [pc : {"idle", "preparing", "resolving"},
                layer : Catalog \cup {None}, hide : BOOLEAN]
      /\ Idle.pc = "idle"
    BY DEF Idle
<1>2. /\ call' \in [Calls -> [pc : {"idle", "preparing", "resolving"},
                              layer : Catalog \cup {None}, hide : BOOLEAN]]
      /\ outcome' \in [Calls -> {"none", "ok", "failed"}]
      /\ call'[c] = Idle
      /\ \A d \in Calls : d # c => call'[d] = call[d]
    <2> HIDE DEF Idle
    <2> QED BY <1>1, CallSet DEF Answer
<1>3. pending' \subseteq Catalog
    BY DEF CallPart
<1>4. OneCallPending
    BY DEF CallPart
<1>5. \A l \in Catalog :
        l \in pending' <=> \E d \in Calls : call'[d].pc = "resolving" /\ call'[d].layer = l
    <2> SUFFICES ASSUME NEW l \in Catalog
                 PROVE  l \in pending' <=>
                            \E d \in Calls : call'[d].pc = "resolving" /\ call'[d].layer = l
        OBVIOUS
    <2>1. l \in pending' => \E d \in Calls : call'[d].pc = "resolving" /\ call'[d].layer = l
        <3> SUFFICES ASSUME l \in pending'
                     PROVE  \E d \in Calls : call'[d].pc = "resolving" /\ call'[d].layer = l
            OBVIOUS
        <3>1. PICK d \in Calls : call[d].pc = "resolving" /\ call[d].layer = l
            BY <1>4 DEF OneCallPending
        <3>2. d # c
            BY <3>1
        <3> QED BY <3>1, <3>2, <1>2
    <2>2. ASSUME NEW d \in Calls, call'[d].pc = "resolving" /\ call'[d].layer = l
          PROVE  l \in pending'
        <3>1. d # c
            BY <2>2, <1>1, <1>2
        <3>2. call[d].pc = "resolving" /\ call[d].layer = l
            BY <2>2, <3>1, <1>2
        <3>3. l \in pending
            BY <3>2, <1>4 DEF OneCallPending
        <3>4. ~(call[c].pc = "resolving" /\ call[c].layer = l)
            BY <3>1, <3>2, <1>4 DEF OneCallPending
        <3> QED BY <3>3, <3>4
    <2> QED BY <2>1, <2>2
<1>6. OneCallPending'
    <2>1. \A d \in Calls : call'[d].pc # "idle" => d # c
        BY <1>1, <1>2
    <2>2. \A d, e \in Calls :
            (call'[d].pc = "resolving" /\ call'[e].pc = "resolving"
                /\ call'[d].layer = call'[e].layer) => d = e
        BY <2>1, <1>2, <1>4 DEF OneCallPending
    <2>3. \A d \in Calls : call'[d].pc \in {"preparing", "resolving"} => call'[d].layer \in Catalog
        BY <2>1, <1>2, <1>4 DEF OneCallPending
    <2> QED BY <1>5, <2>2, <2>3 DEF OneCallPending
<1> QED BY <1>2, <1>3, <1>6 DEF CallPart

LEMMA PickLayerStep ==
    ASSUME WorkspaceInv, NEW c \in Calls, NEW l \in Catalog, PickLayer(c, l)
    PROVE  WorkspaceInv'
<1>1. /\ Operate /\ call[c] = Idle /\ l \notin pending
      /\ UNCHANGED <<rendered, mapVars, failures>> /\ l \in Layers
    BY DEF PickLayer, Refused, Layers
<1>2. CallPart /\ ListPart /\ RestPart'
    BY <1>1, RestBounds DEF WorkspaceInv
<1>3. CASE l \in prepared
    <2>1. prepared' = prepared \ {l} /\ Added(c, l) /\ UNCHANGED pending
        BY <1>3 DEF PickLayer
    <2>2. /\ ListPart' /\ (~dirty' => ~dirty)
          /\ \E result \in {"ok", "failed"} : Answer(c, result)
        BY <2>1, <1>1, <1>2, AddedStep
    <2>3. prepared' \subseteq Catalog
        BY <2>1, <1>2 DEF CallPart
    <2>4. call[c].pc # "resolving"
        BY <1>1 DEF Idle
    <2>5. CallPart'
        BY <2>1, <2>2, <2>3, <2>4, <1>2, AnswerStep
    <2>6. MapPart'
        BY <2>2, <1>1, MapStays DEF WorkspaceInv
    <2> QED BY <2>2, <2>5, <2>6, <1>2 DEF WorkspaceInv
<1>4. CASE l \notin prepared
    <2>1. PICK s : s = [pc |-> "resolving", layer |-> l, hide |-> FALSE]
        OBVIOUS
    <2>2. /\ pending' = pending \cup {l}
          /\ call' = [call EXCEPT ![c] = s]
          /\ outcome' = [outcome EXCEPT ![c] = "none"]
          /\ UNCHANGED <<layers, dirty, prepared>>
        BY <2>1, <1>4 DEF PickLayer
    <2>3. /\ s \in [pc : {"idle", "preparing", "resolving"},
                    layer : Catalog \cup {None}, hide : BOOLEAN]
          /\ s.pc = "resolving" /\ s.layer = l
        BY <2>1
    <2>4. /\ call' \in [Calls -> [pc : {"idle", "preparing", "resolving"},
                                  layer : Catalog \cup {None}, hide : BOOLEAN]]
          /\ outcome' \in [Calls -> {"none", "ok", "failed"}]
          /\ call'[c] = s
          /\ \A d \in Calls : d # c => call'[d] = call[d]
        BY <2>2, <2>3, <1>2, CallSet
    <2>5. OneCallPending /\ pending \subseteq Catalog /\ prepared \subseteq Catalog
        BY <1>2 DEF CallPart
    <2>6. \A d \in Calls : ~(call[d].pc = "resolving" /\ call[d].layer = l)
        BY <2>5, <1>1 DEF OneCallPending
    <2>7. \A k \in Catalog :
            k \in pending' <=> \E d \in Calls : call'[d].pc = "resolving" /\ call'[d].layer = k
        <3> SUFFICES ASSUME NEW k \in Catalog
                     PROVE  k \in pending' <=>
                                \E d \in Calls : call'[d].pc = "resolving" /\ call'[d].layer = k
            OBVIOUS
        <3>1. CASE k = l
            BY <3>1, <2>2, <2>3, <2>4
        <3>2. CASE k # l
            <4>1. k \in pending' <=> k \in pending
                BY <3>2, <2>2
            <4>2. \A d \in Calls : (call'[d].pc = "resolving" /\ call'[d].layer = k)
                                    <=> (call[d].pc = "resolving" /\ call[d].layer = k)
                <5>1. call[c].pc = "idle"
                    BY <1>1 DEF Idle
                <5> QED BY <5>1, <3>2, <2>3, <2>4
            <4> QED BY <4>1, <4>2, <2>5 DEF OneCallPending
        <3> QED BY <3>1, <3>2
    <2>8. \A d, e \in Calls :
            (call'[d].pc = "resolving" /\ call'[e].pc = "resolving"
                /\ call'[d].layer = call'[e].layer) => d = e
        BY <2>3, <2>4, <2>5, <2>6 DEF OneCallPending
    <2>9. \A d \in Calls : call'[d].pc \in {"preparing", "resolving"} => call'[d].layer \in Catalog
        BY <2>3, <2>4, <2>5 DEF OneCallPending
    <2>10. CallPart'
        BY <2>2, <2>4, <2>5, <2>7, <2>8, <2>9 DEF CallPart, OneCallPending
    <2>11. ListPart' /\ MapPart'
        BY <2>2, <1>1, ListStays, MapStays DEF WorkspaceInv, listVars
    <2> QED BY <2>10, <2>11, <1>2 DEF WorkspaceInv
<1> QED BY <1>3, <1>4

LEMMA CallToolStep ==
    ASSUME WorkspaceInv, NEW c \in Calls, NEW l \in Catalog, NEW hide \in BOOLEAN,
           CallTool(c, l, hide)
    PROVE  WorkspaceInv'
<1>1. PICK s : s = [pc |-> "preparing", layer |-> l, hide |-> hide]
    OBVIOUS
<1>2. /\ Operate /\ call[c] = Idle
      /\ call' = [call EXCEPT ![c] = s] /\ outcome' = [outcome EXCEPT ![c] = "none"]
      /\ UNCHANGED <<listVars, pending, prepared, mapVars, failures>>
    BY <1>1 DEF CallTool
<1>3. /\ s \in [pc : {"idle", "preparing", "resolving"},
                layer : Catalog \cup {None}, hide : BOOLEAN]
      /\ s.pc = "preparing" /\ s.layer = l
    BY <1>1
<1>4. /\ call' \in [Calls -> [pc : {"idle", "preparing", "resolving"},
                              layer : Catalog \cup {None}, hide : BOOLEAN]]
      /\ outcome' \in [Calls -> {"none", "ok", "failed"}]
      /\ call'[c] = s
      /\ \A d \in Calls : d # c => call'[d] = call[d]
    BY <1>2, <1>3, CallSet DEF WorkspaceInv
<1>5. call[c].pc = "idle" /\ OneCallPending
    BY <1>2 DEF Idle, WorkspaceInv, CallPart
<1>6. \A d \in Calls : /\ call'[d].pc = "resolving" <=> call[d].pc = "resolving"
                       /\ call'[d].pc = "resolving" => call'[d].layer = call[d].layer
                       /\ call'[d].pc = "preparing" => call'[d].layer \in Catalog
    BY <1>3, <1>4, <1>5 DEF OneCallPending
<1>7. OneCallPending'
    BY <1>2, <1>5, <1>6 DEF OneCallPending
<1>8. CallPart'
    BY <1>2, <1>4, <1>7 DEF WorkspaceInv, CallPart
<1>9. ListPart' /\ MapPart' /\ RestPart'
    BY <1>2, ListStays, MapStays, RestBounds DEF WorkspaceInv, listVars
<1> QED BY <1>8, <1>9 DEF WorkspaceInv

LEMMA ResolvedStep ==
    ASSUME WorkspaceInv, NEW c \in Calls, NEW found \in BOOLEAN, Resolved(c, found)
    PROVE  WorkspaceInv'
<1>1. /\ call[c].pc = "resolving" /\ pending' = pending \ {call[c].layer}
      /\ UNCHANGED <<rendered, prepared, mapVars, failures, bounds>>
    BY DEF Resolved
<1>2. CallPart /\ ListPart /\ call[c].layer \in Layers
    BY <1>1 DEF WorkspaceInv, CallPart, OneCallPending, Layers
<1>3. /\ ListPart' /\ (~dirty' => ~dirty)
      /\ \E result \in {"ok", "failed"} : Answer(c, result)
    <2>1. CASE found
        BY <2>1, <1>1, <1>2, AddedStep DEF Resolved
    <2>2. CASE ~found
        BY <2>2, <1>1, <1>2, ListStays DEF Resolved, listVars
    <2> QED BY <2>1, <2>2
<1>4. prepared' \subseteq Catalog
    BY <1>1, <1>2 DEF CallPart
<1>5. CallPart'
    BY <1>1, <1>2, <1>3, <1>4, AnswerStep
<1>6. MapPart' /\ RestPart'
    BY <1>1, <1>3, MapStays, RestStays DEF WorkspaceInv
<1> QED BY <1>3, <1>5, <1>6 DEF WorkspaceInv

LEMMA PreparedStep ==
    ASSUME WorkspaceInv, NEW c \in Calls, NEW found \in BOOLEAN, Prepared(c, found)
    PROVE  WorkspaceInv'
<1>1. PICK l : l = call[c].layer
    OBVIOUS
<1>2. /\ call[c].pc = "preparing"
      /\ UNCHANGED <<rendered, pending, mapVars, failures, bounds>>
    BY DEF Prepared
<1>3. CallPart /\ ListPart /\ l \in Catalog /\ l \in Layers
    BY <1>1, <1>2 DEF WorkspaceInv, CallPart, OneCallPending, Layers
<1>4. /\ \/ UNCHANGED <<layers, dirty>>
         \/ AppendLayer(l)
      /\ prepared' \subseteq prepared \cup {l}
      /\ \E result \in {"ok", "failed"} : Answer(c, result)
    BY <1>1 DEF Prepared
<1>5. ListPart' /\ (~dirty' => ~dirty)
    <2>1. CASE UNCHANGED <<layers, dirty>>
        BY <2>1, <1>2, <1>3, ListStays DEF listVars
    <2>2. CASE AppendLayer(l)
        BY <2>2, <1>2, <1>3, AppendStep
    <2> QED BY <2>1, <2>2, <1>4
<1>6. prepared' \subseteq Catalog
    BY <1>3, <1>4 DEF CallPart
<1>7. CallPart'
    BY <1>2, <1>3, <1>4, <1>6, AnswerStep
<1>8. MapPart' /\ RestPart'
    BY <1>2, <1>5, MapStays, RestStays DEF WorkspaceInv
<1> QED BY <1>5, <1>7, <1>8 DEF WorkspaceInv

-----------------------------------------------------------------------------
(* The invariant.                                                          *)

LEMMA WorkspaceStart ==
    ASSUME Init
    PROVE  WorkspaceInv
<1>1. ListPart
    BY RouteGood DEF Init, ListPart
<1>2. CallPart
    <2>1. Idle \in [pc : {"idle", "preparing", "resolving"},
                    layer : Catalog \cup {None}, hide : BOOLEAN]
          /\ Idle.pc = "idle"
        BY DEF Idle
    <2>2. call = [c \in Calls |-> Idle] /\ outcome = [c \in Calls |-> "none"]
          /\ pending = {} /\ prepared = {}
        BY DEF Init
    <2> HIDE DEF Idle
    <2>3. \A c \in Calls : call[c].pc = "idle"
        BY <2>1, <2>2
    <2>4. OneCallPending
        BY <2>2, <2>3 DEF OneCallPending
    <2> QED BY <2>1, <2>2, <2>4 DEF CallPart
<1>3. RestPart
    BY BoundAssumption DEF Init, RestPart
<1>4. MapPart
    <2>1. Len(rendered) \in Nat
        BY <1>1 DEF ListPart, GoodList
    <2>2. /\ styleReady = FALSE /\ sync = "queued" /\ reading = 0
          /\ onMap = {} /\ managed = {} /\ described = {} /\ interactive = {}
        BY DEF Init
    <2>3. MapType
        <3>1. reading \in 0..Len(rendered)
            BY <2>1, <2>2
        <3>2. /\ onMap \subseteq Layers /\ managed \subseteq Layers
              /\ described \subseteq Layers /\ interactive \subseteq Layers
            BY <2>2
        <3>3. styleReady \in BOOLEAN /\ sync \in {"none", "queued", "reading"}
            BY <2>2
        <3> QED BY <3>1, <3>2, <3>3 DEF MapType
    <2> QED BY <2>2, <2>3 DEF MapPart, RunSoFar, Settled
<1> QED BY <1>1, <1>2, <1>3, <1>4 DEF WorkspaceInv

LEMMA WorkspaceStep ==
    ASSUME WorkspaceInv, [Next]_vars
    PROVE  WorkspaceInv'
<1>1. CASE Render \/ StyleLoads
    BY <1>1, RenderStep, StyleLoadsStep
<1>2. ASSUME NEW l \in Catalog, ReadArchive(l) \/ FailToRead(l)
      PROVE  WorkspaceInv'
    BY <1>2, ReadArchiveStep, FailToReadStep
<1>3. ASSUME NEW l \in Layers,
             TileLoads(l) \/ \E k \in {"tile", "unidentified"} : TileFails(l, k)
      PROVE  WorkspaceInv'
    BY <1>3, TileStep
<1>4. ASSUME NEW c \in Calls, NEW found \in BOOLEAN, Resolved(c, found) \/ Prepared(c, found)
      PROVE  WorkspaceInv'
    BY <1>4, ResolvedStep, PreparedStep
<1>5. ASSUME NEW c \in Calls, NEW l \in Catalog,
             PickLayer(c, l) \/ \E hide \in BOOLEAN : CallTool(c, l, hide)
      PROVE  WorkspaceInv'
    BY <1>5, PickLayerStep, CallToolStep
<1>6. CASE Commands
    BY <1>5, <1>6, CommandStep DEF Commands
<1>7. CASE UNCHANGED vars
    <2>1. UNCHANGED <<listVars, callVars, mapVars, failures, bounds>>
        BY <1>7 DEF vars
    <2>2. UNCHANGED <<rendered, dirty>>
        BY <2>1 DEF listVars
    <2> QED BY <2>1, <2>2, ListStays, CallStays, MapStays, RestStays DEF WorkspaceInv
<1> QED BY <1>1, <1>2, <1>3, <1>4, <1>6, <1>7 DEF Next

LEMMA WorkspaceInvariant == Spec => []WorkspaceInv
<1>1. Init => WorkspaceInv
    BY WorkspaceStart
<1>2. WorkspaceInv /\ [Next]_vars => WorkspaceInv'
    BY WorkspaceStep
<1> QED BY <1>1, <1>2, PTL DEF Spec

-----------------------------------------------------------------------------
(* The theorems.                                                           *)

\* The page keeps its types through every order of renders, commands, reads and
\* failures; the position of the source task is always one of the list.
THEOREM TypeCorrect == Spec => []TypeOK
<1>1. WorkspaceInv => TypeOK
    BY DEF WorkspaceInv, ListPart, GoodList, CallPart, RestPart, MapPart, MapType, TypeOK
<1> QED BY <1>1, WorkspaceInvariant, PTL

\* No layer is twice in the list that the page keeps or shows, although commands
\* decide on the list of the last render and their updates are queued.
THEOREM ListHasUniqueIds == Spec => []UniqueIds
<1>1. WorkspaceInv => UniqueIds
    BY DEF WorkspaceInv, ListPart, GoodList, UniqueIds
<1> QED BY <1>1, WorkspaceInvariant, PTL

\* A layer is pending exactly while one call waits for its description.
THEOREM PendingIsExact == Spec => []PendingExact
<1>1. WorkspaceInv => PendingExact
    <2> SUFFICES ASSUME WorkspaceInv, NEW l \in Catalog
                 PROVE  LET waiting == {c \in Calls : call[c].pc = "resolving"
                                                      /\ call[c].layer = l}
                        IN Cardinality(waiting) = IF l \in pending THEN 1 ELSE 0
        BY DEF PendingExact
    <2>1. PICK waiting : waiting = {c \in Calls : call[c].pc = "resolving" /\ call[c].layer = l}
        OBVIOUS
    <2>2. OneCallPending
        BY DEF WorkspaceInv, CallPart
    <2>3. CASE l \in pending
        <3>1. PICK c \in Calls : call[c].pc = "resolving" /\ call[c].layer = l
            BY <2>2, <2>3 DEF OneCallPending
        <3>2. waiting = {c}
            BY <3>1, <2>1, <2>2 DEF OneCallPending
        <3>3. Cardinality({c}) = 1
            BY FS_Singleton
        <3> QED BY <3>2, <3>3, <2>1, <2>3
    <2>4. CASE l \notin pending
        <3>1. \A c \in Calls : ~(call[c].pc = "resolving" /\ call[c].layer = l)
            BY <2>2, <2>4 DEF OneCallPending
        <3>2. waiting = {}
            BY <3>1, <2>1
        <3>3. Cardinality({}) = 0
            BY FS_EmptySet
        <3> QED BY <3>2, <3>3, <2>1, <2>4
    <2> QED BY <2>3, <2>4
<1> QED BY <1>1, WorkspaceInvariant, PTL

\* Whatever renders cancelled the source task and however far it had come, once
\* the page is at rest the map has the sources of the list and no other.
THEOREM MapFollowsList == Spec => []MapMatchesList
<1>1. WorkspaceInv => MapMatchesList
    BY DEF WorkspaceInv, MapPart, MapIsList, MapMatchesList
<1> QED BY <1>1, WorkspaceInvariant, PTL

\* A page that is not at rest waits for one of the things that must happen:
\* the style, a render, or the end of the read of an archive of the catalog, which
\* ends well or, for a broken archive, with a failure.
WorkIsDue ==
    \/ Settled \/ ~styleReady \/ dirty
    \/ \E l \in Catalog : Reading(l)

\* The source task is never lost: no order of renders, cancelled runs, failures and
\* style events leaves a page whose map is behind its list with nothing to wait for.
\* What Settles adds, that the wait ends, is checked.
THEOREM PageIsNeverStuck == Spec => []WorkIsDue
<1>1. WorkspaceInv => WorkIsDue
    BY DEF WorkspaceInv, ListPart, MapPart, MapType, RunSoFar, WorkIsDue, Settled, Reading
<1> QED BY <1>1, WorkspaceInvariant, PTL

-----------------------------------------------------------------------------
(* What the answers of adding calls say of the list.                       *)

\* A call that waited is answered "ok" with its layer in the list, and as failed with
\* the list unchanged, unless it asked to hide the layer.
AnswersTellList ==
    \A c \in Calls :
        (call[c].pc # "idle" /\ call'[c].pc = "idle") =>
            \/ outcome'[c] = "ok" /\ call[c].layer \in Ids(layers')
            \/ outcome'[c] = "failed" /\ layers' = layers
            \/ outcome'[c] = "failed" /\ call[c].hide /\ call[c].layer \in Ids(layers')

LEMMA AppendLists ==
    ASSUME ListPart, NEW l \in Catalog, AppendLayer(l)
    PROVE  l \in Ids(layers')
<1>1. CASE l \in Ids(layers)
    BY <1>1 DEF AppendLayer
<1>2. CASE l \notin Ids(layers)
    <2>1. layers' = Append(layers, Entry(l)) /\ layers \in Seq(Entries) /\ Entry(l) \in Entries
        BY <1>2, EntryType DEF AppendLayer, SetLayers, ListPart, GoodList, Layers
    <2>2. Len(layers) \in Nat /\ Len(layers') = Len(layers) + 1 /\ layers'[Len(layers) + 1] = Entry(l)
        BY <2>1
    <2>3. Len(layers) + 1 \in DOMAIN layers' /\ layers'[Len(layers) + 1].id = l
        BY <2>1, <2>2 DEF Entry
    <2> QED BY <2>3 DEF Ids
<1> QED BY <1>1, <1>2

LEMMA AnswerOnly ==
    ASSUME CallPart, NEW c \in Calls, NEW result, Answer(c, result)
    PROVE  /\ outcome'[c] = result
           /\ \A d \in Calls \ {c} : call'[d] = call[d]
BY DEF CallPart, Answer

LEMMA AnswersStep == WorkspaceInv /\ [Next]_vars => [AnswersTellList]_vars
<1> SUFFICES ASSUME ListPart, CallPart, Next PROVE AnswersTellList
    BY DEF WorkspaceInv
<1>1. ASSUME UNCHANGED call PROVE AnswersTellList
    BY <1>1 DEF AnswersTellList
<1>2. ASSUME NEW c \in Calls, call[c] = Idle, \A d \in Calls \ {c} : call'[d] = call[d]
      PROVE  AnswersTellList
    BY <1>2 DEF AnswersTellList, Idle
<1>3. ASSUME NEW c \in Calls, NEW l \in Catalog, PickLayer(c, l) PROVE AnswersTellList
    <2>1. \/ \E result : Answer(c, result)
          \/ \E new : call' = [call EXCEPT ![c] = new]
        BY <1>3 DEF PickLayer, Added
    <2>2. \A d \in Calls \ {c} : call'[d] = call[d]
        BY <2>1, AnswerOnly DEF CallPart
    <2> QED BY <1>2, <1>3, <2>2 DEF PickLayer
<1>4. ASSUME NEW c \in Calls, NEW l \in Catalog, NEW hide \in BOOLEAN, CallTool(c, l, hide)
      PROVE  AnswersTellList
    <2>1. \A d \in Calls \ {c} : call'[d] = call[d]
        BY <1>4 DEF CallTool, CallPart
    <2> QED BY <1>2, <1>4, <2>1 DEF CallTool
<1>5. ASSUME NEW c \in Calls, NEW found \in BOOLEAN, Resolved(c, found) PROVE AnswersTellList
    <2>1. call[c].layer \in Catalog
        BY <1>5 DEF Resolved, CallPart, OneCallPending
    <2>2. \/ Answer(c, "failed") /\ layers' = layers
          \/ Answer(c, "ok") /\ AppendLayer(call[c].layer)
        BY <1>5 DEF Resolved, Added
    <2> QED BY <2>1, <2>2, AnswerOnly, AppendLists DEF AnswersTellList
<1>6. ASSUME NEW c \in Calls, NEW found \in BOOLEAN, Prepared(c, found) PROVE AnswersTellList
    <2>1. call[c].layer \in Catalog
        BY <1>6 DEF Prepared, CallPart, OneCallPending
    <2>2. \/ Answer(c, "failed") /\ layers' = layers
          \/ Answer(c, "ok") /\ AppendLayer(call[c].layer)
          \/ Answer(c, "failed") /\ AppendLayer(call[c].layer) /\ call[c].hide
        BY <1>6 DEF Prepared
    <2> QED BY <2>1, <2>2, AnswerOnly, AppendLists DEF AnswersTellList
<1>7. ASSUME \/ Render \/ StyleLoads
             \/ \E l \in Catalog : ReadArchive(l) \/ FailToRead(l)
             \/ \E l \in Layers : TileLoads(l) \/ \E k \in {"tile", "unidentified"} : TileFails(l, k)
             \/ \E l \in Layers : RemoveLayer(l) \/ \E v \in BOOLEAN : SetLayerVisibility(l, v)
             \/ \E order \in [DOMAIN rendered -> DOMAIN rendered] : ReorderLayers(order)
             \/ \E q \in Query : ShowQuery(q)
             \/ \E list \in RouteLists : Navigate(list)
      PROVE  UNCHANGED call
    BY <1>7 DEF Render, StyleLoads, ReadArchive, FailToRead, TileLoads, TileFails, RemoveLayer,
                SetLayerVisibility, ReorderLayers, ShowQuery, Navigate, callVars
<1> QED BY <1>1, <1>3, <1>4, <1>5, <1>6, <1>7 DEF Next, Commands

\* A call that waited is told the truth about its layer, whatever is queued or added
\* meanwhile, but for the one case of the finding about add_dataset_layer: a failure
\* with visible: false may have left the layer in the list.
THEOREM AnswersAreTrue == Spec => [][AnswersTellList]_vars
BY AnswersStep, WorkspaceInvariant, PTL DEF Spec
=============================================================================

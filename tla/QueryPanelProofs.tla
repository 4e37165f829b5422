------------------------- MODULE QueryPanelProofs -------------------------
(***************************************************************************)
(* Proofs about QueryPanel, for any queries, page sizes, layers, features  *)
(* and concurrent requests: the pages of a result, the "Load more" button  *)
(* and the panel.                                                          *)
(***************************************************************************)
EXTENDS QueryPanel, FiniteSetTheorems, SequenceTheorems, TLAPS

-----------------------------------------------------------------------------
(* Pages.                                                                  *)

\* A page that the service answers holds its own rows in place, however it is cut.
LEMMA FetchedPage ==
    ASSUME NEW q \in Queries, NEW offset \in Nat, NEW limit \in PageSizes,
           NEW page \in Pages(q, offset, limit)
    PROVE  page \in Page /\ InPlace(page)
<1>1. Total[q] \in Nat /\ limit \in Nat \ {0}
  BY PanelAssumption
<1>2. PICK length \in Lengths(q, offset, limit) :
         \E rows \in PageRows(q, offset, length) :
            page = [query |-> q, offset |-> offset, limit |-> limit, rows |-> rows,
                    next |-> NextOffset(q, offset, length)]
  BY DEF Pages
<1>3. PICK rows \in PageRows(q, offset, length) :
       page = [query |-> q, offset |-> offset, limit |-> limit, rows |-> rows,
               next |-> NextOffset(q, offset, length)]
  BY <1>2
<1>4. length \in Nat /\ (length > 0 \/ offset + length >= Total[q])
  BY <1>1 DEF Lengths, Least
<1>5. /\ rows \in [1..length -> {q} \X (1..Total[q])]
      /\ \A i \in 1..length : rows[i] \in RowsAt(q, offset + i)
  BY DEF PageRows
<1>6. rows \in Seq(Queries \X Nat) /\ Len(rows) = length
  <2>1. {q} \X (1..Total[q]) \subseteq Queries \X Nat
    BY <1>1
  <2>2. rows \in [1..length -> Queries \X Nat]
    BY <1>5, <2>1
  <2> QED
    BY <1>4, <2>2
<1>7. NextOffset(q, offset, length) \in Nat
  BY <1>4 DEF NextOffset
<1>8. page \in Page
  BY <1>3, <1>6, <1>7 DEF Page
<1>9. /\ page.query = q /\ page.offset = offset /\ page.rows = rows
      /\ page.next = NextOffset(q, offset, length)
  BY <1>3
<1>10. \A i \in DOMAIN page.rows : page.rows[i] \in RowsAt(page.query, page.offset + i)
  BY <1>5, <1>9
<1>11. /\ page.next # 0 => page.next = page.offset + Len(page.rows)
       /\ page.next = 0 <=> page.offset + Len(page.rows) >= Total[page.query]
  <2>1. page.offset + Len(page.rows) = offset + length /\ Total[page.query] = Total[q]
    BY <1>6, <1>9
  <2>2. page.next = IF offset + length < Total[q] THEN offset + length ELSE 0
    BY <1>9 DEF NextOffset
  <2> DEFINE end == offset + length
  <2>3. end \in Nat /\ (end = 0 => end >= Total[q])
    BY <1>1, <1>4
  <2> HIDE DEF end
  <2>4. page.next = (IF end < Total[q] THEN end ELSE 0) /\ page.offset + Len(page.rows) = end
    BY <2>1, <2>2 DEF end
  <2> QED
    BY <1>1, <2>1, <2>3, <2>4
<1> QED
  BY <1>8, <1>10, <1>11 DEF InPlace

\* A page added to rows in place leaves all of them in place.
LEMMA AppendedPage ==
    ASSUME NEW current \in Page, InPlace(current), NEW next \in Page, InPlace(next)
    PROVE  AppendPage(current, next) \in Page /\ InPlace(AppendPage(current, next))
<1>1. CASE current.query # next.query \/ next.offset # current.offset + Len(current.rows)
  BY <1>1 DEF AppendPage
<1>2. CASE ~(current.query # next.query \/ next.offset # current.offset + Len(current.rows))
  <2> DEFINE rows == current.rows \o next.rows
             page == [next EXCEPT !.offset = current.offset, !.rows = rows]
  <2>1. /\ current.rows \in Seq(Queries \X Nat) /\ next.rows \in Seq(Queries \X Nat)
        /\ current.offset \in Nat /\ next.offset \in Nat /\ next.next \in Nat
        /\ Total[next.query] \in Nat
    BY PanelAssumption DEF Page
  <2>2. rows \in Seq(Queries \X Nat) /\ Len(rows) = Len(current.rows) + Len(next.rows)
    BY <2>1
  <2>3. page \in Page
    BY <2>2 DEF Page
  <2>4. /\ page.query = next.query /\ page.offset = current.offset /\ page.rows = rows
        /\ page.next = next.next
    BY DEF Page
  <2> DEFINE m == Len(current.rows)
             n == Len(next.rows)
  <2>5. \A i \in DOMAIN rows : rows[i] \in RowsAt(next.query, current.offset + i)
    <3>1. /\ m \in Nat /\ n \in Nat /\ DOMAIN rows = 1..(m + n)
          /\ DOMAIN current.rows = 1..m /\ DOMAIN next.rows = 1..n
      BY <2>1, ConcatProperties, LenProperties
    <3>2. \A i \in 1..(m + n) : rows[i] = IF i <= m THEN current.rows[i] ELSE next.rows[i - m]
      BY <2>1, ConcatProperties
    <3>3. /\ \A i \in 1..m : current.rows[i] \in RowsAt(next.query, current.offset + i)
          /\ \A i \in 1..n : next.rows[i] \in RowsAt(next.query, current.offset + m + i)
      BY <1>2, <3>1 DEF InPlace
    <3> HIDE DEF rows, m, n
    <3>4. \A i \in 1..(m + n) :
             /\ i <= m => i \in 1..m
             /\ ~(i <= m) => i - m \in 1..n /\ current.offset + m + (i - m) = current.offset + i
      BY <2>1, <3>1
    <3>5. ASSUME NEW i \in 1..(m + n)
          PROVE  rows[i] \in RowsAt(next.query, current.offset + i)
      <4>1. CASE i <= m
        BY <3>2, <3>3, <3>4, <4>1
      <4>2. CASE ~(i <= m)
        <5>1. PICK k \in 1..n : k = i - m
          BY <3>4, <4>2
        <5>2. rows[i] = next.rows[k] /\ current.offset + m + k = current.offset + i
          BY <3>2, <3>4, <4>2, <5>1
        <5> QED
          BY <3>3, <5>2
      <4> QED
        BY <4>1, <4>2
    <3> QED
      BY <3>1, <3>5
  <2>6. page.offset + Len(page.rows) = next.offset + Len(next.rows)
    <3>1. page.offset = current.offset /\ Len(page.rows) = Len(current.rows) + Len(next.rows)
      BY <2>2, <2>4
    <3>2. next.offset = current.offset + Len(current.rows)
      BY <1>2
    <3>3. Len(current.rows) \in Nat /\ Len(next.rows) \in Nat
      BY <2>1
    <3> DEFINE a == Len(current.rows)
               b == Len(next.rows)
    <3>4. current.offset + (a + b) = (current.offset + a) + b
      <4>1. a \in Nat /\ b \in Nat
        BY <3>3
      <4> HIDE DEF a, b
      <4> QED
        BY <2>1, <4>1
    <3> HIDE DEF page
    <3> QED
      BY <3>1, <3>2, <3>4
  <2>7. AppendPage(current, next) = page
    BY <1>2 DEF AppendPage
  <2> HIDE DEF page, rows
  <2>8. InPlace(page)
    BY <2>4, <2>5, <2>6 DEF InPlace
  <2> QED
    BY <2>3, <2>7, <2>8
<1> QED
  BY <1>1, <1>2

-----------------------------------------------------------------------------
(* The inductive invariant.                                                *)

\* The button stays disabled from the click until its request has ended.
ButtonHolds ==
    /\ loading => shown.loading \/ urgent
    /\ LoadingExact

\* What was shown of queries is still there: a result is only replaced by another,
\* and the layers of queries come with a result.
ResultHolds ==
    /\ shown.result # None => result # None
    /\ (layers \cup shown.layers) \cap Queries # {} => result # None
    /\ RowsInPlace

Capped(features) ==
    \A l \in Layers : Cardinality({f \in features : LayerOf[f] = l}) <= MaxSelected

\* The selection is of the layers last shown, but for what was shown selected
\* when the effects have not run yet.
SelectionHolds ==
    /\ Capped(selected) /\ Capped(shown.selected)
    /\ \A f \in selected : (effects /\ f \in shown.selected) \/ LayerOf[f] \in shown.layers

OpenHolds == panel.open => result # None \/ selected # {}

IInv == TypeOK /\ ButtonHolds /\ ResultHolds /\ SelectionHolds /\ OpenHolds

LEMMA CappedSubset ==
    ASSUME NEW large \in SUBSET Features, Capped(large), NEW small \in SUBSET large
    PROVE  Capped(small)
<1> SUFFICES ASSUME NEW l \in Layers
             PROVE  Cardinality({f \in small : LayerOf[f] = l}) <= MaxSelected
  BY DEF Capped
<1> DEFINE S == {f \in small : LayerOf[f] = l}
           L == {f \in large : LayerOf[f] = l}
<1>1. IsFiniteSet(L)
  BY PanelAssumption, FS_Subset
<1>2. IsFiniteSet(S) /\ Cardinality(S) <= Cardinality(L)
  BY <1>1, FS_Subset
<1>3. Cardinality(S) \in Nat /\ Cardinality(L) \in Nat
  BY <1>1, <1>2, FS_CardinalityType
<1>4. Cardinality(L) <= MaxSelected
  BY DEF Capped
<1> HIDE DEF S, L
<1>5. Cardinality(S) <= MaxSelected
  BY <1>2, <1>3, <1>4, PanelAssumption
<1> QED
  BY <1>5 DEF S

LEMMA CappedEmpty == Capped({})
<1>1. \A l \in Layers : {f \in {} : LayerOf[f] = l} = {}
  OBVIOUS
<1> QED
  BY <1>1, FS_EmptySet, PanelAssumption DEF Capped

LEMMA WithinCapped ==
    ASSUME NEW hits \in SUBSET Features, NEW rows, Within(hits, rows)
    PROVE  /\ Capped(rows)
           /\ hits # {} => rows # {}
<1>1. ASSUME NEW l \in Layers
      PROVE  /\ Cardinality({f \in rows : LayerOf[f] = l}) <= MaxSelected
             /\ {f \in hits : LayerOf[f] = l} # {} => {f \in rows : LayerOf[f] = l} # {}
  <2> DEFINE of == {f \in hits : LayerOf[f] = l}
  <2>1. IsFiniteSet(of) /\ Cardinality(of) \in Nat
    BY PanelAssumption, FS_Subset, FS_CardinalityType
  <2>2. {f \in rows : LayerOf[f] = l} = rows \cap of
    BY DEF Within
  <2>3. Cardinality(rows \cap of) = Least(Cardinality(of), MaxSelected)
    BY DEF Within
  <2>4. of # {} => Cardinality(of) # 0
    BY <2>1, FS_EmptySet
  <2>5. rows \cap of = {} => Cardinality(rows \cap of) = 0
    BY FS_EmptySet
  <2> HIDE DEF of
  <2>6. /\ Cardinality(rows \cap of) <= MaxSelected
        /\ of # {} => Cardinality(rows \cap of) # 0
    BY <2>1, <2>3, <2>4, PanelAssumption DEF Least
  <2> QED
    BY <2>2, <2>5, <2>6 DEF of
<1>2. ASSUME NEW f \in hits PROVE rows # {}
  BY <1>1, PanelAssumption
<1> QED
  BY <1>1, <1>2 DEF Capped

LEMMA InitIInv == Init => IInv
<1> SUFFICES ASSUME Init PROVE IInv
  OBVIOUS
<1>1. TypeOK
  <2>1. panel \in Panel /\ result \in Result \cup {None} /\ layers \in SUBSET Layers
    BY DEF Init, Panel, Layers
  <2>2. shown \in [result : Result \cup {None}, selected : SUBSET Features,
                   layers : SUBSET Layers, loading : BOOLEAN, panel : Panel]
    BY <2>1 DEF Init, Current
  <2>3. call \in [Calls -> Call]
    BY DEF Init, Call
  <2>4. operations \in 0..MaxOperations
    BY PanelAssumption DEF Init
  <2> QED
    BY <2>1, <2>2, <2>3, <2>4 DEF Init, TypeOK
<1>2. ButtonHolds
  BY DEF Init, ButtonHolds, LoadingExact, Idle
<1>3. ResultHolds
  BY PanelAssumption DEF Init, ResultHolds, RowsInPlace, Current
<1>4. SelectionHolds
  BY CappedEmpty DEF Init, SelectionHolds, Current
<1>5. OpenHolds
  BY DEF Init, OpenHolds
<1> QED
  BY <1>1, <1>2, <1>3, <1>4, <1>5 DEF IInv

-----------------------------------------------------------------------------
(* What keeps each part.                                                   *)

LEMMA OperateType ==
    ASSUME operations \in 0..MaxOperations, Operate PROVE operations' \in 0..MaxOperations
BY PanelAssumption DEF Operate

LEMMA PanelType ==
    ASSUME NEW has, panel \in Panel,
           ShowQuery \/ ShowSelected \/ Collapse \/ ToggleQueryResults \/ FeaturesCleared(has)
    PROVE  panel' \in Panel
<1>1. ASSUME NEW open \in BOOLEAN, NEW mode \in {"query", "selected"}
      PROVE  [open |-> open, mode |-> mode] \in Panel
  BY DEF Panel
<1>2. [panel EXCEPT !.open = FALSE] \in Panel
  BY DEF Panel
<1> QED
  BY <1>1, <1>2 DEF ShowQuery, ShowSelected, Collapse, ToggleQueryResults, FeaturesCleared

LEMMA CallParts ==
    ASSUME TypeOK, NEW c \in Calls
    PROVE  /\ call[c].pc = "creating" => call[c].limit \in PageSizes /\ call[c].button = FALSE
           /\ call[c].pc = "paging" =>
                  call[c].query \in Queries /\ call[c].offset \in Nat /\ call[c].limit \in PageSizes
<1>1. call[c] \in Call /\ Idle.pc = "idle"
  BY DEF TypeOK, Idle
<1>2. CASE call[c] = Idle
  BY <1>1, <1>2
<1>3. CASE call[c] # Idle
  BY <1>1, <1>3 DEF Call
<1> QED
  BY <1>2, <1>3

LEMMA ButtonFrame ==
    ASSUME ButtonHolds, UNCHANGED <<loading, shown>>, urgent => urgent',
           \A c \in Calls : call'[c].button = call[c].button
    PROVE  ButtonHolds'
BY DEF ButtonHolds, LoadingExact

LEMMA ResultFrame ==
    ASSUME ResultHolds, UNCHANGED shown, layers' \subseteq layers,
           result # None => result' # None, RowsInPlace'
    PROVE  ResultHolds'
BY DEF ResultHolds

LEMMA SelectionFrame ==
    ASSUME SelectionHolds, UNCHANGED <<selected, shown, effects>> PROVE SelectionHolds'
BY DEF SelectionHolds, Capped

\* An answer leaves selection and panel alone.
LEMMA AnswerStep ==
    ASSUME IInv, UNCHANGED <<panel, selected, shown, effects, urgent>>,
           TypeOK', ButtonHolds', layers' \subseteq layers,
           result # None => result' # None, RowsInPlace'
    PROVE  IInv'
<1>1. ResultHolds'
  BY ResultFrame DEF IInv
<1>2. SelectionHolds'
  BY SelectionFrame DEF IInv
<1>3. OpenHolds'
  BY DEF IInv, OpenHolds
<1> QED
  BY <1>1, <1>2, <1>3 DEF IInv

-----------------------------------------------------------------------------
(* Rendering.                                                              *)

LEMMA RenderStep == ASSUME IInv, Render PROVE IInv'
<1> USE DEF IInv, Render, pageVars
<1>1. TypeOK'
  BY DEF TypeOK, Current
<1>2. ButtonHolds'
  BY DEF ButtonHolds, LoadingExact, Current
<1>3. ResultHolds'
  BY DEF ResultHolds, RowsInPlace, Current
<1>4. SelectionHolds'
  BY DEF SelectionHolds, Current, Capped
<1>5. OpenHolds'
  BY DEF OpenHolds
<1> QED
  BY <1>1, <1>2, <1>3, <1>4, <1>5

LEMMA EffectsStep == ASSUME IInv, RunEffects PROVE IInv'
<1> USE DEF IInv, RunEffects
<1>1. /\ Retained \subseteq shown.selected /\ shown.selected \subseteq Features
      /\ selected' \in SUBSET Features
  BY DEF Retained, TypeOK
<1>2. TypeOK'
  BY <1>1, PanelType DEF TypeOK
<1>3. ButtonHolds'
  BY ButtonFrame
<1>4. ResultHolds'
  BY ResultFrame DEF ResultHolds, RowsInPlace
<1>5. SelectionHolds'
  <2>1. Capped(Retained)
    BY <1>1, CappedSubset DEF SelectionHolds
  <2>2. \A f \in Retained : LayerOf[f] \in shown.layers
    BY DEF Retained
  <2>3. Retained = shown.selected => \A f \in selected : LayerOf[f] \in shown.layers
    BY <2>2 DEF SelectionHolds
  <2>4. Capped(selected') /\ \A f \in selected' : LayerOf[f] \in shown.layers
    BY <2>1, <2>2, <2>3 DEF SelectionHolds
  <2> QED
    BY <2>4 DEF SelectionHolds, Capped
<1>6. OpenHolds'
  <2>1. CASE shown.selected # {} /\ Retained = {}
    BY <2>1 DEF FeaturesCleared, OpenHolds, ResultHolds, ShowQuery
  <2>2. CASE shown.selected = {}
    BY <2>2 DEF OpenHolds, Retained
  <2>3. CASE shown.selected # {} /\ Retained # {}
    BY <2>3 DEF OpenHolds
  <2> QED
    BY <2>1, <2>2, <2>3
<1> QED
  BY <1>2, <1>3, <1>4, <1>5, <1>6

-----------------------------------------------------------------------------
(* Queries and pages.                                                      *)

LEMMA RunQueryStep ==
    ASSUME IInv, NEW c \in Calls, NEW limit \in PageSizes, RunQuery(c, limit)
    PROVE  IInv'
<1> USE DEF IInv, RunQuery, pageVars, renderVars
<1>1. [Idle EXCEPT !.pc = "creating", !.limit = limit] \in Call
  BY DEF Idle, Call
<1>2. TypeOK'
  BY <1>1, OperateType DEF TypeOK
<1>3. ButtonHolds'
  BY ButtonFrame DEF TypeOK, Idle
<1> QED
  BY <1>2, <1>3, AnswerStep DEF ResultHolds, RowsInPlace

LEMMA RunPageStep ==
    ASSUME IInv, NEW c \in Calls, NEW q \in Queries, NEW offset \in 0..Total[q],
           NEW limit \in PageSizes, RunPage(c, q, offset, limit)
    PROVE  IInv'
<1> USE DEF IInv, RunPage, pageVars, renderVars
<1> DEFINE new == [pc |-> "paging", query |-> q, offset |-> offset, limit |-> limit,
                   button |-> FALSE]
<1>0. new \in Call /\ new.button = FALSE /\ call' = [call EXCEPT ![c] = new]
  BY PanelAssumption DEF Call
<1> HIDE DEF new
<1>1. \A d \in Calls : call'[d].button = call[d].button
  <2>1. call[c].button = FALSE
    BY DEF Idle
  <2>2. call' = [d \in Calls |-> IF d = c THEN new ELSE call[d]]
    BY <1>0 DEF TypeOK
  <2> QED
    BY <1>0, <2>1, <2>2
<1>2. TypeOK'
  BY <1>0, OperateType DEF TypeOK
<1>3. ButtonHolds'
  BY <1>1, ButtonFrame
<1> QED
  BY <1>2, <1>3, AnswerStep DEF ResultHolds, RowsInPlace

\* A query that was answered owns the result, is shown, and may be drawn.
LEMMA CreatedStep ==
    ASSUME IInv, NEW c \in Calls, NEW q \in Queries, NEW drawn \in BOOLEAN, Created(c, q, drawn)
    PROVE  IInv'
<1> USE DEF IInv, Created, renderVars
<1>0. PICK page \in Pages(q, 0, call[c].limit) : result' = [page |-> page, error |-> "none"]
  OBVIOUS
<1>1. call[c].limit \in PageSizes /\ call[c].button = FALSE
  BY CallParts
<1>2. page \in Page /\ InPlace(page)
  BY <1>1, FetchedPage
<1>3. /\ result' = [page |-> page, error |-> "none"]
      /\ result' \in Result /\ result' # None
  BY <1>0, <1>2, NoneAssumption DEF Result
<1>4. TypeOK'
  BY <1>3, PanelType DEF TypeOK, Layers, Call
<1>5. ButtonHolds'
  BY <1>1, ButtonFrame DEF TypeOK, Idle
<1>6. ResultHolds'
  BY <1>2, <1>3 DEF ResultHolds, RowsInPlace
<1>7. SelectionHolds'
  BY SelectionFrame
<1>8. OpenHolds'
  BY <1>3 DEF OpenHolds
<1> QED
  BY <1>4, <1>5, <1>6, <1>7, <1>8

LEMMA LoadNextStep == ASSUME IInv, ~urgent, NEW c \in Calls, LoadNext(c) PROVE IInv'
<1> USE DEF IInv, LoadNext, Click
<1>1. shown.result \in Result
  BY DEF TypeOK
<1> DEFINE new == [pc |-> "paging", query |-> shown.result.page.query,
                   offset |-> shown.result.page.next,
                   limit |-> shown.result.page.limit, button |-> TRUE]
<1>2. new \in Call
  BY <1>1 DEF Result, Page, Call
<1>3. call' = [call EXCEPT ![c] = new]
  OBVIOUS
<1>4. new.button
  OBVIOUS
<1> HIDE DEF new
<1>5. TypeOK'
  BY <1>2, <1>3, OperateType DEF TypeOK
<1>6. ButtonHolds'
  <2>1. \A d \in Calls : ~call[d].button
    BY DEF ButtonHolds, LoadingExact
  <2>2. \A d \in Calls : call'[d].button <=> d = c
    BY <1>3, <1>4, <2>1 DEF TypeOK
  <2> QED
    BY <2>2 DEF ButtonHolds, LoadingExact
<1>7. ResultHolds'
  BY ResultFrame DEF ResultHolds, RowsInPlace
<1>8. SelectionHolds'
  BY SelectionFrame
<1>9. OpenHolds'
  BY DEF OpenHolds
<1> QED
  BY <1>5, <1>6, <1>7, <1>8, <1>9

\* The request of the button ends, and with it the loading.
LEMMA RequestEnds ==
    ASSUME IInv, NEW c \in Calls, UNCHANGED <<shown, urgent>>,
           loading' = IF call[c].button THEN FALSE ELSE loading,
           call' = [call EXCEPT ![c] = Idle]
    PROVE  ButtonHolds'
<1>1. ~Idle.button
  BY DEF Idle
<1>2. \A d \in Calls : call'[d].button <=> call[d].button /\ d # c
  BY <1>1 DEF IInv, TypeOK
<1>3. CASE call[c].button
  BY <1>2, <1>3 DEF IInv, ButtonHolds, LoadingExact
<1>4. CASE ~call[c].button
  BY <1>2, <1>4 DEF IInv, ButtonHolds, LoadingExact
<1> QED
  BY <1>3, <1>4

LEMMA PageArrivesStep == ASSUME IInv, NEW c \in Calls, PageArrives(c) PROVE IInv'
<1> USE DEF IInv, PageArrives, renderVars
<1>0. PICK page \in Pages(call[c].query, call[c].offset, call[c].limit) :
         result' = IF result # None /\ result.page.query = call[c].query
                   THEN [page |-> AppendPage(result.page, page), error |-> "none"]
                   ELSE result
  OBVIOUS
<1>1. call[c].query \in Queries /\ call[c].offset \in Nat /\ call[c].limit \in PageSizes
  BY CallParts
<1>2. page \in Page /\ InPlace(page)
  BY <1>1, FetchedPage
<1>3. /\ result' = IF result # None /\ result.page.query = call[c].query
                   THEN [page |-> AppendPage(result.page, page), error |-> "none"]
                   ELSE result
      /\ call' = [call EXCEPT ![c] = Idle]
      /\ loading' = IF call[c].button THEN FALSE ELSE loading
  BY <1>0
<1>4. /\ result' \in Result \cup {None}
      /\ result # None => result' # None
      /\ RowsInPlace'
  <2>1. CASE result # None /\ result.page.query = call[c].query
    <3>1. result.page \in Page /\ InPlace(result.page)
      BY <2>1 DEF TypeOK, Result, ResultHolds, RowsInPlace
    <3>2. AppendPage(result.page, page) \in Page /\ InPlace(AppendPage(result.page, page))
      BY <1>2, <3>1, AppendedPage
    <3>3. result' = [page |-> AppendPage(result.page, page), error |-> "none"]
      BY <1>3, <2>1
    <3> QED
      BY <3>2, <3>3, NoneAssumption DEF Result, RowsInPlace
  <2>2. CASE ~(result # None /\ result.page.query = call[c].query)
    BY <1>3, <2>2 DEF TypeOK, ResultHolds, RowsInPlace
  <2> QED
    BY <2>1, <2>2
<1>5. TypeOK'
  BY <1>3, <1>4 DEF TypeOK, Call
<1>6. ButtonHolds'
  BY <1>3, RequestEnds
<1> QED
  BY <1>4, <1>5, <1>6, AnswerStep

\* An error that is shown with a result leaves its page alone.
LEMMA MarkedResult ==
    ASSUME IInv, NEW error \in {"none", "page", "layer"},
           result' = result \/ (result # None /\ result' = [result EXCEPT !.error = error])
    PROVE  /\ result' \in Result \cup {None}
           /\ result # None => result' # None
           /\ RowsInPlace'
BY NoneAssumption DEF IInv, TypeOK, Result, ResultHolds, RowsInPlace

LEMMA CallFailsStep == ASSUME IInv, NEW c \in Calls, CallFails(c) PROVE IInv'
<1> USE DEF IInv, CallFails, renderVars
<1>1. result' \in Result \cup {None} /\ (result # None => result' # None) /\ RowsInPlace'
  BY MarkedResult
<1>2. TypeOK'
  BY <1>1 DEF TypeOK, Call
<1>3. ButtonHolds'
  BY RequestEnds
<1> QED
  BY <1>1, <1>2, <1>3, AnswerStep

LEMMA LayerStep ==
    ASSUME IInv, NEW q \in Queries, LayerFails(q) \/ LayerRecovers(q) PROVE IInv'
<1> USE DEF IInv, renderVars
<1>1. result' \in Result \cup {None} /\ (result # None => result' # None) /\ RowsInPlace'
  BY MarkedResult DEF LayerFails, LayerRecovers
<1>2. TypeOK'
  BY <1>1, OperateType DEF TypeOK, LayerFails, LayerRecovers
<1>3. ButtonHolds'
  BY ButtonFrame DEF LayerFails, LayerRecovers
<1> QED
  BY <1>1, <1>2, <1>3, AnswerStep DEF LayerFails, LayerRecovers

LEMMA RemoveLayerStep == ASSUME IInv, NEW l \in Layers, RemoveLayer(l) PROVE IInv'
<1> USE DEF IInv, RemoveLayer, renderVars
<1>1. TypeOK'
  BY OperateType DEF TypeOK
<1>2. ButtonHolds'
  BY ButtonFrame
<1> QED
  BY <1>1, <1>2, AnswerStep DEF ResultHolds, RowsInPlace

-----------------------------------------------------------------------------
(* The selection and the panel.                                            *)

LEMMA SelectStep == ASSUME IInv, NEW hits \in SUBSET Features, Select(hits) PROVE IInv'
<1> USE DEF IInv, Select, Click
<1>1. /\ selected' \in SUBSET Features /\ selected' \subseteq hits
      /\ Capped(selected') /\ (hits # {} => selected' # {})
      /\ wasCapped' \in BOOLEAN
  BY WithinCapped DEF Within
<1>2. TypeOK'
  BY <1>1, PanelType, OperateType DEF TypeOK
<1>3. ButtonHolds'
  BY ButtonFrame
<1>4. ResultHolds'
  BY ResultFrame DEF ResultHolds, RowsInPlace
<1>5. SelectionHolds'
  BY <1>1 DEF SelectionHolds, Capped
<1>6. OpenHolds'
  BY <1>1 DEF OpenHolds, ShowSelected, FeaturesCleared, ShowQuery, ResultHolds
<1> QED
  BY <1>2, <1>3, <1>4, <1>5, <1>6

LEMMA ClearSelectionStep == ASSUME IInv, ClearSelection PROVE IInv'
<1> USE DEF IInv, ClearSelection, renderVars
<1>1. TypeOK'
  BY PanelType, OperateType DEF TypeOK
<1>2. ButtonHolds'
  BY ButtonFrame
<1>3. ResultHolds'
  BY ResultFrame DEF ResultHolds, RowsInPlace
<1>4. SelectionHolds'
  BY CappedEmpty DEF SelectionHolds, Capped
<1>5. OpenHolds'
  BY DEF OpenHolds, FeaturesCleared, ShowQuery, ResultHolds
<1> QED
  BY <1>1, <1>2, <1>3, <1>4, <1>5

LEMMA ClickPanelStep == ASSUME IInv, ~urgent, ClickPanel PROVE IInv'
<1> USE DEF IInv, ClickPanel, Click
<1>1. TypeOK'
  BY PanelType, OperateType DEF TypeOK
<1>2. ButtonHolds'
  BY ButtonFrame
<1>3. ResultHolds'
  BY ResultFrame DEF ResultHolds, RowsInPlace
<1>4. SelectionHolds'
  BY SelectionFrame
<1>5. OpenHolds'
  <2>1. Collapse \/ result # None
    BY DEF ResultHolds
  <2>2. CASE Collapse
    BY <2>2, <1>1 DEF OpenHolds, Collapse, TypeOK, Panel
  <2>3. CASE result # None
    BY <2>3 DEF OpenHolds
  <2> QED
    BY <2>1, <2>2, <2>3
<1> QED
  BY <1>1, <1>2, <1>3, <1>4, <1>5

LEMMA NextIInv == IInv /\ [Next]_vars => IInv'
<1> SUFFICES ASSUME IInv, [Next]_vars PROVE IInv'
  OBVIOUS
<1>1. CASE Render \/ RunEffects
  BY <1>1, RenderStep, EffectsStep
<1>2. CASE ~urgent /\ Others
  BY <1>2, RunQueryStep, RunPageStep, CreatedStep, LoadNextStep, PageArrivesStep, CallFailsStep,
     LayerStep, RemoveLayerStep, SelectStep, ClearSelectionStep, ClickPanelStep DEF Others
<1>3. CASE UNCHANGED vars
  BY <1>3 DEF vars, pageVars, renderVars, IInv, TypeOK, ButtonHolds, LoadingExact, ResultHolds,
     RowsInPlace, SelectionHolds, Capped, OpenHolds
<1> QED
  BY <1>1, <1>2, <1>3 DEF Next

LEMMA InvariantHolds == Spec => []IInv
BY InitIInv, NextIInv, PTL DEF Spec

-----------------------------------------------------------------------------
(* Theorems.                                                               *)

\* Every variable of the page keeps its type; in particular a request names a query
\* of the service, and a page size it accepts.
THEOREM TypeCorrect == Spec => []TypeOK
<1>1. IInv => TypeOK
  BY DEF IInv
<1> QED
  BY <1>1, InvariantHolds, PTL

\* The rows of the table are those of one result, without gap or repetition if its
\* order is deterministic, and the next page continues them, for results and page
\* sizes of any length, pages cut anywhere, and any number of requests.
THEOREM RowsStayInPlace == Spec => []RowsInPlace
<1>1. IInv => RowsInPlace
  BY DEF IInv, ResultHolds
<1> QED
  BY <1>1, InvariantHolds, PTL

\* "Load more" has at most one request, and is disabled just as long.
THEOREM LoadingIsExact == Spec => []LoadingExact
<1>1. IInv => LoadingExact
  BY DEF IInv, ButtonHolds
<1> QED
  BY <1>1, InvariantHolds, PTL

\* An open panel is never empty, the table is never overfull, and the selection
\* follows the layers.
THEOREM OpenPanelHasContent == Spec => []PanelHasContent
<1>1. IInv => PanelHasContent
  <2> SUFFICES ASSUME IInv PROVE PanelHasContent
    OBVIOUS
  <2>1. AtRest => \A f \in selected : LayerOf[f] \in layers
    BY DEF IInv, SelectionHolds, AtRest, Current
  <2> QED
    BY <2>1 DEF IInv, SelectionHolds, Capped, OpenHolds, PanelHasContent
<1> QED
  BY <1>1, InvariantHolds, PTL
=============================================================================

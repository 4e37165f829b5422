------------------------ MODULE FeatureCatalogProofs ------------------------
(***************************************************************************)
(* Proofs about FeatureCatalog, for every set of revisions, snapshots and  *)
(* requests and in both modes.  The counting of requests is right without  *)
(* condition; what is said of files and of failed refreshes is proved for  *)
(* a file system that removes files when asked, and fails without it.      *)
(***************************************************************************)
EXTENDS FeatureCatalog, FiniteSetTheorems, TLAPS

-----------------------------------------------------------------------------
(* Requests and their counts.                                              *)

\* A request holds a snapshot exactly while it is inside acquire.
RequestsHold ==
    \A r \in Requests : holds[r] # None <=> request[r] \in {"validating", "executing"}

\* What refresh knows at each of its awaits.
RefreshHolds ==
    /\ (pointerMode /\ step = "catalog") => seen # None
    /\ step \in {"idle", "pointer", "catalog"} => candidate = None
    /\ step \in {"opening", "building", "replaced", "raised"}
          => seen # None /\ candidate # None

CountInv == TypeOK /\ RefreshHolds /\ RequestsHold /\ ReferencesExact

\* The set of holders is finite, so it has a cardinality.
LEMMA HoldersFinite ==
    ASSUME NEW s
    PROVE  IsFiniteSet(Holders(s)) /\ Cardinality(Holders(s)) \in Nat
<1>1. Holders(s) \subseteq Requests
  BY DEF Holders
<1>2. IsFiniteSet(Holders(s))
  BY <1>1, RequestsAssumption, FS_Subset
<1> QED
  BY <1>2, FS_CardinalityType

\* Entering acquire counts the request in.
LEMMA AcquireCounts ==
    ASSUME CountInv, NEW r \in Requests, NEW place \in {"validating", "executing"},
           holds[r] = None, current # None, Acquire(r, place)
    PROVE  ReferencesExact' /\ RequestsHold' /\ references' \in [Snapshots -> Nat]
             /\ holds' \in [Requests -> Snapshots \cup {None}]
             /\ request' \in [Requests -> {"idle", "validating", "validated", "executing"}]
<1>0. /\ current \in Snapshots
      /\ references \in [Snapshots -> Nat]
      /\ holds \in [Requests -> Snapshots \cup {None}]
      /\ request \in [Requests -> {"idle", "validating", "validated", "executing"}]
  BY DEF CountInv, TypeOK
<1>1. ASSUME NEW s \in Snapshots PROVE references'[s] = Cardinality(Holders(s)')
  <2>1. CASE s = current
    <3>1. Holders(s)' = Holders(s) \cup {r} /\ r \notin Holders(s)
      BY <1>0, <2>1 DEF Acquire, Holders
    <3>2. Cardinality(Holders(s) \cup {r}) = Cardinality(Holders(s)) + 1
      BY <3>1, HoldersFinite, FS_AddElement
    <3> QED
      BY <1>0, <2>1, <3>1, <3>2 DEF Acquire, CountInv, ReferencesExact
  <2>2. CASE s # current
    <3>1. Holders(s)' = Holders(s)
      BY <1>0, <2>2, NoneAssumption DEF Acquire, Holders
    <3> QED
      BY <1>0, <2>2, <3>1 DEF Acquire, CountInv, ReferencesExact
  <2> QED
    BY <2>1, <2>2
<1>2. RequestsHold'
  BY <1>0, NoneAssumption DEF Acquire, CountInv, RequestsHold
<1> QED
  BY <1>0, <1>1, <1>2 DEF Acquire, ReferencesExact

\* Leaving acquire counts it out; the count was positive.
LEMMA ReleaseCounts ==
    ASSUME CountInv, NEW r \in Requests, NEW unlinked, holds[r] \in Snapshots,
           Release(r, unlinked), holds' = [holds EXCEPT ![r] = None]
    PROVE  /\ ReferencesExact'
           /\ references' \in [Snapshots -> Nat]
           /\ references[holds[r]] > 0
<1>0. /\ references \in [Snapshots -> Nat]
      /\ holds \in [Requests -> Snapshots \cup {None}]
  BY DEF CountInv, TypeOK
<1> DEFINE h == holds[r]
<1>1. r \in Holders(h)
  BY DEF Holders
<1>2. references[h] = Cardinality(Holders(h)) /\ references[h] \in Nat
  BY <1>0 DEF CountInv, ReferencesExact
<1>3. Cardinality(Holders(h) \ {r}) = Cardinality(Holders(h)) - 1
  BY <1>1, HoldersFinite, FS_RemoveElement
<1>4. Cardinality(Holders(h) \ {r}) \in Nat
  <2>1. IsFiniteSet(Holders(h) \ {r})
    BY HoldersFinite, FS_RemoveElement
  <2> QED
    BY <2>1, FS_CardinalityType
<1>5. references[h] > 0
  BY <1>2, <1>3, <1>4
<1>6. ASSUME NEW s \in Snapshots PROVE references'[s] = Cardinality(Holders(s)')
  <2>1. CASE s = h
    <3>1. Holders(s)' = Holders(h) \ {r}
      BY <1>0, <2>1, NoneAssumption DEF Holders
    <3> QED
      BY <1>0, <1>2, <1>3, <2>1, <3>1 DEF Release
  <2>2. CASE s # h
    <3>1. Holders(s)' = Holders(s)
      BY <1>0, <2>2, NoneAssumption DEF Holders
    <3> QED
      BY <1>0, <2>2, <3>1 DEF Release, CountInv, ReferencesExact
  <2> QED
    BY <2>1, <2>2
<1>7. references' \in [Snapshots -> Nat]
  BY <1>0, <1>2, <1>5 DEF Release
<1> QED
  BY <1>5, <1>6, <1>7 DEF ReferencesExact

\* What leaves the requests and the counts alone keeps them in agreement.
LEMMA CountsFrame ==
    ASSUME CountInv, UNCHANGED <<request, holds, references>>
    PROVE  RequestsHold' /\ ReferencesExact'
<1>1. \A s \in Snapshots : Holders(s)' = Holders(s)
  BY DEF Holders
<1> QED
  BY <1>1 DEF CountInv, RequestsHold, ReferencesExact

\* The end of a refresh is well typed.
LEMMA FailType ==
    ASSUME TypeOK, NEW url \in Etags \cup {None}, Fail(url),
           pointerMode' = pointerMode
    PROVE  TypeOK'
<1>1. CASE Return("failed") /\ files' = files \ {candidate}
  BY <1>1 DEF Fail, Return, TypeOK, Generations, requestVars
<1>2. CASE step' = "dead" /\ UNCHANGED <<seen, candidate, previousUrl, result, before, files>>
  BY <1>2 DEF Fail, TypeOK, Generations, requestVars
<1> QED
  BY <1>1, <1>2 DEF Fail

\* Every step of refresh keeps the type.
LEMMA RefreshType ==
    ASSUME TypeOK, RefreshHolds, Refresh,
           pointerMode' = pointerMode
    PROVE  TypeOK'
<1>1. CASE NotModified
  BY <1>1 DEF NotModified, Return, TypeOK, Generations, requestVars, registryVars
<1>2. CASE PointerAnswers
  BY <1>2 DEF PointerAnswers, TypeOK, Generations, requestVars, registryVars
<1>3. CASE CatalogAnswers
  <2>1. PICK s \in Snapshots :
            /\ candidate' = s
            /\ files' = files \cup {s}
            /\ made' = [made EXCEPT ![s] = None]
            /\ root' = [root EXCEPT ![s] = None]
            /\ retired' = [retired EXCEPT ![s] = FALSE]
    BY <1>3 DEF CatalogAnswers
  <2> QED
    BY <1>3, <2>1 DEF CatalogAnswers, TypeOK, Generations, requestVars
<1>4. CASE CandidateOpens
  BY <1>4 DEF CandidateOpens, TypeOK, Generations, requestVars, registryVars
<1>5. CASE Replace
  <2>1. /\ made' \in [Snapshots -> Etags \cup {None}]
        /\ root' \in [Snapshots -> Etags \cup {None}]
        /\ retired' \in [Snapshots -> BOOLEAN]
    BY <1>5 DEF Replace, Build, Retire, TypeOK
  <2>2. files' \in SUBSET Snapshots /\ step' \in {"replaced", "raised"}
    BY <1>5 DEF Replace, TypeOK
  <2> QED
    BY <1>5, <2>1, <2>2 DEF Replace, TypeOK, Generations, requestVars
<1>6. CASE Activated
  <2>1. seen \in Etags
    BY <1>6 DEF Activated, RefreshHolds, TypeOK
  <2> QED
    BY <1>6, <2>1, GenerationAssumption
    DEF Activated, Return, TypeOK, Generations, requestVars, registryVars
<1>7. CASE RejectReuse \/ FetchFails \/ OpenFails \/ BuildFails
  BY <1>7, FailType DEF RejectReuse, FetchFails, OpenFails, BuildFails, TypeOK
<1> QED
  BY <1>1, <1>2, <1>3, <1>4, <1>5, <1>6, <1>7 DEF Refresh

\* Refresh keeps what it knows.
LEMMA RefreshKeepsHolds ==
    ASSUME TypeOK, RefreshHolds, Refresh,
           pointerMode' = pointerMode
    PROVE  RefreshHolds'
<1>1. CASE NotModified
  BY <1>1 DEF NotModified, Return, RefreshHolds
<1>2. CASE PointerAnswers
  BY <1>2, NoneAssumption DEF PointerAnswers, RefreshHolds, TypeOK
<1>3. CASE CatalogAnswers
  <2>1. seen' # None /\ candidate' # None /\ step' = "opening"
    BY <1>3, NoneAssumption DEF CatalogAnswers, RefreshHolds, TypeOK
  <2> QED
    BY <2>1 DEF RefreshHolds
<1>4. CASE CandidateOpens
  BY <1>4 DEF CandidateOpens, RefreshHolds
<1>5. CASE Replace
  <2>1. step = "building" /\ step' \in {"replaced", "raised"} /\ UNCHANGED <<seen, candidate>>
    BY <1>5 DEF Replace
  <2> QED
    BY <2>1 DEF RefreshHolds
<1>6. CASE Activated
  BY <1>6 DEF Activated, Return, RefreshHolds
<1>7. ASSUME NEW url, Fail(url) PROVE RefreshHolds'
  BY <1>7 DEF Fail, Return, RefreshHolds
<1> QED
  BY <1>1, <1>2, <1>3, <1>4, <1>5, <1>6, <1>7
  DEF Refresh, RejectReuse, FetchFails, OpenFails, BuildFails

\* No step of refresh touches the requests or their counts.
LEMMA RefreshSparesRequests ==
    ASSUME Refresh
    PROVE  UNCHANGED <<request, holds, checked, references, phase, published>>
BY DEF Refresh, NotModified, PointerAnswers, CatalogAnswers, CandidateOpens, Replace, Activated,
       RejectReuse, FetchFails, OpenFails, BuildFails, Fail, requestVars, registryVars

\* A request's step keeps the type and the counts, and leaves the fetcher alone.
LEMMA RequestStep ==
    ASSUME CountInv, NEW r \in Requests,
           BeginItems(r) \/ EndValidation(r) \/ Execute(r) \/ Respond(r), pointerMode' = pointerMode
    PROVE  CountInv'
<1>0. UNCHANGED fetcherVars
  BY DEF BeginItems, EndValidation, Execute, Respond
<1>1. RefreshHolds'
  BY <1>0 DEF fetcherVars, RefreshHolds, CountInv
<1>2. CASE BeginItems(r)
  <2>1. holds[r] = None
    BY <1>2 DEF BeginItems, CountInv, RequestsHold
  <2>2. ReferencesExact' /\ RequestsHold' /\ references' \in [Snapshots -> Nat]
          /\ holds' \in [Requests -> Snapshots \cup {None}]
          /\ request' \in [Requests -> {"idle", "validating", "validated", "executing"}]
    BY <1>2, <2>1, AcquireCounts DEF BeginItems
  <2>3. TypeOK'
    BY <1>2, <2>2 DEF BeginItems, Acquire, CountInv, TypeOK, fetcherVars, Generations
  <2> QED
    BY <1>1, <2>2, <2>3 DEF CountInv
<1>3. CASE Execute(r)
  <2>1. holds[r] = None
    BY <1>3 DEF Execute, CountInv, RequestsHold
  <2>2. CASE current = None
    <3>0. End(r) /\ UNCHANGED <<phase, published, fetcherVars, registryVars>>
      BY <1>3, <2>2 DEF Execute
    <3>1. holds' = holds
      <4>1. holds \in [Requests -> Snapshots \cup {None}]
        BY DEF CountInv, TypeOK
      <4> QED
        BY <2>1, <3>0, <4>1 DEF End
    <3>2. TypeOK'
      BY <3>0, <3>1 DEF End, CountInv, TypeOK, fetcherVars, registryVars, Generations
    <3>3. RequestsHold'
      BY <2>1, <3>0, <3>1 DEF End, CountInv, TypeOK, RequestsHold
    <3>4. ReferencesExact'
      BY <3>0, <3>1 DEF CountInv, ReferencesExact, Holders, registryVars
    <3> QED
      BY <1>1, <3>2, <3>3, <3>4 DEF CountInv
  <2>3. CASE current # None
    <3>1. ReferencesExact' /\ RequestsHold' /\ references' \in [Snapshots -> Nat]
            /\ holds' \in [Requests -> Snapshots \cup {None}]
            /\ request' \in [Requests -> {"idle", "validating", "validated", "executing"}]
      BY <1>3, <2>1, <2>3, AcquireCounts DEF Execute
    <3>2. TypeOK'
      BY <1>3, <2>3, <3>1 DEF Execute, Acquire, CountInv, TypeOK, fetcherVars, Generations
    <3> QED
      BY <1>1, <3>1, <3>2 DEF CountInv
  <2> QED
    BY <2>2, <2>3
<1>4. CASE EndValidation(r) \/ Respond(r)
  <2>1. holds[r] \in Snapshots
    BY <1>4 DEF EndValidation, Respond, CountInv, RequestsHold, TypeOK
  <2>2. PICK unlinked \in BOOLEAN : Release(r, unlinked)
    BY <1>4 DEF EndValidation, Respond
  <2>3. /\ holds' = [holds EXCEPT ![r] = None]
        /\ \E p \in {"idle", "validated"} : request' = [request EXCEPT ![r] = p]
        /\ \E e \in Etags \cup {None} : checked' = [checked EXCEPT ![r] = e]
    BY <1>4, <2>1 DEF EndValidation, Respond, End, CountInv, TypeOK
  <2>4. ReferencesExact' /\ references' \in [Snapshots -> Nat]
    BY <2>1, <2>2, <2>3, ReleaseCounts
  <2>5. RequestsHold'
    BY <2>3 DEF CountInv, TypeOK, RequestsHold
  <2>6. TypeOK'
    <3>1. /\ holds' \in [Requests -> Snapshots \cup {None}]
          /\ request' \in [Requests -> {"idle", "validating", "validated", "executing"}]
          /\ checked' \in [Requests -> Etags \cup {None}]
      BY <2>3 DEF CountInv, TypeOK
    <3>2. files' \in SUBSET Snapshots /\ UNCHANGED <<current, made, root, retired, phase, published>>
      BY <1>4, <2>2 DEF Release, CountInv, TypeOK, EndValidation, Respond
    <3> QED
      BY <1>0, <2>4, <3>1, <3>2 DEF CountInv, TypeOK, fetcherVars, Generations
  <2> QED
    BY <1>1, <2>4, <2>5, <2>6 DEF CountInv
<1> QED
  BY <1>2, <1>3, <1>4

\* The counting invariant is inductive.
LEMMA CountInvInductive ==
    ASSUME CountInv, [Step]_server, pointerMode' = pointerMode
    PROVE  CountInv'
<1>1. CASE Publish
  <2>1. TypeOK' /\ RefreshHolds' /\ UNCHANGED <<request, holds, references>>
    BY <1>1 DEF Publish, CountInv, TypeOK, RefreshHolds, fetcherVars, registryVars, requestVars,
                Generations
  <2> QED
    BY <2>1, CountsFrame DEF CountInv
<1>2. CASE Begin
  <2>1. TypeOK' /\ RefreshHolds' /\ UNCHANGED <<request, holds, references>>
    BY <1>2 DEF Begin, CountInv, TypeOK, RefreshHolds, registryVars, requestVars, Generations
  <2> QED
    BY <2>1, CountsFrame DEF CountInv
<1>3. CASE Refresh
  BY <1>3, RefreshType, RefreshKeepsHolds, RefreshSparesRequests, CountsFrame DEF CountInv
<1>4. ASSUME NEW r \in Requests,
             BeginItems(r) \/ EndValidation(r) \/ Execute(r) \/ Respond(r)
      PROVE  CountInv'
  BY <1>4, RequestStep
<1>5. CASE Started \/ Stop
  <2>1. TypeOK' /\ RefreshHolds' /\ UNCHANGED <<request, holds, references>>
    BY <1>5 DEF Started, Stop, CountInv, TypeOK, RefreshHolds, fetcherVars, registryVars,
                requestVars, Generations
  <2> QED
    BY <2>1, CountsFrame DEF CountInv
<1>6. CASE Close
  <2>1. files' \in SUBSET Snapshots /\ retired' \in [Snapshots -> BOOLEAN]
    BY <1>6 DEF Close, Retire, CountInv, TypeOK
  <2>2. TypeOK' /\ RefreshHolds' /\ UNCHANGED <<request, holds, references>>
    BY <1>6, <2>1 DEF Close, CountInv, TypeOK, RefreshHolds, fetcherVars, requestVars, Generations
  <2> QED
    BY <2>2, CountsFrame DEF CountInv
<1>7. CASE UNCHANGED server
  BY <1>7, CountsFrame DEF server, CountInv, TypeOK, RefreshHolds, fetcherVars, registryVars,
                           requestVars, Generations
<1> QED
  BY <1>1, <1>2, <1>3, <1>4, <1>5, <1>6, <1>7 DEF Step

\* Nobody holds a snapshot at the start.
LEMMA CountInvInit == Init => CountInv
<1> SUFFICES ASSUME Init PROVE CountInv
  OBVIOUS
<1>1. ASSUME NEW s \in Snapshots PROVE Cardinality(Holders(s)) = 0
  <2>1. Holders(s) = {}
    BY NoneAssumption DEF Init, Holders
  <2> QED
    BY <2>1, FS_EmptySet
<1>2. ReferencesExact
  BY <1>1 DEF Init, ReferencesExact
<1> QED
  BY <1>2 DEF Init, CountInv, TypeOK, RefreshHolds, RequestsHold

LEMMA AlwaysCountInv == Spec => []CountInv
<1>1. CountInv /\ [Next]_vars => CountInv'
  BY CountInvInductive DEF Next, vars
<1> QED
  BY <1>1, CountInvInit, PTL DEF Spec

\* Every reachable state is well typed, whatever is published, fails or is
\* asked, and whether or not files can be removed.
THEOREM TypeCorrect == Spec => []TypeOK
<1>1. CountInv => TypeOK
  BY DEF CountInv
<1> QED
  BY <1>1, AlwaysCountInv, PTL

\* The reference count of a snapshot is the number of requests inside acquire.
THEOREM CountsAreExact == Spec => []ReferencesExact
<1>1. CountInv => ReferencesExact
  BY DEF CountInv
<1> QED
  BY <1>1, AlwaysCountInv, PTL

-----------------------------------------------------------------------------
(* Links and the served file, whatever fails.                              *)

\* What the steps of refresh build on, also if files cannot be removed: the URL that
\* links are built from, a revision that is new to the fetcher, a candidate that has
\* its file and that nobody else may dispose of.
CandidateHolds ==
    /\ (pointerMode /\ step = "building") => catalogUrl = seen
    /\ (pointerMode /\ step = "catalog") => seen # activeEtag
    /\ step \in {"opening", "building", "replaced", "raised"} => seen # activeEtag
    /\ step \in {"opening", "building"}
          => /\ candidate # current
             /\ candidate \in files
             /\ ~retired[candidate]
             /\ \A r \in Requests : holds[r] # candidate
    /\ step \in {"replaced", "raised"}
          => /\ current = candidate
             /\ candidate \in files
             /\ made[current] = seen
    /\ current # None => ~retired[current]

\* The active snapshot has its file if its etag is the one the fetcher will poll with.
ServedFileExists ==
    (current # None /\ activeEtag = made[current]) => current \in files

ServedInv == CountInv /\ CandidateHolds /\ LinksMatchRelease /\ ServedFileExists

LEMMA RefreshServes ==
    ASSUME ServedInv, Refresh, pointerMode' = pointerMode
    PROVE  CandidateHolds' /\ LinksMatchRelease' /\ ServedFileExists'
<1> USE NoneAssumption
<1>0. /\ TypeOK /\ RefreshHolds /\ CandidateHolds /\ LinksMatchRelease /\ ServedFileExists
      /\ holds' = holds /\ step # "idle"
  BY RefreshSparesRequests
  DEF ServedInv, CountInv, Refresh, NotModified, PointerAnswers, CatalogAnswers,
      CandidateOpens, Replace, Activated, RejectReuse, FetchFails, OpenFails, BuildFails
<1>1. CASE NotModified
  <2>1. step' = "idle" /\ UNCHANGED <<activeEtag, registryVars>>
    BY <1>1 DEF NotModified, Return
  <2> QED
    BY <1>0, <2>1 DEF CandidateHolds, LinksMatchRelease, ServedFileExists, registryVars
<1>2. CASE PointerAnswers
  <2>1. /\ step' = "catalog" /\ seen' # activeEtag
        /\ UNCHANGED <<activeEtag, registryVars>>
    BY <1>2 DEF PointerAnswers
  <2> QED
    BY <1>0, <2>1 DEF CandidateHolds, LinksMatchRelease, ServedFileExists, registryVars
<1>3. CASE CatalogAnswers
  <2>1. PICK s \in Snapshots :
            /\ IsFree(s) /\ candidate' = s /\ files' = files \cup {s}
            /\ made' = [made EXCEPT ![s] = None]
            /\ root' = [root EXCEPT ![s] = None]
            /\ retired' = [retired EXCEPT ![s] = FALSE]
    BY <1>3 DEF CatalogAnswers
  <2>2. /\ step' = "opening" /\ seen' # activeEtag
        /\ UNCHANGED <<activeEtag, current>>
    BY <1>0, <1>3 DEF CatalogAnswers, CandidateHolds
  <2>3. current # None => /\ made'[current] = made[current]
                          /\ retired'[current] = retired[current]
    BY <1>0, <2>1 DEF IsFree, TypeOK
  <2>4. ~retired'[s] /\ s # current /\ \A r \in Requests : holds[r] # s
    BY <1>0, <2>1 DEF IsFree, TypeOK
  <2>5. CandidateHolds' /\ ServedFileExists'
    BY <1>0, <2>1, <2>2, <2>3, <2>4 DEF CandidateHolds, ServedFileExists
  <2>6. LinksMatchRelease'
    BY <1>0, <2>1 DEF LinksMatchRelease, TypeOK
  <2> QED
    BY <2>5, <2>6
<1>4. CASE CandidateOpens
  <2>1. /\ step = "opening" /\ step' = "building"
        /\ catalogUrl' = IF pointerMode THEN seen ELSE None
        /\ UNCHANGED <<seen, candidate, activeEtag, registryVars>>
    BY <1>4 DEF CandidateOpens
  <2> QED
    BY <1>0, <2>1 DEF CandidateHolds, LinksMatchRelease, ServedFileExists, registryVars
<1>5. CASE Replace
  <2>1. /\ step = "building" /\ step' \in {"replaced", "raised"}
        /\ current' = candidate
        /\ made' = [made EXCEPT ![candidate] = seen]
        /\ root' = [root EXCEPT ![candidate] = catalogUrl]
        /\ files' \in {files, files \ {current}}
        /\ retired' = IF current = None THEN retired ELSE [retired EXCEPT ![current] = TRUE]
        /\ UNCHANGED <<seen, candidate, activeEtag>>
    BY <1>5 DEF Replace, Build, Retire
  <2>2. candidate \in Snapshots /\ seen # activeEtag /\ candidate # current
    BY <1>0, <2>1 DEF RefreshHolds, TypeOK, CandidateHolds
  <2>3. made'[candidate] = seen /\ ~retired'[candidate] /\ candidate \in files'
    BY <1>0, <2>1, <2>2 DEF CandidateHolds, TypeOK
  <2>4. CandidateHolds' /\ ServedFileExists'
    BY <1>0, <2>1, <2>2, <2>3 DEF CandidateHolds, ServedFileExists
  <2>5. LinksMatchRelease'
    BY <1>0, <2>1 DEF CandidateHolds, LinksMatchRelease, TypeOK
  <2> QED
    BY <2>4, <2>5
<1>6. CASE Activated
  <2>1. /\ step = "replaced" /\ step' = "idle" /\ UNCHANGED registryVars
    BY <1>6 DEF Activated, Return
  <2> QED
    BY <1>0, <2>1 DEF CandidateHolds, LinksMatchRelease, ServedFileExists, registryVars
<1>7. ASSUME NEW url, Fail(url), step \in {"pointer", "catalog", "opening", "building", "raised"}
      PROVE  CandidateHolds' /\ LinksMatchRelease' /\ ServedFileExists'
  <2>1. /\ step' \in {"idle", "dead"} /\ files' \in {files, files \ {candidate}}
        /\ UNCHANGED <<activeEtag, current, made, root, retired>>
    BY <1>7 DEF Fail, Return
  <2>2. (current # None /\ activeEtag = made[current]) => current # candidate
    BY <1>0, <1>7 DEF CandidateHolds, RefreshHolds
  <2> QED
    BY <1>0, <2>1, <2>2 DEF CandidateHolds, LinksMatchRelease, ServedFileExists
<1>8. CASE RejectReuse \/ FetchFails \/ OpenFails \/ BuildFails
  BY <1>7, <1>8 DEF RejectReuse, FetchFails, OpenFails, BuildFails
<1> QED
  BY <1>1, <1>2, <1>3, <1>4, <1>5, <1>6, <1>8 DEF Refresh

LEMMA ServedInvInductive ==
    ASSUME ServedInv, [Step]_server, pointerMode' = pointerMode
    PROVE  ServedInv'
<1>0. CountInv' /\ CountInv /\ CandidateHolds /\ LinksMatchRelease /\ ServedFileExists
  BY CountInvInductive DEF ServedInv
<1>1. CASE Refresh
  BY <1>0, <1>1, RefreshServes DEF ServedInv
<1>2. CASE Publish \/ Started \/ Stop \/ UNCHANGED server
  <2>1. UNCHANGED <<fetcherVars, registryVars, holds>>
    BY <1>2 DEF Publish, Started, Stop, server, requestVars
  <2> QED
    BY <1>0, <2>1
    DEF ServedInv, CandidateHolds, LinksMatchRelease, ServedFileExists, fetcherVars, registryVars
<1>3. CASE Begin
  <2>1. /\ step' = IF pointerMode THEN "pointer" ELSE "catalog"
        /\ UNCHANGED <<activeEtag, registryVars>>
    BY <1>3 DEF Begin
  <2> QED
    BY <1>0, <2>1 DEF ServedInv, CandidateHolds, LinksMatchRelease, ServedFileExists, registryVars
<1>4. CASE Close
  <2>1. step' = "idle" /\ current' = None /\ UNCHANGED <<made, root>>
    BY <1>4 DEF Close, fetcherVars
  <2> QED
    BY <1>0, <2>1 DEF ServedInv, CandidateHolds, LinksMatchRelease, ServedFileExists
<1>5. ASSUME NEW r \in Requests, BeginItems(r) \/ Execute(r)
      PROVE  ServedInv'
  <2>1. /\ UNCHANGED <<fetcherVars, current, made, root, retired, files>>
        /\ \/ holds' = [holds EXCEPT ![r] = None]
           \/ holds' = [holds EXCEPT ![r] = current]
    BY <1>5 DEF BeginItems, Execute, Acquire, End, registryVars
  <2>2. \A x \in Requests : holds'[x] \in {holds[x], None, current}
    BY <1>0, <2>1 DEF CountInv, TypeOK
  <2>3. step \in {"opening", "building"} => candidate # None
    BY <1>0 DEF CountInv, RefreshHolds
  <2> QED
    BY <1>0, <2>1, <2>2, <2>3
    DEF ServedInv, CandidateHolds, LinksMatchRelease, ServedFileExists, fetcherVars
<1>6. ASSUME NEW r \in Requests, EndValidation(r) \/ Respond(r)
      PROVE  ServedInv'
  <2>1. holds[r] \in Snapshots
    BY <1>0, <1>6 DEF EndValidation, Respond, CountInv, RequestsHold, TypeOK
  <2>2. /\ UNCHANGED <<fetcherVars, current, made, root, retired>>
        /\ \E unlinked \in BOOLEAN : Release(r, unlinked)
        /\ holds' = [holds EXCEPT ![r] = None]
    BY <1>6 DEF EndValidation, Respond, End, Release
  <2>3. \/ files' = files
        \/ retired[holds[r]] /\ files' = files \ {holds[r]}
    BY <2>2 DEF Release, IsLast
  <2>4. current # None /\ current \in files => current \in files'
    BY <1>0, <2>3 DEF CandidateHolds
  <2>5. step \in {"opening", "building"} => candidate \in files'
    BY <1>0, <2>3 DEF CandidateHolds
  <2>6. step \in {"opening", "building"} => candidate # None
    BY <1>0 DEF CountInv, RefreshHolds
  <2>7. \A x \in Requests : holds'[x] \in {holds[x], None}
    BY <1>0, <2>2 DEF CountInv, TypeOK
  <2>8. step \in {"replaced", "raised"} => candidate # None
    BY <1>0 DEF CountInv, RefreshHolds
  <2> QED
    BY <1>0, <2>2, <2>4, <2>5, <2>6, <2>7, <2>8
    DEF ServedInv, CandidateHolds, LinksMatchRelease, ServedFileExists, fetcherVars
<1> QED
  BY <1>1, <1>2, <1>3, <1>4, <1>5, <1>6 DEF Step

LEMMA AlwaysServedInv == Spec => []ServedInv
<1>1. Init => ServedInv
  BY CountInvInit DEF Init, ServedInv, CandidateHolds, LinksMatchRelease, ServedFileExists
<1>2. ServedInv /\ [Next]_vars => ServedInv'
  BY ServedInvInductive DEF Next, vars
<1> QED
  BY <1>1, <1>2, PTL DEF Spec

\* The links of every snapshot lead into the release it was built from, whatever fails,
\* although refresh sets the URL before the activation thread reads it.
THEOREM LinksMatch == Spec => []LinksMatchRelease
<1>1. ServedInv => LinksMatchRelease
  BY DEF ServedInv
<1> QED
  BY <1>1, AlwaysServedInv, PTL

\* Also where removing files fails, an active snapshot without a file is one whose etag
\* the fetcher does not hold, so that a poll does not take it for the published revision
\* (the damage of the finding about SnapshotRegistry.replace goes no further).
THEOREM ServedFileStays == Spec => []ServedFileExists
<1>1. ServedInv => ServedFileExists
  BY DEF ServedInv
<1> QED
  BY <1>1, AlwaysServedInv, PTL

-----------------------------------------------------------------------------
(* Files, where removing one does not fail.                                *)

\* A candidate is nobody's yet, a replaced snapshot is retired, and a snapshot
\* that requests still hold is either active or retired.
SnapshotsHold ==
    /\ step \notin {"raised", "dead"}
    /\ step \in {"opening", "building"}
          => /\ candidate # current
             /\ candidate \in files
             /\ ~retired[candidate]
             /\ Holders(candidate) = {}
    /\ step = "replaced" => current = candidate
    /\ current # None => ~retired[current]
    /\ \A s \in Snapshots : Holders(s) # {} => s = current \/ retired[s]

FilesInv == CountInv /\ SnapshotsHold /\ UsedFilesExist /\ NoFileLeaks

\* A snapshot with no reference has no holder.
LEMMA NoReferenceNoHolder ==
    ASSUME CountInv, NEW s \in Snapshots
    PROVE  references[s] = 0 <=> Holders(s) = {}
<1>1. references[s] = Cardinality(Holders(s)) /\ IsFiniteSet(Holders(s))
  BY HoldersFinite DEF CountInv, ReferencesExact
<1> QED
  BY <1>1, FS_EmptySet

\* What leaves requests, the registry and the files alone, and keeps the step's
\* relation to the candidate, keeps the files right.
LEMMA FilesFrame ==
    ASSUME FilesInv, UNCHANGED <<registryVars, holds>>, SnapshotsHold',
           candidate' = candidate \/ candidate \notin files \/ candidate = current
    PROVE  UsedFilesExist' /\ NoFileLeaks'
<1>1. \A s \in Snapshots : Holders(s)' = Holders(s)
  BY DEF Holders
<1> QED
  BY <1>1 DEF FilesInv, CountInv, TypeOK, UsedFilesExist, NoFileLeaks, registryVars

\* Refresh keeps the files right: a failure removes only the candidate's, an
\* activation the previous snapshot's if no request holds it.
LEMMA RefreshFiles ==
    ASSUME UnlinkMayFail = FALSE, FilesInv, Refresh
    PROVE  SnapshotsHold' /\ UsedFilesExist' /\ NoFileLeaks'
<1> USE NoneAssumption
<1>0. /\ TypeOK /\ RefreshHolds /\ SnapshotsHold
      /\ UNCHANGED holds
      /\ \A s : Holders(s)' = Holders(s)
  BY RefreshSparesRequests DEF FilesInv, CountInv, Holders
<1>00. UnlinkOutcomes = {TRUE}
  BY DEF UnlinkOutcomes
<1>1. CASE NotModified
  <2>1. /\ candidate = None /\ step' = "idle" /\ UNCHANGED registryVars
        /\ candidate \notin files
    BY <1>0, <1>1 DEF NotModified, Return, RefreshHolds, TypeOK
  <2>2. SnapshotsHold'
    BY <1>0, <2>1 DEF SnapshotsHold, registryVars
  <2> QED
    BY <1>0, <2>1, <2>2, FilesFrame
<1>2. CASE PointerAnswers
  <2>1. step' = "catalog" /\ UNCHANGED <<candidate, registryVars>>
    BY <1>2 DEF PointerAnswers
  <2>2. SnapshotsHold'
    BY <1>0, <2>1 DEF SnapshotsHold, registryVars
  <2> QED
    BY <1>0, <2>1, <2>2, FilesFrame
<1>3. CASE CatalogAnswers
  <2>1. PICK s \in Snapshots :
            /\ IsFree(s)
            /\ candidate' = s
            /\ files' = files \cup {s}
            /\ retired' = [retired EXCEPT ![s] = FALSE]
    BY <1>3 DEF CatalogAnswers
  <2>2. step' = "opening" /\ UNCHANGED current /\ candidate = None /\ s # current
    BY <1>0, <1>3, <2>1 DEF CatalogAnswers, RefreshHolds, IsFree
  <2>3. Holders(s) = {}
    BY <2>1 DEF IsFree, Holders
  <2>4. SnapshotsHold'
    BY <1>0, <2>1, <2>2, <2>3 DEF SnapshotsHold, TypeOK
  <2>5. UsedFilesExist'
    BY <1>0, <2>1, <2>2 DEF FilesInv, UsedFilesExist
  <2>6. NoFileLeaks'
    <3> SUFFICES ASSUME NEW t \in files', Holders(t)' = {}
                 PROVE  t \in {current', candidate'}
      BY DEF NoFileLeaks
    <3>1. t \in files => t \in {current, candidate}
      BY <1>0 DEF FilesInv, NoFileLeaks
    <3> QED
      BY <1>0, <2>1, <2>2, <3>1 DEF TypeOK
  <2> QED
    BY <2>4, <2>5, <2>6
<1>4. CASE CandidateOpens
  <2>1. step = "opening" /\ step' = "building" /\ UNCHANGED <<candidate, registryVars>>
    BY <1>4 DEF CandidateOpens
  <2>2. SnapshotsHold'
    BY <1>0, <2>1 DEF SnapshotsHold, registryVars
  <2> QED
    BY <1>0, <2>1, <2>2, FilesFrame
<1>5. CASE Replace
  <2>1. /\ step = "building" /\ step' = "replaced"
        /\ current' = candidate /\ UNCHANGED candidate
        /\ Retire(current)
        /\ files' = IF current # None /\ references[current] = 0
                    THEN files \ {current} ELSE files
    BY <1>5, <1>00 DEF Replace
  <2>2. candidate \in Snapshots /\ candidate # current /\ candidate \in files
          /\ ~retired[candidate]
    BY <1>0, <2>1 DEF SnapshotsHold, RefreshHolds, TypeOK
  <2>3. \A s \in Snapshots : retired'[s] <=> (retired[s] \/ s = current)
    BY <1>0, <2>1 DEF Retire, TypeOK
  <2>4. SnapshotsHold'
    BY <1>0, <2>1, <2>2, <2>3 DEF SnapshotsHold
  <2>5. current # None => (references[current] = 0 <=> Holders(current) = {})
    BY <1>0, NoReferenceNoHolder DEF FilesInv, TypeOK
  <2>6. UsedFilesExist'
    BY <1>0, <2>1, <2>2, <2>5 DEF FilesInv, UsedFilesExist
  <2>7. NoFileLeaks'
    BY <1>0, <2>1, <2>2, <2>5 DEF FilesInv, NoFileLeaks, TypeOK
  <2> QED
    BY <2>4, <2>6, <2>7
<1>6. CASE Activated
  <2>1. candidate = current /\ step' = "idle" /\ candidate' = None /\ UNCHANGED registryVars
    BY <1>0, <1>6 DEF Activated, Return, SnapshotsHold
  <2>2. SnapshotsHold'
    BY <1>0, <2>1 DEF SnapshotsHold, registryVars
  <2> QED
    BY <1>0, <2>1, <2>2, FilesFrame
<1>7. ASSUME NEW url, Fail(url), step \in {"pointer", "catalog", "opening", "building"}
      PROVE  SnapshotsHold' /\ UsedFilesExist' /\ NoFileLeaks'
  <2>1. /\ step' = "idle" /\ candidate' = None
        /\ files' = files \ {candidate}
        /\ UNCHANGED <<current, retired>>
    BY <1>7, <1>00 DEF Fail, Return
  <2>2. candidate # None => candidate # current /\ Holders(candidate) = {}
    BY <1>0, <1>7 DEF SnapshotsHold, RefreshHolds
  <2>3. SnapshotsHold'
    BY <1>0, <2>1 DEF SnapshotsHold
  <2>4. UsedFilesExist'
    BY <1>0, <2>1, <2>2 DEF FilesInv, UsedFilesExist
  <2>5. NoFileLeaks'
    BY <1>0, <2>1 DEF FilesInv, NoFileLeaks
  <2> QED
    BY <2>3, <2>4, <2>5
<1>8. CASE RejectReuse \/ FetchFails \/ OpenFails \/ BuildFails
  <2>1. step # "raised"
    BY <1>0 DEF SnapshotsHold
  <2> QED
    BY <1>7, <1>8, <2>1 DEF RejectReuse, FetchFails, OpenFails, BuildFails
<1> QED
  BY <1>1, <1>2, <1>3, <1>4, <1>5, <1>6, <1>8 DEF Refresh

\* Entering acquire keeps the files right: the snapshot entered is active.
LEMMA AcquireFiles ==
    ASSUME FilesInv, NEW r \in Requests, NEW place, holds[r] = None, current # None,
           Acquire(r, place), UNCHANGED fetcherVars
    PROVE  SnapshotsHold' /\ UsedFilesExist' /\ NoFileLeaks'
<1>0. /\ UNCHANGED <<current, retired, files, step, candidate>>
      /\ current \in Snapshots
      /\ holds \in [Requests -> Snapshots \cup {None}]
  BY DEF Acquire, fetcherVars, FilesInv, CountInv, TypeOK
<1>1. ASSUME NEW s \in Snapshots
      PROVE  Holders(s)' \subseteq Holders(s) \cup {r}
               /\ (s # current => Holders(s)' \subseteq Holders(s))
               /\ Holders(s) \ {r} \subseteq Holders(s)'
  BY <1>0 DEF Acquire, Holders
<1>2. SnapshotsHold'
  <2>1. step \in {"opening", "building"} => candidate \in Snapshots /\ candidate # current
    BY NoneAssumption DEF FilesInv, SnapshotsHold, CountInv, RefreshHolds, TypeOK
  <2> QED
    BY <1>0, <1>1, <2>1 DEF FilesInv, SnapshotsHold
<1>3. UsedFilesExist'
  BY <1>0, <1>1 DEF FilesInv, UsedFilesExist
<1>4. NoFileLeaks'
  <2>1. ASSUME NEW s \in Snapshots PROVE Holders(s) \subseteq Holders(s)'
    BY <1>0, NoneAssumption DEF Acquire, Holders
  <2> QED
    BY <1>0, <2>1 DEF FilesInv, NoFileLeaks, CountInv, TypeOK
<1> QED
  BY <1>2, <1>3, <1>4

\* Leaving acquire keeps the files right: the last request of a retired
\* snapshot takes the file with it, and nobody else does.
LEMMA ReleaseFiles ==
    ASSUME UnlinkMayFail = FALSE, FilesInv, NEW r \in Requests, NEW unlinked,
           holds[r] \in Snapshots, Release(r, unlinked),
           holds' = [holds EXCEPT ![r] = None], UNCHANGED fetcherVars
    PROVE  SnapshotsHold' /\ UsedFilesExist' /\ NoFileLeaks'
<1> DEFINE h == holds[r]
<1>0. /\ UNCHANGED <<current, retired, step, candidate>>
      /\ references[h] \in Nat
      /\ holds \in [Requests -> Snapshots \cup {None}]
      /\ files \subseteq Snapshots
  BY DEF Release, fetcherVars, FilesInv, CountInv, TypeOK
<1>1. unlinked = TRUE
  BY DEF Release, UnlinkOutcomes
<1>2. ASSUME NEW s \in Snapshots
      PROVE  Holders(s)' = IF s = h THEN Holders(s) \ {r} ELSE Holders(s)
  BY <1>0, NoneAssumption DEF Holders
<1>3. r \in Holders(h)
  BY DEF Holders
<1>4. references[h] = 1 <=> Holders(h) \ {r} = {}
  <2>1. /\ references[h] = Cardinality(Holders(h))
        /\ IsFiniteSet(Holders(h)) /\ IsFiniteSet(Holders(h) \ {r})
    BY HoldersFinite, FS_RemoveElement DEF FilesInv, CountInv, ReferencesExact
  <2>2. Cardinality(Holders(h) \ {r}) = Cardinality(Holders(h)) - 1
    BY <1>3, <2>1, FS_RemoveElement
  <2>3. Cardinality(Holders(h) \ {r}) = 0 <=> Holders(h) \ {r} = {}
    BY <2>1, FS_EmptySet
  <2> QED
    BY <1>0, <2>1, <2>2, <2>3
<1>5. files' = IF retired[h] /\ Holders(h) \ {r} = {} THEN files \ {h} ELSE files
  BY <1>1, <1>4 DEF Release, IsLast
<1>6. h = current \/ retired[h]
  BY <1>3 DEF FilesInv, SnapshotsHold
<1>7. h = current => ~retired[h]
  BY NoneAssumption DEF FilesInv, SnapshotsHold
<1>8. SnapshotsHold'
  <2>1. step \in {"opening", "building"} => candidate \in Snapshots /\ candidate # h
    BY <1>3, NoneAssumption DEF FilesInv, SnapshotsHold, CountInv, RefreshHolds, TypeOK
  <2> QED
    BY <1>0, <1>2, <1>5, <2>1 DEF FilesInv, SnapshotsHold
<1>9. UsedFilesExist'
  BY <1>0, <1>2, <1>5, <1>7 DEF FilesInv, UsedFilesExist
<1>10. NoFileLeaks'
  BY <1>0, <1>2, <1>5, <1>6 DEF FilesInv, NoFileLeaks
<1> QED
  BY <1>8, <1>9, <1>10

\* The files invariant is inductive.
LEMMA FilesInvInductive ==
    ASSUME UnlinkMayFail = FALSE, FilesInv, [Step]_server, pointerMode' = pointerMode
    PROVE  FilesInv'
<1>0. CountInv /\ CountInv' /\ SnapshotsHold
  BY CountInvInductive DEF FilesInv
<1>1. CASE Refresh
  BY <1>0, <1>1, RefreshFiles DEF FilesInv
<1>2. CASE Publish \/ Started \/ Stop \/ UNCHANGED server
  <2>1. UNCHANGED <<step, candidate, registryVars, holds>>
    BY <1>2 DEF Publish, Started, Stop, server, fetcherVars, requestVars
  <2>2. SnapshotsHold'
    BY <1>0, <2>1 DEF SnapshotsHold, Holders, registryVars
  <2> QED
    BY <1>0, <2>1, <2>2, FilesFrame DEF FilesInv
<1>3. CASE Begin
  <2>1. step' \in {"pointer", "catalog"} /\ UNCHANGED <<candidate, registryVars, holds>>
    BY <1>3 DEF Begin, requestVars
  <2>2. SnapshotsHold'
    BY <1>0, <2>1 DEF SnapshotsHold, Holders, registryVars
  <2> QED
    BY <1>0, <2>1, <2>2, FilesFrame DEF FilesInv
<1>4. CASE Close
  <2>1. /\ step = "idle" /\ candidate = None
        /\ UNCHANGED <<step, candidate, holds>>
        /\ current' = None /\ Retire(current)
    BY <1>0, <1>4 DEF Close, CountInv, RefreshHolds, fetcherVars, requestVars
  <2>2. \A s \in Snapshots : Holders(s)' = Holders(s)
    BY <2>1 DEF Holders
  <2>3. \A s \in Snapshots : retired'[s] <=> (retired[s] \/ s = current)
    BY <1>0, <2>1, NoneAssumption DEF Retire, CountInv, TypeOK
  <2>4. current # None => (references[current] = 0 <=> Holders(current) = {})
    BY <1>0, NoReferenceNoHolder DEF CountInv, TypeOK
  <2>5. files' = IF current # None /\ Holders(current) = {} THEN files \ {current} ELSE files
    BY <1>4, <2>4 DEF Close, UnlinkOutcomes
  <2>6. SnapshotsHold'
    BY <1>0, <2>1, <2>2, <2>3 DEF SnapshotsHold
  <2>7. UsedFilesExist'
    BY <2>1, <2>2, <2>5, NoneAssumption DEF FilesInv, UsedFilesExist
  <2>8. NoFileLeaks'
    BY <1>0, <2>1, <2>2, <2>5, NoneAssumption DEF FilesInv, NoFileLeaks, CountInv, TypeOK
  <2> QED
    BY <1>0, <2>6, <2>7, <2>8 DEF FilesInv
<1>5. ASSUME NEW r \in Requests, BeginItems(r) \/ Execute(r), current # None
      PROVE  FilesInv'
  <2>1. /\ holds[r] = None /\ UNCHANGED fetcherVars
        /\ \E place \in {"validating", "executing"} : Acquire(r, place)
    BY <1>0, <1>5 DEF BeginItems, Execute, CountInv, RequestsHold
  <2> QED
    BY <1>0, <1>5, <2>1, AcquireFiles DEF FilesInv
<1>6. ASSUME NEW r \in Requests, Execute(r), current = None
      PROVE  FilesInv'
  <2>1. holds[r] = None /\ holds \in [Requests -> Snapshots \cup {None}]
    BY <1>0, <1>6 DEF Execute, CountInv, RequestsHold, TypeOK
  <2>2. UNCHANGED <<fetcherVars, registryVars>> /\ End(r)
    BY <1>6 DEF Execute
  <2>3. UNCHANGED holds
    BY <2>1, <2>2 DEF End
  <2>4. SnapshotsHold'
    BY <1>0, <2>2, <2>3 DEF SnapshotsHold, Holders, registryVars, fetcherVars
  <2> QED
    BY <1>0, <2>2, <2>3, <2>4, FilesFrame DEF FilesInv, fetcherVars
<1>7. ASSUME NEW r \in Requests, EndValidation(r) \/ Respond(r)
      PROVE  FilesInv'
  <2>1. holds[r] \in Snapshots
    BY <1>0, <1>7 DEF EndValidation, Respond, CountInv, RequestsHold, TypeOK
  <2>2. /\ \E unlinked \in BOOLEAN : Release(r, unlinked)
        /\ holds' = [holds EXCEPT ![r] = None]
        /\ UNCHANGED fetcherVars
    BY <1>7 DEF EndValidation, Respond, End
  <2> QED
    BY <1>0, <2>1, <2>2, ReleaseFiles DEF FilesInv
<1>8. ASSUME NEW r \in Requests, BeginItems(r) PROVE FilesInv'
  BY <1>5, <1>8 DEF BeginItems
<1> QED
  BY <1>1, <1>2, <1>3, <1>4, <1>5, <1>6, <1>7, <1>8 DEF Step

LEMMA AlwaysFilesInv ==
    ASSUME UnlinkMayFail = FALSE
    PROVE  Spec => []FilesInv
<1>1. Init => FilesInv
  <2> SUFFICES ASSUME Init PROVE FilesInv
    OBVIOUS
  <2>1. \A s : Holders(s) = {} \/ s = None
    BY DEF Init, Holders
  <2>2. SnapshotsHold /\ UsedFilesExist /\ NoFileLeaks
    BY <2>1, NoneAssumption DEF Init, SnapshotsHold, UsedFilesExist, NoFileLeaks
  <2> QED
    BY <2>2, CountInvInit DEF FilesInv
<1>2. FilesInv /\ [Next]_vars => FilesInv'
  BY FilesInvInductive DEF Next, vars
<1> QED
  BY <1>1, <1>2, PTL DEF Spec

\* Where removing a file does not fail, the files of the active snapshot and of
\* every snapshot in use exist, and no file outlives its last user, through
\* replacements, failures and shutdown.
THEOREM FilesFollowUse ==
    ASSUME UnlinkMayFail = FALSE
    PROVE  Spec => []FilesExistIffUsed
<1>1. FilesInv => FilesExistIffUsed
  BY DEF FilesInv, FilesExistIffUsed
<1> QED
  BY <1>1, AlwaysFilesInv, PTL

-----------------------------------------------------------------------------
(* What the fetcher believes, where removing a file does not fail.         *)

\* The URL that belongs to the active snapshot: refresh overwrites catalog_url
\* while it builds, and keeps the old value until the thread has ended.
ActiveUrl == IF step = "building" THEN previousUrl ELSE catalogUrl

\* Outside the one step between the registry's replacement and the event loop
\* learning of it, etag, generation and URL are those of the active snapshot.
Agreement ==
    IF current = None
    THEN activeEtag = None
    ELSE /\ activeEtag = made[current]
         /\ activeGeneration = GenerationOf[made[current]]
         /\ pointerMode => ActiveUrl = made[current]

RevisionsHold ==
    /\ phase = "closed" => step = "idle" /\ current = None
    /\ (pointerMode /\ step \in {"building", "replaced"}) => catalogUrl = seen
    /\ current # None => made[current] # None
    /\ step = "replaced" => made[current] = seen
    /\ (step # "replaced" /\ phase # "closed") => Agreement
    /\ step \notin {"idle", "replaced"} => before = current

RevisionInv == FilesInv /\ RevisionsHold

\* Every step of refresh keeps the fetcher's beliefs right.
LEMMA RefreshRevisions ==
    ASSUME UnlinkMayFail = FALSE, RevisionInv, Refresh,
           pointerMode' = pointerMode
    PROVE  RevisionsHold'
<1> USE NoneAssumption, ModeAssumption
<1>0. /\ TypeOK /\ RefreshHolds /\ SnapshotsHold /\ RevisionsHold
      /\ UNCHANGED phase
      /\ step # "idle"
  BY RefreshSparesRequests
  DEF RevisionInv, FilesInv, CountInv, Refresh, NotModified, PointerAnswers, CatalogAnswers,
      CandidateOpens, Replace, Activated, RejectReuse, FetchFails, OpenFails, BuildFails
<1>00. phase # "closed"
  BY <1>0 DEF RevisionsHold
<1>1. CASE NotModified
  <2>1. /\ step \in {"pointer", "catalog"} /\ step' = "idle"
        /\ UNCHANGED <<activeEtag, activeGeneration, catalogUrl, current, made>>
    BY <1>1 DEF NotModified, Return, registryVars
  <2> QED
    BY <1>0, <1>00, <2>1 DEF RevisionsHold, Agreement, ActiveUrl
<1>2. CASE PointerAnswers
  <2>1. /\ step = "pointer" /\ step' = "catalog"
        /\ UNCHANGED <<activeEtag, activeGeneration, catalogUrl, before, current, made>>
    BY <1>2 DEF PointerAnswers, registryVars
  <2> QED
    BY <1>0, <1>00, <2>1 DEF RevisionsHold, Agreement, ActiveUrl
<1>3. CASE CatalogAnswers
  <2>1. PICK s \in Snapshots : IsFree(s) /\ made' = [made EXCEPT ![s] = None]
    BY <1>3 DEF CatalogAnswers
  <2>2. /\ step = "catalog" /\ step' = "opening"
        /\ UNCHANGED <<activeEtag, activeGeneration, catalogUrl, before, current>>
    BY <1>3 DEF CatalogAnswers
  <2>3. s # current
    BY <2>1 DEF IsFree
  <2>4. current # None => made'[current] = made[current]
    BY <1>0, <2>1, <2>3 DEF TypeOK
  <2> QED
    BY <1>0, <1>00, <2>2, <2>4 DEF RevisionsHold, Agreement, ActiveUrl
<1>4. CASE CandidateOpens
  <2>1. /\ step = "opening" /\ step' = "building"
        /\ previousUrl' = catalogUrl
        /\ catalogUrl' = IF pointerMode THEN seen ELSE None
        /\ UNCHANGED <<seen, activeEtag, activeGeneration, before, current, made>>
    BY <1>4 DEF CandidateOpens, registryVars
  <2> QED
    BY <1>0, <1>00, <2>1 DEF RevisionsHold, Agreement, ActiveUrl
<1>5. CASE Replace
  <2>1. /\ step = "building" /\ step' = "replaced"
        /\ current' = candidate
        /\ made' = [made EXCEPT ![candidate] = seen]
        /\ UNCHANGED <<seen, catalogUrl>>
    BY <1>5 DEF Replace, Build, UnlinkOutcomes
  <2>2. candidate \in Snapshots /\ seen \in Etags
    BY <1>0, <2>1 DEF RefreshHolds, TypeOK
  <2>3. made'[candidate] = seen
    BY <1>0, <2>1, <2>2 DEF TypeOK
  <2> QED
    BY <1>0, <1>00, <2>1, <2>2, <2>3 DEF RevisionsHold
<1>6. CASE Activated
  <2>1. /\ step = "replaced" /\ step' = "idle"
        /\ activeEtag' = seen /\ activeGeneration' = GenerationOf[seen]
        /\ UNCHANGED <<catalogUrl, current, made>>
    BY <1>6 DEF Activated, Return, registryVars
  <2>2. made[current] = seen /\ current # None
    BY <1>0, <2>1 DEF RevisionsHold, SnapshotsHold, RefreshHolds
  <2> QED
    BY <1>0, <1>00, <2>1, <2>2 DEF RevisionsHold, Agreement, ActiveUrl
<1>7. ASSUME NEW url, Fail(url), step \in {"pointer", "catalog", "opening", "building"},
             url = ActiveUrl
      PROVE  RevisionsHold'
  <2>1. /\ step' = "idle" /\ catalogUrl' = ActiveUrl
        /\ UNCHANGED <<activeEtag, activeGeneration, current, made>>
    BY <1>7 DEF Fail, Return, UnlinkOutcomes
  <2> QED
    BY <1>0, <1>00, <1>7, <2>1 DEF RevisionsHold, Agreement, ActiveUrl
<1>8. CASE RejectReuse \/ FetchFails \/ OpenFails \/ BuildFails
  <2>1. step # "raised"
    BY <1>0 DEF SnapshotsHold
  <2> QED
    BY <1>7, <1>8, <2>1 DEF RejectReuse, FetchFails, OpenFails, BuildFails, ActiveUrl
<1> QED
  BY <1>1, <1>2, <1>3, <1>4, <1>5, <1>6, <1>8 DEF Refresh

\* The revision invariant is inductive.
LEMMA RevisionInvInductive ==
    ASSUME UnlinkMayFail = FALSE, RevisionInv, [Step]_server, pointerMode' = pointerMode
    PROVE  RevisionInv'
<1>0. FilesInv' /\ RevisionsHold
  BY FilesInvInductive DEF RevisionInv
<1>1. CASE Refresh
  BY <1>0, <1>1, RefreshRevisions DEF RevisionInv
<1>2. CASE Begin
  <2>1. /\ step = "idle" /\ step' \in {"pointer", "catalog"} /\ before' = current
        /\ phase # "closed"
        /\ UNCHANGED <<phase, activeEtag, activeGeneration, catalogUrl, registryVars>>
    BY <1>2 DEF Begin
  <2> QED
    BY <1>0, <2>1 DEF RevisionInv, RevisionsHold, Agreement, ActiveUrl, registryVars
<1>3. CASE Close
  <2>1. /\ phase' = "closed" /\ step = "idle" /\ current' = None
        /\ UNCHANGED <<fetcherVars, made>>
    BY <1>3 DEF Close
  <2> QED
    BY <1>0, <2>1 DEF RevisionInv, RevisionsHold, fetcherVars
<1>4. CASE Publish \/ Started \/ Stop \/ UNCHANGED server
               \/ \E r \in Requests : BeginItems(r) \/ EndValidation(r) \/ Execute(r) \/ Respond(r)
  <2>1. UNCHANGED <<fetcherVars, current, made>>
    BY <1>4 DEF Publish, Started, Stop, server, BeginItems, EndValidation, Execute, Respond,
                Acquire, Release, registryVars
  <2>2. phase' = "closed" <=> phase = "closed"
    BY <1>4 DEF Publish, Started, Stop, server, BeginItems, EndValidation, Execute, Respond
  <2> QED
    BY <1>0, <2>1, <2>2 DEF RevisionInv, RevisionsHold, Agreement, ActiveUrl,
                            fetcherVars
<1> QED
  BY <1>1, <1>2, <1>3, <1>4 DEF Step

LEMMA AlwaysRevisionInv ==
    ASSUME UnlinkMayFail = FALSE
    PROVE  Spec => []RevisionInv
<1>1. Init => RevisionsHold
  BY DEF Init, RevisionsHold, Agreement
<1>2. RevisionInv /\ [Next]_vars => RevisionInv'
  BY RevisionInvInductive DEF Next, vars
<1>3. FilesInv /\ RevisionsHold => RevisionInv
  BY DEF RevisionInv
<1> QED
  BY <1>1, <1>2, <1>3, AlwaysFilesInv, PTL DEF Spec

\* Between refreshes the fetcher's etag, generation and URL are those of the
\* snapshot the registry serves.
THEOREM FetcherAgrees ==
    ASSUME UnlinkMayFail = FALSE
    PROVE  Spec => []FetcherAgreesWithRegistry
<1>1. RevisionInv => FetcherAgreesWithRegistry
  BY DEF RevisionInv, RevisionsHold, Agreement, ActiveUrl, FetcherAgreesWithRegistry
<1> QED
  BY <1>1, AlwaysRevisionInv, PTL

\* Where removing a file does not fail, what the fetcher believes and the links
\* of every snapshot are of the revision that is served.
THEOREM RevisionsDoAgree ==
    ASSUME UnlinkMayFail = FALSE
    PROVE  Spec => []RevisionsAgree
<1>1. FetcherAgreesWithRegistry /\ LinksMatchRelease => RevisionsAgree
  BY DEF RevisionsAgree
<1> QED
  BY <1>1, FetcherAgrees, LinksMatch, PTL

\* Where removing a file does not fail, a failed refresh leaves the snapshot
\* that was active when it began.
THEOREM FailureKeepsSnapshot ==
    ASSUME UnlinkMayFail = FALSE
    PROVE  Spec => FailedRefreshKeepsSnapshot
<1>1. ASSUME RevisionInv, [Next]_vars
      PROVE  [(step # "idle" /\ step' = "idle" /\ result' = "failed") => current' = before]_vars
  <2> SUFFICES ASSUME Next, step # "idle", step' = "idle", result' = "failed"
               PROVE  current' = before
    BY <1>1
  <2>1. Refresh
    BY DEF Next, Step, Publish, Begin, Started, Stop, Close, BeginItems, EndValidation, Execute,
           Respond, fetcherVars
  <2>2. RejectReuse \/ FetchFails \/ OpenFails \/ BuildFails
    BY <2>1 DEF Refresh, NotModified, PointerAnswers, CatalogAnswers, CandidateOpens, Replace,
                Activated, Return
  <2>3. step # "replaced" /\ current' = current
    BY <2>2 DEF RejectReuse, FetchFails, OpenFails, BuildFails, Fail
  <2> QED
    BY <1>1, <2>3 DEF RevisionInv, RevisionsHold
<1> QED
  BY <1>1, AlwaysRevisionInv, PTL DEF Spec, FailedRefreshKeepsSnapshot

\* Where removing a file does not fail, UNCHANGED means that the revision
\* published is the one the registry serves.
THEOREM UnchangedMeansServed ==
    ASSUME UnlinkMayFail = FALSE
    PROVE  Spec => UnchangedIsServed
<1>1. ASSUME RevisionInv, [Next]_vars
      PROVE  [(step # "idle" /\ step' = "idle" /\ result' = "unchanged")
                => current # None /\ made[current] = published]_vars
  <2> SUFFICES ASSUME Next, step # "idle", step' = "idle", result' = "unchanged"
               PROVE  current # None /\ made[current] = published
    BY <1>1
  <2>1. Refresh
    BY DEF Next, Step, Publish, Begin, Started, Stop, Close, BeginItems, EndValidation, Execute,
           Respond, fetcherVars
  <2>2. NotModified
    <3>1. ASSUME NEW url, Fail(url) PROVE FALSE
      BY <3>1 DEF Fail, Return
    <3> QED
      BY <2>1, <3>1 DEF Refresh, PointerAnswers, CatalogAnswers, CandidateOpens, Replace,
                        Activated, Return, RejectReuse, FetchFails, OpenFails, BuildFails
  <2>3. activeEtag = published /\ step \in {"pointer", "catalog"}
    BY <2>2 DEF NotModified
  <2>4. published # None
    BY <1>1, NoneAssumption DEF RevisionInv, FilesInv, CountInv, TypeOK
  <2> QED
    BY <1>1, <2>3, <2>4 DEF RevisionInv, RevisionsHold, Agreement
<1> QED
  BY <1>1, AlwaysRevisionInv, PTL DEF Spec, UnchangedIsServed

-----------------------------------------------------------------------------
(* The refinement of SnapshotService, where removing a file does not fail. *)

\* The files other than a candidate's.
SnapshotFiles == files \ ({candidate} \ {current})

\* They are those of the snapshots in use.
LEMMA FilesInUse == FilesInv => SnapshotFiles = Service!InUse
<1> SUFFICES ASSUME FilesInv PROVE SnapshotFiles = Service!InUse
  OBVIOUS
<1>0. /\ files \subseteq Snapshots /\ current \in Snapshots \cup {None}
      /\ holds \in [Requests -> Snapshots \cup {None}]
  BY DEF FilesInv, CountInv, TypeOK
<1>1. candidate # None /\ candidate # current => Holders(candidate) = {}
  <2>1. step # "idle" => step \in {"pointer", "catalog", "opening", "building", "replaced"}
    BY DEF FilesInv, CountInv, TypeOK, SnapshotsHold
  <2> QED
    BY <2>1 DEF FilesInv, CountInv, RefreshHolds, SnapshotsHold
<1>2. SnapshotFiles \subseteq Service!InUse
  BY <1>0, NoneAssumption DEF FilesInv, NoFileLeaks, Holders, SnapshotFiles, Service!InUse
<1>3. Service!InUse \subseteq SnapshotFiles
  BY <1>0, <1>1 DEF FilesInv, UsedFilesExist, Holders, SnapshotFiles, Service!InUse
<1> QED
  BY <1>2, <1>3

LEMMA FilesInUseNext == FilesInv' => SnapshotFiles' = Service!InUse'
<1>1. (FilesInv => SnapshotFiles = Service!InUse)'
  BY FilesInUse, PTL
<1> QED
  BY <1>1

LEMMA InitMapped == Init => Service!Init
BY DEF Init, Service!Init

\* Entering and leaving acquire.
LEMMA RequestMapped ==
    ASSUME FilesInv, FilesInv', NEW r \in Requests,
           BeginItems(r) \/ EndValidation(r) \/ Execute(r) \/ Respond(r)
    PROVE  [Service!Next]_(Service!vars)
<1>0. SnapshotFiles = Service!InUse /\ SnapshotFiles' = Service!InUse'
  BY FilesInUse, FilesInUseNext
<1>1. CASE BeginItems(r) \/ (Execute(r) /\ current # None)
  <2>1. PICK place : Acquire(r, place)
    BY <1>1 DEF BeginItems, Execute
  <2>2. holds[r] = None /\ current # None /\ candidate' = candidate
    BY <1>1 DEF BeginItems, Execute, FilesInv, CountInv, RequestsHold, fetcherVars
  <2>3. Service!Enter(r)
    BY <2>1, <2>2 DEF Service!Enter, Acquire
  <2> QED
    BY <2>3 DEF Service!Next
<1>2. CASE EndValidation(r) \/ Respond(r)
  <2>1. holds' = [holds EXCEPT ![r] = None] /\ current' = current
    BY <1>2 DEF EndValidation, Respond, End, Release
  <2>2. holds[r] # None
    BY <1>2 DEF EndValidation, Respond, FilesInv, CountInv, RequestsHold
  <2>3. Service!Leave(r)
    BY <1>0, <2>1, <2>2 DEF Service!Leave, SnapshotFiles
  <2> QED
    BY <2>3 DEF Service!Next
<1>3. CASE Execute(r) /\ current = None
  <2>1. holds[r] = None
    BY <1>3 DEF Execute, FilesInv, CountInv, RequestsHold
  <2>2. holds' = holds
    BY <1>3, <2>1 DEF Execute, End, FilesInv, CountInv, TypeOK
  <2> QED
    BY <1>3, <2>2 DEF Execute, registryVars, fetcherVars, Service!vars
<1> QED
  BY <1>1, <1>2, <1>3

LEMMA StepMapped ==
    ASSUME FilesInv, FilesInv', [Step]_server
    PROVE  [Service!Next]_(Service!vars)
<1>0. SnapshotFiles = Service!InUse /\ SnapshotFiles' = Service!InUse'
  BY FilesInUse, FilesInUseNext
<1>1. ASSUME UNCHANGED <<current, holds>> PROVE UNCHANGED Service!vars
  <2>1. Service!InUse' = Service!InUse
    BY <1>1 DEF Service!InUse
  <2> QED
    BY <1>0, <1>1, <2>1 DEF Service!vars, SnapshotFiles
<1>2. CASE Replace
  <2>1. /\ current' = candidate /\ candidate # current /\ candidate \in Snapshots
        /\ UNCHANGED holds
    BY <1>2, NoneAssumption
       DEF Replace, requestVars, FilesInv, CountInv, TypeOK, RefreshHolds, SnapshotsHold
  <2>2. candidate \notin files \ ({candidate} \ {current})
    BY <2>1
  <2>3. Service!Swap
    BY <1>0, <2>1, <2>2 DEF Service!Swap, SnapshotFiles
  <2> QED
    BY <2>3 DEF Service!Next
<1>3. CASE Close
  <2>1. current' = None /\ UNCHANGED holds
    BY <1>3 DEF Close, requestVars
  <2>2. CASE current = None
    BY <1>1, <2>1, <2>2
  <2>3. CASE current # None
    <3>1. Service!Shutdown
      BY <1>0, <2>1, <2>3 DEF Service!Shutdown, SnapshotFiles
    <3> QED
      BY <3>1 DEF Service!Next
  <2> QED
    BY <2>2, <2>3
<1>4. CASE \E r \in Requests : BeginItems(r) \/ EndValidation(r) \/ Execute(r) \/ Respond(r)
  BY <1>4, RequestMapped
<1>5. CASE Refresh /\ ~Replace
  BY <1>1, <1>5 DEF Refresh, NotModified, PointerAnswers, CatalogAnswers, CandidateOpens,
     Activated, RejectReuse, FetchFails, OpenFails, BuildFails, Fail, registryVars, requestVars
<1>6. CASE Publish \/ Begin \/ Started \/ Stop \/ UNCHANGED server
  BY <1>1, <1>6 DEF Publish, Begin, Started, Stop, server, registryVars, requestVars
<1> QED
  BY <1>2, <1>3, <1>4, <1>5, <1>6 DEF Step

\* Where removing a file does not fail, whatever the feature server's registry,
\* fetcher and requests do is what a snapshot service may do.
THEOREM Implements ==
    ASSUME UnlinkMayFail = FALSE
    PROVE  Spec => ImplementsService
<1>1. FilesInv /\ FilesInv' /\ [Next]_vars => [Service!Next]_(Service!vars)
  BY StepMapped DEF Next, vars
<1>2. Spec => []FilesInv
  BY AlwaysFilesInv
<1> QED
  BY <1>1, <1>2, InitMapped, PTL DEF Spec, ImplementsService, Service!Spec
=============================================================================

-------------------------- MODULE WebCatalogProofs --------------------------
(***************************************************************************)
(* Proofs about WebCatalog, for every set of revisions, repositories and   *)
(* requests and every kind of source: its safety invariants, and that it   *)
(* implements SnapshotService.                                             *)
(***************************************************************************)
EXTENDS WebCatalog, FiniteSetTheorems, TLAPS

-----------------------------------------------------------------------------
(* The inductive invariant.                                                *)

\* A request holds a repository exactly while it is inside withSnapshot.
RequestsHold == \A r \in Requests : holds[r] # None <=> request[r] = "stac"

\* What refresh knows at each of its waits.
RefreshKnows ==
    /\ step \in {"writing", "renaming"} => seen # None
    /\ step = "renaming" => copied # None
    /\ (step = "renaming" /\ sourceKind # "file") => copied = seen

\* Every repository in use was made of a revision.
RevisionsHold ==
    /\ repository # None => made[repository] # None
    /\ \A r \in Requests : holds[r] # None => made[holds[r]] # None

\* A held repository is active or retired; an open one is active or held.
DatabasesHold ==
    /\ repository # None => repository \in open
    /\ retired \subseteq open \ {repository}
    /\ \A r \in Requests : holds[r] # None => holds[r] \in retired \cup {repository}
    /\ \A p \in open : p = repository \/ (p \in retired /\ Holders(p) # {})

IInv == /\ TypeOK /\ RequestsHold /\ LeasesExact /\ RefreshKnows /\ RevisionsHold
        /\ DatabasesHold /\ StartedServes /\ UrlBacksRepository /\ FingerprintIsServed

-----------------------------------------------------------------------------
(* Counting leases.                                                        *)

LEMMA HoldersFinite ==
    ASSUME NEW p
    PROVE  IsFiniteSet(Holders(p)) /\ Cardinality(Holders(p)) \in Nat
<1>1. Holders(p) \subseteq Requests
  BY DEF Holders
<1>2. IsFiniteSet(Holders(p))
  BY <1>1, RequestsAssumption, FS_Subset
<1> QED
  BY <1>2, FS_CardinalityType

\* A repository without leases is held by nobody.
LEMMA NoLeaseNoHolder ==
    ASSUME TypeOK, LeasesExact, NEW p \in Repos
    PROVE  leases[p] > 0 <=> Holders(p) # {}
<1>1. leases[p] = Cardinality(Holders(p)) /\ leases[p] \in Nat /\ IsFiniteSet(Holders(p))
  BY HoldersFinite DEF LeasesExact, TypeOK
<1>2. Cardinality(Holders(p)) = 0 <=> Holders(p) = {}
  BY <1>1, FS_EmptySet
<1> QED
  BY <1>1, <1>2

\* A new lease is counted.
LEMMA LeaseCounts ==
    ASSUME TypeOK, LeasesExact, NEW r \in Requests, holds[r] = None, repository # None,
           holds' = [holds EXCEPT ![r] = repository],
           leases' = [leases EXCEPT ![repository] = @ + 1]
    PROVE  LeasesExact'
<1>0. /\ repository \in Repos
      /\ leases \in [Repos -> Nat]
      /\ holds \in [Requests -> Repos \cup {None}]
  BY DEF TypeOK
<1>1. ASSUME NEW p \in Repos PROVE leases'[p] = Cardinality(Holders(p)')
  <2>1. CASE p = repository
    <3>1. Holders(p)' = Holders(p) \cup {r} /\ r \notin Holders(p)
      BY <1>0, <2>1 DEF Holders
    <3>2. Cardinality(Holders(p) \cup {r}) = Cardinality(Holders(p)) + 1
      BY <3>1, HoldersFinite, FS_AddElement
    <3> QED
      BY <1>0, <2>1, <3>1, <3>2 DEF LeasesExact
  <2>2. CASE p # repository
    <3>1. Holders(p)' = Holders(p)
      BY <1>0, <2>2, NoneAssumption DEF Holders
    <3> QED
      BY <1>0, <2>2, <3>1 DEF LeasesExact
  <2> QED
    BY <2>1, <2>2
<1> QED
  BY <1>1 DEF LeasesExact

\* The end of a lease is counted; it was the last one if the count was 1.
LEMMA ReleaseCounts ==
    ASSUME TypeOK, LeasesExact, NEW r \in Requests, NEW h \in Repos, holds[r] = h,
           holds' = [holds EXCEPT ![r] = None],
           leases' = [leases EXCEPT ![h] = @ - 1]
    PROVE  /\ LeasesExact'
           /\ leases' \in [Repos -> Nat]
           /\ Holders(h)' = Holders(h) \ {r}
           /\ leases[h] = 1 <=> Holders(h) \ {r} = {}
           /\ \A p \in Repos : p # h => Holders(p)' = Holders(p)
<1>0. /\ leases \in [Repos -> Nat]
      /\ holds \in [Requests -> Repos \cup {None}]
      /\ leases[h] = Cardinality(Holders(h))
  BY DEF TypeOK, LeasesExact
<1>1. Holders(h)' = Holders(h) \ {r}
  BY <1>0, NoneAssumption DEF Holders
<1>2. r \in Holders(h)
  BY DEF Holders
<1>3. /\ IsFiniteSet(Holders(h) \ {r})
      /\ Cardinality(Holders(h) \ {r}) = Cardinality(Holders(h)) - 1
  BY <1>2, HoldersFinite, FS_RemoveElement
<1>4. /\ Cardinality(Holders(h) \ {r}) \in Nat
      /\ Cardinality(Holders(h) \ {r}) = 0 <=> Holders(h) \ {r} = {}
  BY <1>3, FS_CardinalityType, FS_EmptySet
<1>5. ASSUME NEW p \in Repos, p # h PROVE Holders(p)' = Holders(p)
  BY <1>0, <1>5, NoneAssumption DEF Holders
<1>6. ASSUME NEW p \in Repos PROVE leases'[p] = Cardinality(Holders(p)')
  BY <1>0, <1>1, <1>3, <1>5 DEF LeasesExact
<1>7. leases' \in [Repos -> Nat]
  BY <1>0, <1>3, <1>4
<1> QED
  BY <1>0, <1>1, <1>3, <1>4, <1>5, <1>6, <1>7 DEF LeasesExact

-----------------------------------------------------------------------------
(* Steps that leave the catalog and its leases alone.                      *)

LEMMA CatalogFrame ==
    ASSUME TypeOK, RequestsHold, LeasesExact, RevisionsHold, DatabasesHold,
           UrlBacksRepository, FingerprintIsServed,
           UNCHANGED <<activeVars, leaseVars, holds>>,
           \A r \in Requests : request'[r] = "stac" <=> request[r] = "stac",
           \A r \in Requests : request[r] = "stac" => url'[r] = url[r],
           sourceKind' = sourceKind
    PROVE  RequestsHold' /\ LeasesExact' /\ RevisionsHold' /\ DatabasesHold'
           /\ UrlBacksRepository' /\ FingerprintIsServed'
<1> USE DEF activeVars, leaseVars
<1>1. RequestsHold'
  BY DEF RequestsHold
<1>2. LeasesExact'
  BY DEF LeasesExact, Holders
<1>3. RevisionsHold'
  BY DEF RevisionsHold
<1>4. DatabasesHold'
  BY DEF DatabasesHold, Holders
<1>5. UrlBacksRepository'
  BY DEF UrlBacksRepository
<1>6. FingerprintIsServed'
  BY DEF FingerprintIsServed
<1> QED
  BY <1>1, <1>2, <1>3, <1>4, <1>5, <1>6

\* The end of a refresh that activates nothing.
LEMMA EndRefreshStep ==
    ASSUME IInv, EndRefresh(FALSE), lastError' \in BOOLEAN,
           UNCHANGED <<published, activeVars, leaseVars, holds, url, data>>,
           sourceKind' = sourceKind
    PROVE  IInv'
<1> USE DEF IInv, EndRefresh, EndStart, activeVars, leaseVars
<1>0. /\ runtime' \in {"stopped", runtime}
      /\ \A r \in Requests : request'[r] \in {"idle", request[r]}
      /\ request' \in [Requests -> {"idle", "waiting", "ready", "stac", "page", "files"}]
      /\ \A r \in Requests : request[r] # "waiting" => request'[r] = request[r]
      /\ \A r \in Requests : request'[r] # request[r] => runtime' = "stopped"
      /\ runtime = "started" => runtime' = "started"
  BY DEF TypeOK
<1>1. TypeOK'
  BY <1>0 DEF TypeOK
<1>2. RequestsHold' /\ LeasesExact' /\ RevisionsHold' /\ DatabasesHold'
      /\ UrlBacksRepository' /\ FingerprintIsServed'
  BY <1>0, CatalogFrame
<1>3. RefreshKnows'
  BY DEF RefreshKnows
<1>4. StartedServes'
  BY <1>0 DEF StartedServes
<1> QED
  BY <1>1, <1>2, <1>3, <1>4

\* A refresh that goes on, and a publication.
LEMMA WaitStep ==
    ASSUME IInv, Publish \/ TimerFires \/ SourceAnswers \/ Written,
           sourceKind' = sourceKind
    PROVE  IInv'
<1> USE DEF IInv, activeVars, leaseVars, refreshVars, requestVars, Publish, TimerFires,
            SourceAnswers, Written
<1>1. TypeOK'
  BY NoneAssumption DEF TypeOK
<1>2. RequestsHold' /\ LeasesExact' /\ RevisionsHold' /\ DatabasesHold'
      /\ UrlBacksRepository' /\ FingerprintIsServed'
  BY CatalogFrame
<1>3. RefreshKnows'
  BY NoneAssumption DEF RefreshKnows, TypeOK
<1>4. StartedServes'
  BY DEF StartedServes
<1> QED
  BY <1>1, <1>2, <1>3, <1>4

\* Requests that take no lease.
LEMMA RequestStep ==
    ASSUME IInv, NEW r \in Requests, Arrive(r) \/ ReadDataset(r) \/ ReadFiles(r),
           sourceKind' = sourceKind
    PROVE  IInv'
<1> USE DEF IInv, activeVars, leaseVars, refreshVars, Arrive, ReadDataset, ReadFiles
<1>0. request[r] # "stac" /\ request'[r] # "stac" /\ \A q \in Requests \ {r} :
          request'[q] = request[q] /\ url'[q] = url[q]
  BY DEF TypeOK
<1>1. TypeOK'
  <2>1. CASE Arrive(r)
    BY <2>1 DEF TypeOK
  <2>2. CASE ReadDataset(r) \/ ReadFiles(r)
    <3>1. repository \in Repos
      BY <2>2 DEF TypeOK, StartedServes
    <3>2. made[repository] \in Revisions
      BY <3>1, NoneAssumption DEF TypeOK, RevisionsHold
    <3>3. /\ request' \in [Requests -> {"idle", "waiting", "ready", "stac", "page", "files"}]
          /\ url' \in [Requests -> Revisions \cup {None}]
      BY <2>2 DEF TypeOK
    <3>4. data' \in [Requests -> SUBSET Revisions]
      <4>1. \A q \in Requests : data[q] \subseteq Revisions
        BY DEF TypeOK
      <4>2. \E d \in SUBSET Revisions : data' = [data EXCEPT ![r] = d]
        BY <2>2, <3>2, <4>1
      <4> QED
        BY <4>2 DEF TypeOK
    <3> QED
      BY <2>2, <3>3, <3>4 DEF TypeOK
  <2> QED
    BY <2>1, <2>2
<1>2. RequestsHold' /\ LeasesExact' /\ RevisionsHold' /\ DatabasesHold'
      /\ UrlBacksRepository' /\ FingerprintIsServed'
  BY <1>0, CatalogFrame
<1>3. RefreshKnows'
  BY DEF RefreshKnows
<1>4. StartedServes'
  BY DEF StartedServes, TypeOK
<1> QED
  BY <1>1, <1>2, <1>3, <1>4

-----------------------------------------------------------------------------
(* Leases and activations.                                                 *)

LEMMA LeaseStep ==
    ASSUME IInv, NEW r \in Requests, Lease(r),
           sourceKind' = sourceKind
    PROVE  IInv'
<1> USE DEF IInv
<1>0. /\ request[r] = "ready" /\ holds[r] = None /\ repository \in Repos
      /\ made[repository] \in Revisions /\ runtime = "started"
  BY DEF Lease, TypeOK, StartedServes, RequestsHold, RevisionsHold
<1>1. TypeOK'
  <2>1. leases' \in [Repos -> Nat]
    BY <1>0 DEF Lease, TypeOK
  <2>2. /\ request' \in [Requests -> {"idle", "waiting", "ready", "stac", "page", "files"}]
        /\ holds' \in [Requests -> Repos \cup {None}]
        /\ url' \in [Requests -> Revisions \cup {None}]
    BY <1>0 DEF Lease, TypeOK
  <2>3. data' \in [Requests -> SUBSET Revisions]
    <3>1. \E d \in SUBSET Revisions : data' = [data EXCEPT ![r] = d]
      BY <1>0 DEF Lease
    <3> QED
      BY <3>1 DEF TypeOK
  <2> QED
    BY <2>1, <2>2, <2>3 DEF Lease, TypeOK, refreshVars, activeVars
<1>2. RequestsHold'
  BY <1>0, NoneAssumption DEF Lease, RequestsHold, TypeOK
<1>3. LeasesExact'
  <2>1. repository # None
    BY <1>0, NoneAssumption
  <2> QED
    BY <1>0, <2>1, LeaseCounts DEF Lease
<1>4. RefreshKnows'
  BY DEF Lease, RefreshKnows, refreshVars
<1>5. RevisionsHold'
  BY <1>0, NoneAssumption DEF Lease, RevisionsHold, TypeOK, activeVars
<1>6. DatabasesHold'
  <2>1. ASSUME NEW p \in Repos PROVE Holders(p) \subseteq Holders(p)'
    BY <1>0, NoneAssumption DEF Lease, TypeOK, Holders
  <2>2. ASSUME NEW p \in open PROVE p = repository \/ (p \in retired /\ Holders(p)' # {})
    BY <2>1 DEF DatabasesHold, TypeOK
  <2>3. ASSUME NEW q \in Requests, holds'[q] # None
        PROVE  holds'[q] \in retired \cup {repository}
    BY <1>0, <2>3 DEF Lease, DatabasesHold, TypeOK
  <2> QED
    BY <2>2, <2>3 DEF Lease, DatabasesHold, activeVars
<1>7. StartedServes'
  BY <1>0 DEF Lease, StartedServes, TypeOK, activeVars
<1>8. UrlBacksRepository'
  <2>1. \A q \in Requests \ {r} :
            request'[q] = request[q] /\ url'[q] = url[q] /\ holds'[q] = holds[q]
    BY DEF Lease, TypeOK
  <2>2. url'[r] = activeUrl /\ holds'[r] = repository
    BY DEF Lease, TypeOK
  <2>3. UNCHANGED <<repository, activeUrl, made>>
    BY DEF Lease, activeVars
  <2> QED
    BY <1>0, <2>1, <2>2, <2>3, NoneAssumption DEF UrlBacksRepository
<1>9. FingerprintIsServed'
  BY DEF Lease, FingerprintIsServed, activeVars
<1> QED
  BY <1>1, <1>2, <1>3, <1>4, <1>5, <1>6, <1>7, <1>8, <1>9

LEMMA EndPageStep ==
    ASSUME IInv, NEW r \in Requests, EndPage(r),
           sourceKind' = sourceKind
    PROVE  IInv'
<1> USE DEF IInv
<1>0. /\ request[r] \in {"page", "files"} /\ holds[r] = None
      /\ UNCHANGED <<activeVars, leaseVars, holds, refreshVars, runtime, published, lastError>>
  <2>1. request[r] \in {"page", "files"} /\ holds[r] = None
    BY DEF EndPage, RequestsHold
  <2>2. holds' = holds
    BY <2>1 DEF EndPage, End, TypeOK
  <2> QED
    BY <2>1, <2>2 DEF EndPage
<1>1. TypeOK'
  <2>1. /\ request' \in [Requests -> {"idle", "waiting", "ready", "stac", "page", "files"}]
        /\ url' \in [Requests -> Revisions \cup {None}]
        /\ data' \in [Requests -> SUBSET Revisions]
    BY DEF EndPage, End, TypeOK
  <2> QED
    BY <1>0, <2>1 DEF TypeOK, activeVars, leaseVars, refreshVars
<1>2. RequestsHold' /\ LeasesExact' /\ RevisionsHold' /\ DatabasesHold'
      /\ UrlBacksRepository' /\ FingerprintIsServed'
  <2>1. \A q \in Requests : request'[q] = "stac" <=> request[q] = "stac"
    BY <1>0 DEF EndPage, End, TypeOK
  <2>2. \A q \in Requests : request[q] = "stac" => url'[q] = url[q]
    BY <1>0 DEF EndPage, End, TypeOK
  <2> QED
    BY <1>0, <2>1, <2>2, CatalogFrame
<1>3. RefreshKnows'
  BY <1>0 DEF RefreshKnows, refreshVars
<1>4. StartedServes'
  BY <1>0 DEF EndPage, End, StartedServes, TypeOK, activeVars
<1> QED
  BY <1>1, <1>2, <1>3, <1>4

LEMMA ReleaseStep ==
    ASSUME IInv, NEW r \in Requests, Release(r),
           sourceKind' = sourceKind
    PROVE  IInv'
<1> USE DEF IInv
<1>1. request[r] = "stac" /\ holds[r] # None
  BY DEF Release, RequestsHold
<1>2. PICK h \in Repos : holds[r] = h
  BY <1>1 DEF TypeOK
<1>3. /\ h # None
      /\ holds' = [holds EXCEPT ![r] = None]
      /\ leases' = [leases EXCEPT ![h] = @ - 1]
      /\ UNCHANGED <<activeVars, refreshVars, runtime, published, lastError>>
  BY <1>2, NoneAssumption DEF Release, End
<1>4. /\ LeasesExact'
      /\ leases' \in [Repos -> Nat]
      /\ Holders(h)' = Holders(h) \ {r}
      /\ leases[h] = 1 <=> Holders(h) \ {r} = {}
      /\ \A p \in Repos : p # h => Holders(p)' = Holders(p)
  BY <1>2, <1>3, ReleaseCounts
<1>5. IF leases[h] = 1 /\ h \in retired
      THEN retired' = retired \ {h} /\ open' = open \ {h}
      ELSE UNCHANGED <<retired, open>>
  BY <1>2 DEF Release
<1>6. TypeOK'
  <2>1. /\ request' \in [Requests -> {"idle", "waiting", "ready", "stac", "page", "files"}]
        /\ url' \in [Requests -> Revisions \cup {None}]
        /\ data' \in [Requests -> SUBSET Revisions]
        /\ holds' \in [Requests -> Repos \cup {None}]
    BY DEF Release, End, TypeOK
  <2>2. retired' \subseteq Repos /\ open' \subseteq Repos
    BY <1>5 DEF TypeOK
  <2> QED
    BY <1>3, <1>4, <2>1, <2>2 DEF TypeOK, activeVars, refreshVars
<1>7. RequestsHold'
  BY <1>1 DEF Release, End, RequestsHold, TypeOK
<1>8. RefreshKnows'
  BY <1>3 DEF RefreshKnows, refreshVars
<1>9. RevisionsHold'
  BY <1>3 DEF RevisionsHold, activeVars, TypeOK
<1>10. DatabasesHold'
  <2>1. repository' # None => repository' \in open'
    BY <1>3, <1>5 DEF DatabasesHold, activeVars
  <2>2. retired' \subseteq open' \ {repository'}
    BY <1>3, <1>5 DEF DatabasesHold, activeVars
  <2>3. ASSUME NEW q \in Requests, holds'[q] # None
        PROVE  holds'[q] \in retired' \cup {repository'}
    <3>1. q # r /\ holds'[q] = holds[q] /\ holds[q] \in retired \cup {repository}
      BY <1>3, <2>3 DEF DatabasesHold, TypeOK
    <3>2. CASE holds[q] = h
      <4>1. Holders(h) \ {r} # {}
        BY <3>1, <3>2 DEF Holders
      <4> QED
        BY <1>3, <1>4, <1>5, <3>1, <4>1 DEF activeVars
    <3>3. CASE holds[q] # h
      BY <1>3, <1>5, <3>1, <3>3 DEF activeVars
    <3> QED
      BY <3>2, <3>3
  <2>4. ASSUME NEW p \in open' PROVE p = repository' \/ (p \in retired' /\ Holders(p)' # {})
    <3>1. p \in Repos /\ p \in open /\ (p = repository \/ (p \in retired /\ Holders(p) # {}))
      BY <1>5 DEF DatabasesHold, TypeOK
    <3>2. CASE p = repository
      BY <1>3, <3>2 DEF activeVars
    <3>3. CASE p # repository /\ p # h
      BY <1>3, <1>4, <1>5, <3>1, <3>3 DEF activeVars
    <3>4. CASE p # repository /\ p = h
      BY <1>3, <1>4, <1>5, <3>1, <3>4 DEF activeVars
    <3> QED
      BY <3>2, <3>3, <3>4
  <2> QED
    BY <2>1, <2>2, <2>3, <2>4 DEF DatabasesHold
<1>11. StartedServes'
  BY <1>1, <1>3 DEF Release, End, StartedServes, TypeOK, activeVars
<1>12. UrlBacksRepository'
  <2>1. ASSUME NEW q \in Requests, request'[q] = "stac"
        PROVE  request[q] = "stac" /\ url'[q] = url[q] /\ holds'[q] = holds[q]
    BY <2>1 DEF Release, End, TypeOK
  <2> QED
    BY <1>3, <2>1 DEF UrlBacksRepository, activeVars
<1>13. FingerprintIsServed'
  BY <1>3 DEF FingerprintIsServed, activeVars
<1> QED
  BY <1>4, <1>6, <1>7, <1>8, <1>9, <1>10, <1>11, <1>12, <1>13

LEMMA ActivateStep ==
    ASSUME IInv, Activate,
           sourceKind' = sourceKind
    PROVE  IInv'
<1> USE DEF IInv
<1>1. PICK p \in Repos : IsFree(p) /\ Replace(p)
  BY DEF Activate
<1>2. /\ p # None /\ p # repository /\ p \notin open
      /\ \A r \in Requests : holds[r] # p
      /\ repository' = p /\ made' = [made EXCEPT ![p] = copied]
      /\ copied \in Revisions /\ seen \in Revisions
  BY <1>1, NoneAssumption DEF IsFree, Replace, Activate, RefreshKnows, TypeOK
<1>3. /\ UNCHANGED <<leases, holds, url, data, published>>
      /\ step' = "idle" /\ seen' = None /\ copied' = None
      /\ fingerprint' = seen /\ lastError' = FALSE
      /\ activeUrl' = IF sourceKind = "pointer" THEN seen ELSE None
  BY DEF Activate, EndRefresh
<1>4. /\ runtime' = IF runtime = "starting" THEN "started" ELSE runtime
      /\ request' \in [Requests -> {"idle", "waiting", "ready", "stac", "page", "files"}]
      /\ \A r \in Requests : request'[r] # request[r] =>
             runtime' = "started" /\ request[r] = "waiting" /\ request'[r] = "ready"
  BY DEF Activate, EndRefresh, EndStart, TypeOK
<1>5. IF repository # None /\ leases[repository] > 0
      THEN retired' = retired \cup {repository} /\ open' = open \cup {p}
      ELSE open' = (open \ {repository}) \cup {p} /\ UNCHANGED retired
  BY <1>1 DEF Replace
<1>6. \A q : Holders(q)' = Holders(q)
  BY <1>3 DEF Holders
<1>7. made'[p] = copied /\ \A q \in Repos \ {p} : made'[q] = made[q]
  BY <1>2 DEF TypeOK
<1>8. TypeOK'
  <2>1. /\ made' \in [Repos -> Revisions \cup {None}]
        /\ retired' \subseteq Repos /\ open' \subseteq Repos
    BY <1>2, <1>5 DEF TypeOK
  <2>2. runtime' \in {"stopped", "starting", "started"}
    BY <1>4 DEF TypeOK
  <2> QED
    BY <1>2, <1>3, <1>4, <2>1, <2>2 DEF TypeOK
<1>9. RequestsHold'
  BY <1>3, <1>4 DEF RequestsHold
<1>10. LeasesExact'
  BY <1>3, <1>6 DEF LeasesExact
<1>11. RefreshKnows'
  BY <1>3 DEF RefreshKnows
<1>12. RevisionsHold'
  <2>1. made'[repository'] # None
    BY <1>2, <1>7, NoneAssumption
  <2>2. ASSUME NEW r \in Requests, holds'[r] # None PROVE made'[holds'[r]] # None
    BY <1>2, <1>3, <1>7, <2>2 DEF RevisionsHold, TypeOK
  <2> QED
    BY <2>1, <2>2 DEF RevisionsHold
<1>13. DatabasesHold'
  <2>0. repository # None => (leases[repository] > 0 <=> Holders(repository) # {})
    BY NoLeaseNoHolder DEF TypeOK
  <2>1. repository' \in open' /\ retired' \subseteq open' \ {repository'}
    BY <1>2, <1>5 DEF DatabasesHold
  <2>2. ASSUME NEW r \in Requests, holds'[r] # None
        PROVE  holds'[r] \in retired' \cup {repository'}
    <3>1. holds[r] # None /\ holds'[r] = holds[r] /\ holds[r] \in retired \cup {repository}
      BY <1>3, <2>2 DEF DatabasesHold
    <3>2. r \in Holders(holds[r])
      BY DEF Holders
    <3> QED
      BY <1>5, <2>0, <3>1, <3>2
  <2>3. ASSUME NEW q \in open', q # p PROVE q \in retired' /\ Holders(q)' # {}
    <3>1. q \in open /\ (q = repository \/ (q \in retired /\ Holders(q) # {}))
      BY <1>5, <2>3 DEF DatabasesHold
    <3>2. q = repository => repository # None
      BY <3>1, NoneAssumption DEF TypeOK
    <3> QED
      BY <1>5, <1>6, <2>0, <2>3, <3>1, <3>2
  <2> QED
    BY <1>2, <2>1, <2>2, <2>3 DEF DatabasesHold
<1>14. StartedServes'
  BY <1>2, <1>4 DEF StartedServes
<1>15. UrlBacksRepository'
  <2> SUFFICES ASSUME sourceKind = "pointer"
               PROVE  /\ activeUrl' = made'[repository']
                      /\ \A r \in Requests : request'[r] = "stac" => url'[r] = made'[holds'[r]]
    BY DEF UrlBacksRepository
  <2>1. activeUrl' = made'[repository']
    BY <1>2, <1>3, <1>7 DEF RefreshKnows, Activate
  <2>2. ASSUME NEW r \in Requests, request'[r] = "stac" PROVE url'[r] = made'[holds'[r]]
    <3>1. request[r] = "stac" /\ holds[r] \in Repos \ {p}
      BY <1>2, <1>4, <2>2 DEF RequestsHold, TypeOK
    <3> QED
      BY <1>3, <1>7, <3>1 DEF UrlBacksRepository
  <2> QED
    BY <2>1, <2>2
<1>16. FingerprintIsServed'
  BY <1>2, <1>3, <1>7 DEF FingerprintIsServed, RefreshKnows, Activate
<1> QED
  BY <1>8, <1>9, <1>10, <1>11, <1>12, <1>13, <1>14, <1>15, <1>16

-----------------------------------------------------------------------------
(* The invariant, and what it gives.                                       *)

LEMMA InitInvariant == Init => IInv
<1> SUFFICES ASSUME Init PROVE IInv
  OBVIOUS
<1> USE DEF Init
<1>1. TypeOK
  BY DEF TypeOK
<1>2. RequestsHold /\ RefreshKnows /\ RevisionsHold
  BY DEF RequestsHold, RefreshKnows, RevisionsHold
<1>3. LeasesExact
  <2>1. \A p \in Repos : Holders(p) = {}
    BY NoneAssumption DEF Holders
  <2>2. Cardinality({}) = 0
    BY FS_EmptySet
  <2> QED
    BY <2>1, <2>2 DEF LeasesExact
<1>4. DatabasesHold
  BY DEF DatabasesHold
<1>5. StartedServes /\ UrlBacksRepository /\ FingerprintIsServed
  BY DEF StartedServes, UrlBacksRepository, FingerprintIsServed
<1> QED
  BY <1>1, <1>2, <1>3, <1>4, <1>5 DEF IInv

LEMMA NextInvariant == IInv /\ [Next]_vars => IInv'
<1> SUFFICES ASSUME IInv, [Step]_server, sourceKind' = sourceKind PROVE IInv'
  BY DEF Next, vars
<1>1. CASE Publish \/ TimerFires \/ SourceAnswers \/ Written
  BY <1>1, WaitStep
<1>2. CASE Unchanged
  BY <1>2, EndRefreshStep DEF Unchanged, IInv, TypeOK
<1>3. CASE RefreshFails
  BY <1>3, EndRefreshStep DEF RefreshFails
<1>4. CASE Activate
  BY <1>4, ActivateStep
<1>5. CASE \E r \in Requests : Arrive(r) \/ ReadDataset(r) \/ ReadFiles(r)
  BY <1>5, RequestStep
<1>6. CASE \E r \in Requests : Lease(r)
  BY <1>6, LeaseStep
<1>7. CASE \E r \in Requests : Release(r)
  BY <1>7, ReleaseStep
<1>8. CASE \E r \in Requests : EndPage(r)
  BY <1>8, EndPageStep
<1>9. CASE UNCHANGED server
  <2> USE <1>9 DEF server, refreshVars, activeVars, leaseVars, requestVars, IInv
  <2>1. RequestsHold' /\ LeasesExact' /\ RevisionsHold' /\ DatabasesHold'
        /\ UrlBacksRepository' /\ FingerprintIsServed'
    BY CatalogFrame
  <2>2. TypeOK'
    BY DEF TypeOK
  <2>3. RefreshKnows' /\ StartedServes'
    BY DEF RefreshKnows, StartedServes
  <2> QED
    BY <2>1, <2>2, <2>3
<1> QED
  BY <1>1, <1>2, <1>3, <1>4, <1>5, <1>6, <1>7, <1>8, <1>9 DEF Step, Refresh

LEMMA Invariant == Spec => []IInv
  BY InitInvariant, NextInvariant, PTL DEF Spec

\* Every variable keeps its type.
THEOREM TypeCorrect == Spec => []TypeOK
<1>1. IInv => TypeOK
  BY DEF IInv
<1> QED
  BY <1>1, Invariant, PTL

\* A repository's lease count is the number of requests inside withSnapshot.
THEOREM LeasesAreExact == Spec => []LeasesExact
<1>1. IInv => LeasesExact
  BY DEF IInv
<1> QED
  BY <1>1, Invariant, PTL

\* No activation closes a database under a request, and every database that
\* nobody uses any more is closed, once.
THEOREM DatabasesFollowUse == Spec => []OpenIffUsed
<1>1. IInv => UsedRepositoriesOpen
  BY NoneAssumption DEF IInv, DatabasesHold, UsedRepositoriesOpen, Holders, TypeOK
<1>2. IInv => NoOpenLeftovers
  BY DEF IInv, DatabasesHold, NoOpenLeftovers
<1> QED
  BY <1>1, <1>2, Invariant, PTL DEF OpenIffUsed

\* The catalog URL and the repository are always of one revision, also for the
\* whole of a STAC request.
THEOREM UrlAndRepositoryAgree == Spec => []UrlBacksRepository
<1>1. IInv => UrlBacksRepository
  BY DEF IInv
<1> QED
  BY <1>1, Invariant, PTL

\* Polls compare the source with the revision that is really served.
THEOREM FingerprintsAgree == Spec => []FingerprintIsServed
<1>1. IInv => FingerprintIsServed
  BY DEF IInv
<1> QED
  BY <1>1, Invariant, PTL

\* The leases of a repository are counted exactly, and it is open as long as they
\* last or it is active.
THEOREM LeasesKeepOpen == Spec => []LeasesKeepDatabases
<1>1. LeasesExact /\ OpenIffUsed => LeasesKeepDatabases
  BY DEF LeasesKeepDatabases
<1> QED
  BY <1>1, LeasesAreExact, DatabasesFollowUse, PTL

\* URL and fingerprint are of the revision that is served.
THEOREM RevisionsDoAgree == Spec => []RevisionsAgree
<1>1. UrlBacksRepository /\ FingerprintIsServed => RevisionsAgree
  BY DEF RevisionsAgree
<1> QED
  BY <1>1, UrlAndRepositoryAgree, FingerprintsAgree, PTL

\* No handler runs without an active repository.
THEOREM HandlersFindRepository == Spec => []StartedServes
<1>1. IInv => StartedServes
  BY DEF IInv
<1> QED
  BY <1>1, Invariant, PTL

-----------------------------------------------------------------------------
(* What answers are made of.                                               *)

\* A STAC answer is made of the repository it leases, a page of one revision per read.
AnswersHold ==
    \A r \in Requests :
        /\ request[r] \in {"idle", "waiting", "ready"} => data[r] = {}
        /\ request[r] = "stac" => data[r] = {made[holds[r]]}
        /\ request[r] = "page" => \E v \in Revisions : data[r] = {v}
        /\ request[r] = "files" => \E v, w \in Revisions : data[r] = {v, w}

LEMMA AnswersStep == IInv /\ AnswersHold /\ [Next]_vars => AnswersHold'
<1> SUFFICES ASSUME IInv, AnswersHold, [Step]_server PROVE AnswersHold'
  BY DEF Next, vars
<1>0. /\ TypeOK /\ RequestsHold /\ RevisionsHold
      /\ \A r \in Requests : request[r] = "ready" => repository # None
  BY DEF IInv, StartedServes
<1>1. CASE Activate
  <2>1. PICK p \in Repos : IsFree(p) /\ made' = [made EXCEPT ![p] = copied]
    BY <1>1 DEF Activate, Replace
  <2>2. ASSUME NEW r \in Requests, holds[r] # None PROVE made'[holds[r]] = made[holds[r]]
    BY <1>0, <2>1, <2>2 DEF IsFree, TypeOK
  <2>3. UNCHANGED <<holds, data>> /\ EndStart(TRUE)
    BY <1>1 DEF Activate, EndRefresh
  <2>4. ASSUME NEW r \in Requests
        PROVE  \/ request'[r] = request[r]
               \/ request[r] = "waiting" /\ request'[r] \in {"ready", "idle"}
    BY <1>0, <2>3 DEF EndStart, TypeOK
  <2> QED
    BY <1>0, <2>2, <2>3, <2>4 DEF AnswersHold, RequestsHold
<1>2. CASE Unchanged \/ RefreshFails
  <2>1. UNCHANGED <<holds, data, made>> /\ EndStart(FALSE)
    BY <1>2 DEF Unchanged, RefreshFails, EndRefresh, activeVars
  <2>2. ASSUME NEW r \in Requests
        PROVE  \/ request'[r] = request[r]
               \/ request[r] = "waiting" /\ request'[r] \in {"ready", "idle"}
    BY <1>0, <2>1 DEF EndStart, TypeOK
  <2> QED
    BY <2>1, <2>2 DEF AnswersHold
<1>3. ASSUME NEW r \in Requests, Arrive(r) PROVE AnswersHold'
  <2>1. /\ request[r] = "idle" /\ UNCHANGED <<holds, data, made>>
        /\ \E place \in {"ready", "waiting"} : request' = [request EXCEPT ![r] = place]
    BY <1>3 DEF Arrive, activeVars
  <2> QED
    BY <1>0, <2>1 DEF AnswersHold, TypeOK
<1>4. ASSUME NEW r \in Requests, Lease(r) PROVE AnswersHold'
  <2>1. /\ request' = [request EXCEPT ![r] = "stac"]
        /\ holds' = [holds EXCEPT ![r] = repository]
        /\ data' = [data EXCEPT ![r] = {made[repository]}]
        /\ made' = made
    BY <1>4 DEF Lease, activeVars
  <2> QED
    BY <1>0, <2>1 DEF AnswersHold, TypeOK
<1>5. ASSUME NEW r \in Requests, Release(r) \/ EndPage(r) PROVE AnswersHold'
  <2>1. /\ request' = [request EXCEPT ![r] = "idle"]
        /\ holds' = [holds EXCEPT ![r] = None]
        /\ data' = [data EXCEPT ![r] = {}]
        /\ made' = made
    BY <1>5 DEF Release, EndPage, End, activeVars
  <2> QED
    BY <1>0, <2>1 DEF AnswersHold, TypeOK
<1>6. ASSUME NEW r \in Requests, ReadDataset(r) \/ ReadFiles(r) PROVE AnswersHold'
  <2>1. made[repository] \in Revisions
    <3>1. request[r] \notin {"idle", "waiting"}
      BY <1>6 DEF ReadDataset, ReadFiles
    <3>2. repository # None
      BY <3>1 DEF IInv, StartedServes
    <3> QED
      BY <1>0, <3>2 DEF RevisionsHold, TypeOK
  <2>2. UNCHANGED <<holds, made>>
    BY <1>6 DEF ReadDataset, ReadFiles, activeVars
  <2>3. CASE ReadDataset(r)
    <3>1. /\ request' = [request EXCEPT ![r] = "page"]
          /\ data' = [data EXCEPT ![r] = {made[repository]}]
      BY <2>3 DEF ReadDataset
    <3> QED
      BY <1>0, <2>1, <2>2, <3>1 DEF AnswersHold, TypeOK
  <2>4. CASE ReadFiles(r)
    <3>1. /\ request[r] = "page" /\ request' = [request EXCEPT ![r] = "files"]
          /\ data' = [data EXCEPT ![r] = @ \cup {made[repository]}]
      BY <2>4 DEF ReadFiles
    <3>2. PICK v \in Revisions : data[r] = {v}
      BY <3>1 DEF AnswersHold
    <3>3. data'[r] = {v, made[repository]}
      BY <1>0, <3>1, <3>2 DEF TypeOK
    <3>4. ASSUME NEW q \in Requests \ {r} PROVE request'[q] = request[q] /\ data'[q] = data[q]
      BY <1>0, <3>1, <3>4 DEF TypeOK
    <3>5. request'[r] = "files"
      BY <1>0, <3>1 DEF TypeOK
    <3> QED
      BY <2>1, <2>2, <3>3, <3>4, <3>5 DEF AnswersHold
  <2> QED
    BY <1>6, <2>3, <2>4
<1>7. CASE Publish \/ TimerFires \/ SourceAnswers \/ Written \/ UNCHANGED server
  <2>1. UNCHANGED <<request, holds, data, made>>
    BY <1>7 DEF Publish, TimerFires, SourceAnswers, Written, server, requestVars, activeVars
  <2> QED
    BY <2>1 DEF AnswersHold
<1> QED
  BY <1>1, <1>2, <1>3, <1>4, <1>5, <1>6, <1>7 DEF Step, Refresh

\* However many refreshes activate other repositories meanwhile, a STAC answer is made of
\* the one revision its lease began with; only a page, which leases for each read, may
\* combine revisions, as the finding about it shows, and never more than it reads.
THEOREM StacAnswersAreOfTheirLease == Spec => []AnswersHold
<1>1. Init => AnswersHold
  BY DEF Init, AnswersHold
<1> QED
  BY <1>1, AnswersStep, Invariant, PTL DEF Spec

-----------------------------------------------------------------------------
(* Requests that wait for the start.                                       *)

\* The start is under way while requests wait for it, and nothing refreshes a runtime
\* that is stopped.
StartHolds ==
    /\ \A r \in Requests : request[r] = "waiting" => runtime = "starting"
    /\ runtime = "starting" => step # "idle"
    /\ runtime = "stopped" => step = "idle"

LEMMA StartStep == TypeOK /\ StartHolds /\ [Next]_vars => StartHolds'
<1> SUFFICES ASSUME TypeOK, StartHolds, [Step]_server PROVE StartHolds'
  BY DEF Next, vars
<1>0. /\ request \in [Requests -> {"idle", "waiting", "ready", "stac", "page", "files"}]
      /\ runtime \in {"stopped", "starting", "started"}
  BY DEF TypeOK
<1>1. ASSUME NEW succeeded \in BOOLEAN, EndRefresh(succeeded) PROVE StartHolds'
  BY <1>0, <1>1 DEF EndRefresh, EndStart, StartHolds
<1>2. CASE Unchanged \/ Activate \/ RefreshFails
  BY <1>1, <1>2 DEF Unchanged, Activate, RefreshFails
<1>3. CASE TimerFires \/ SourceAnswers \/ Written
  BY <1>3 DEF TimerFires, SourceAnswers, Written, requestVars, StartHolds
<1>4. ASSUME NEW r \in Requests, Arrive(r) PROVE StartHolds'
  BY <1>0, <1>4 DEF Arrive, StartHolds
<1>5. ASSUME NEW r \in Requests, NEW pc \in {"idle", "stac", "page", "files"},
             request' = [request EXCEPT ![r] = pc], UNCHANGED <<runtime, refreshVars>>
      PROVE  StartHolds'
  BY <1>0, <1>5 DEF StartHolds, refreshVars
<1>6. CASE \E r \in Requests :
              Lease(r) \/ Release(r) \/ ReadDataset(r) \/ ReadFiles(r) \/ EndPage(r)
  BY <1>5, <1>6 DEF Lease, Release, ReadDataset, ReadFiles, EndPage, End
<1>7. CASE Publish \/ UNCHANGED server
  BY <1>7 DEF Publish, server, refreshVars, requestVars, StartHolds
<1> QED
  BY <1>2, <1>3, <1>4, <1>6, <1>7 DEF Step, Refresh

\* No request waits for a start that is over: however a start fails and whoever joins it
\* meanwhile, a refresh that will answer the waiting requests is under way.  What
\* WaitingEnds adds, that it ends, is checked.
THEOREM WaitsAreForTheStart == Spec => []StartHolds
<1>1. Init => StartHolds
  BY DEF Init, StartHolds
<1>2. TypeOK /\ StartHolds /\ [Next]_vars => StartHolds'
  BY StartStep
<1> QED
  BY <1>1, <1>2, TypeCorrect, PTL DEF Spec

-----------------------------------------------------------------------------
(* The refinement of SnapshotService.                                      *)

\* The open databases are those in use.
LEMMA OpenIsInUse == IInv => open = Service!InUse
<1> SUFFICES ASSUME IInv PROVE open = Service!InUse
  OBVIOUS
<1>1. open \subseteq Service!InUse
  BY NoneAssumption DEF IInv, DatabasesHold, Holders, TypeOK, Service!InUse
<1>2. Service!InUse \subseteq open
  BY DEF IInv, DatabasesHold, TypeOK, Service!InUse
<1> QED
  BY <1>1, <1>2

LEMMA OpenIsInUseNext == IInv' => open' = Service!InUse'
<1>1. (IInv => open = Service!InUse)'
  BY OpenIsInUse, PTL
<1> QED
  BY <1>1

LEMMA InitMapped == Init => Service!Init
BY DEF Init, Service!Init

LEMMA StepMapped == IInv /\ IInv' /\ [Next]_vars => [Service!Next]_(Service!vars)
<1> SUFFICES ASSUME IInv, IInv', [Step]_server PROVE [Service!Next]_(Service!vars)
  BY DEF Next, vars
<1>0. open' = Service!InUse'
  BY OpenIsInUseNext
<1>1. ASSUME UNCHANGED <<repository, holds, open>> PROVE UNCHANGED Service!vars
  BY <1>1 DEF Service!vars
<1>2. CASE Activate
  <2>1. PICK p \in Repos : IsFree(p) /\ Replace(p)
    BY <1>2 DEF Activate
  <2>2. p \notin open /\ repository' = p /\ UNCHANGED holds
    BY <1>2, <2>1 DEF IsFree, Replace, Activate
  <2>3. Service!Swap
    BY <1>0, <2>2 DEF Service!Swap
  <2> QED
    BY <2>3 DEF Service!Next
<1>3. CASE \E r \in Requests : Lease(r)
  <2>1. PICK r \in Requests : Lease(r)
    BY <1>3
  <2>2. holds[r] = None /\ repository # None
    BY <2>1, NoneAssumption DEF IInv, Lease, RequestsHold, StartedServes, TypeOK
  <2>3. Service!Enter(r)
    BY <2>1, <2>2 DEF Service!Enter, Lease, activeVars
  <2> QED
    BY <2>3 DEF Service!Next
<1>4. CASE \E r \in Requests : Release(r)
  <2>1. PICK r \in Requests : Release(r)
    BY <1>4
  <2>2. holds[r] # None
    BY <2>1 DEF IInv, Release, RequestsHold
  <2>3. Service!Leave(r)
    BY <1>0, <2>1, <2>2 DEF Service!Leave, Release, End, activeVars
  <2> QED
    BY <2>3 DEF Service!Next
<1>5. CASE \E r \in Requests : EndPage(r)
  <2>1. PICK r \in Requests : EndPage(r)
    BY <1>5
  <2>2. holds[r] = None /\ holds' = [holds EXCEPT ![r] = None]
    BY <2>1 DEF IInv, EndPage, End, RequestsHold
  <2>3. holds' = holds
    BY <2>2 DEF IInv, TypeOK
  <2> QED
    BY <1>1, <2>1, <2>3 DEF EndPage, activeVars, leaseVars
<1>6. CASE \E r \in Requests : Arrive(r) \/ ReadDataset(r) \/ ReadFiles(r)
  BY <1>1, <1>6 DEF Arrive, ReadDataset, ReadFiles, activeVars, leaseVars
<1>7. CASE Publish \/ TimerFires \/ SourceAnswers \/ Written \/ Unchanged \/ RefreshFails
  BY <1>1, <1>7 DEF Publish, TimerFires, SourceAnswers, Written, Unchanged, RefreshFails,
     activeVars, leaseVars, requestVars
<1>8. CASE UNCHANGED server
  BY <1>1, <1>8 DEF server, activeVars, leaseVars, requestVars
<1> QED
  BY <1>2, <1>3, <1>4, <1>5, <1>6, <1>7, <1>8 DEF Step, Refresh

\* Whatever the webapp's catalog does is what a snapshot service may do.
THEOREM Implements == Spec => ImplementsService
<1>1. Spec => []IInv
  BY Invariant
<1> QED
  BY <1>1, InitMapped, StepMapped, PTL DEF Spec, ImplementsService, Service!Spec
=============================================================================

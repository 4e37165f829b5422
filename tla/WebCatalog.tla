----------------------------- MODULE WebCatalog -----------------------------
(***************************************************************************)
(* The catalog of the webapp: CatalogLifecycle copies a published SQLite   *)
(* catalog, opens it and leases it to requests, catalog-runtime starts it  *)
(* on the first request and refreshes it by a timer, and the handlers of   *)
(* STAC routes and of catalog pages read it                                *)
(* (webapp/src/lib/catalog-repository.ts, catalog-runtime.ts,              *)
(* api-client.ts, routes/stac).                                            *)
(*                                                                         *)
(* JavaScript runs one callback at a time, with all the promise            *)
(* continuations that need no I/O: an action is what runs between two      *)
(* waits for a file, a response or a timer.  A revision is one published   *)
(* state of the source and its number the order of publication; rollbacks  *)
(* publish an old one.  The SQLite reads of a repository need no waiting.  *)
(***************************************************************************)
EXTENDS Integers, FiniteSets, TLC

CONSTANTS
    Revisions,    \* numbers of published states
    Repos,        \* identities of repository objects
    Requests,     \* concurrent HTTP requests
    None

ASSUME RevisionsAssumption == Revisions \subseteq Nat
ASSUME NoneAssumption == None \notin Revisions /\ None \notin Repos
ASSUME RequestsAssumption == IsFiniteSet(Requests)

VARIABLES
    sourceKind,    \* what CATALOG_* configures; never changes
    published,     \* the revision the source holds
    step,          \* where refresh is suspended
    seen,          \* the revision this refresh has been told of
    copied,        \* the revision in its candidate file
    repository, fingerprint, activeUrl,
    lastError,     \* whether it is set
    leases, retired,
    made,          \* the revision a repository was opened on
    open,          \* repositories whose database is open
    runtime,       \* "stopped", "starting" or "started"
    request,       \* where each request is
    holds,         \* the repository it leases
    url,           \* the catalog URL it captured
    data           \* the revisions its data came from so far

refreshVars == <<step, seen, copied>>
activeVars  == <<repository, fingerprint, activeUrl, made>>
leaseVars   == <<leases, retired, open>>
requestVars == <<request, holds, url, data>>
server == <<published, refreshVars, activeVars, lastError, leaseVars, runtime, requestVars>>
vars == <<sourceKind, server>>

TypeOK ==
    /\ sourceKind \in {"file", "url", "pointer"}
    /\ published \in Revisions
    /\ step \in {"idle", "source", "writing", "renaming"}
    /\ seen \in Revisions \cup {None}
    /\ copied \in Revisions \cup {None}
    /\ repository \in Repos \cup {None}
    /\ fingerprint \in Revisions \cup {None}
    /\ activeUrl \in Revisions \cup {None}
    /\ lastError \in BOOLEAN
    /\ leases \in [Repos -> Nat]
    /\ retired \subseteq Repos
    /\ made \in [Repos -> Revisions \cup {None}]
    /\ open \subseteq Repos
    /\ runtime \in {"stopped", "starting", "started"}
    /\ request \in [Requests -> {"idle", "waiting", "ready", "stac", "page", "files"}]
    /\ holds \in [Requests -> Repos \cup {None}]
    /\ url \in [Requests -> Revisions \cup {None}]
    /\ data \in [Requests -> SUBSET Revisions]

Init ==
    /\ sourceKind \in {"file", "url", "pointer"}
    /\ published \in Revisions
    /\ step = "idle" /\ seen = None /\ copied = None
    /\ repository = None /\ fingerprint = None /\ activeUrl = None
    /\ lastError = FALSE
    /\ leases = [p \in Repos |-> 0]
    /\ retired = {}
    /\ made = [p \in Repos |-> None]
    /\ open = {}
    /\ runtime = "stopped"
    /\ request = [r \in Requests |-> "idle"]
    /\ holds = [r \in Requests |-> None]
    /\ url = [r \in Requests |-> None]
    /\ data = [r \in Requests |-> {}]

\* Publication, or a rollback; a file's size and mtime do not come back.
Publish ==
    /\ \E e \in Revisions \ {published} :
          /\ sourceKind = "file" => e > published
          /\ published' = e
    /\ UNCHANGED <<refreshVars, activeVars, lastError, leaseVars, runtime, requestVars>>

-----------------------------------------------------------------------------
(* CatalogLifecycle.refresh.  The first one is start's: its end answers the *)
(* requests that wait for it.                                              *)

\* refresh is called by the timer; a refresh under way is shared.
TimerFires ==
    /\ runtime = "started"
    /\ step = "idle"
    /\ step' = "source"
    /\ UNCHANGED <<published, seen, copied, activeVars, lastError, leaseVars, runtime,
                   requestVars>>

\* Mutant: a failed start stays on record as starting.
EndStartStuck(succeeded) ==
    IF runtime = "starting" /\ succeeded
    THEN /\ runtime' = "started"
         /\ request' = [r \in Requests |->
                           IF request[r] = "waiting" THEN "ready" ELSE request[r]]
    ELSE UNCHANGED <<runtime, request>>

\* The waiting requests go on, or are told that the catalog is unavailable.
EndStart(succeeded) ==
    IF runtime = "starting"
    THEN /\ runtime' = IF succeeded THEN "started" ELSE "stopped"
         /\ request' = [r \in Requests |->
                           IF request[r] # "waiting" THEN request[r]
                           ELSE IF succeeded THEN "ready" ELSE "idle"]
    ELSE UNCHANGED <<runtime, request>>

EndRefresh(succeeded) ==
    /\ step' = "idle" /\ seen' = None /\ copied' = None
    /\ EndStart(succeeded)

\* Mutant: the fingerprint is recorded before the candidate is activated.
SourceAnswersEarly ==
    /\ step = "source"
    /\ published # fingerprint \/ repository = None
    /\ seen' = published
    /\ fingerprint' = published
    /\ step' = "writing"
    /\ UNCHANGED <<published, copied, repository, activeUrl, made, lastError, leaseVars,
                   runtime, requestVars>>

\* stat, the release pointer or the HEAD response arrives with a new fingerprint.
SourceAnswers ==
    /\ step = "source"
    /\ published # fingerprint \/ repository = None
    /\ seen' = published
    /\ step' = "writing"
    /\ UNCHANGED <<published, copied, activeVars, lastError, leaseVars, runtime, requestVars>>

\* It arrives with the fingerprint of the active repository.  An earlier error
\* stays on record.
Unchanged ==
    /\ step = "source"
    /\ published = fingerprint /\ repository # None
    /\ EndRefresh(FALSE)
    /\ UNCHANGED <<published, activeVars, lastError, leaseVars, holds, url, data>>

\* The candidate file is complete and valid.  A release is immutable, a download
\* is conditional on the ETag, a file is copied as it is by now.
Written ==
    /\ step = "writing"
    /\ sourceKind = "url" => published = seen
    /\ copied' = IF sourceKind = "pointer" THEN seen ELSE published
    /\ step' = "renaming"
    /\ UNCHANGED <<published, seen, activeVars, lastError, leaseVars, runtime, requestVars>>

IsFree(p) == /\ p \notin open \cup {repository}
             /\ \A r \in Requests : holds[r] # p

\* Mutant: the previous repository is closed under its leases.
ReplaceClosing(p) ==
    /\ repository' = p
    /\ made' = [made EXCEPT ![p] = copied]
    /\ open' = (open \ {repository}) \cup {p}
    /\ UNCHANGED retired

\* Replace the repository; the previous one is closed, or retired while leased.
Replace(p) ==
    /\ repository' = p
    /\ made' = [made EXCEPT ![p] = copied]
    /\ IF repository # None /\ leases[repository] > 0
       THEN retired' = retired \cup {repository} /\ open' = open \cup {p}
       ELSE open' = (open \ {repository}) \cup {p} /\ UNCHANGED retired

\* The candidate has its final name, is opened and becomes the active catalog.
Activate ==
    /\ step = "renaming"
    /\ \E p \in Repos : IsFree(p) /\ Replace(p)
    /\ fingerprint' = seen
    /\ activeUrl' = IF sourceKind = "pointer" THEN seen ELSE None
    /\ lastError' = FALSE
    /\ EndRefresh(TRUE)
    /\ UNCHANGED <<published, leases, holds, url, data>>

\* A failed request or copy, a changed ETag, a wrong length or checksum, an invalid
\* database, a failed rename or open.
RefreshFails ==
    /\ step \in {"source", "writing", "renaming"}
    /\ lastError' = TRUE
    /\ EndRefresh(FALSE)
    /\ UNCHANGED <<published, activeVars, leaseVars, holds, url, data>>

-----------------------------------------------------------------------------
(* Requests.                                                               *)

\* activeCatalogLifecycle: the first request starts the catalog, others join it.
Arrive(r) ==
    /\ request[r] = "idle"
    /\ request' = [request EXCEPT ![r] = IF runtime = "started" THEN "ready" ELSE "waiting"]
    /\ runtime' = IF runtime = "stopped" THEN "starting" ELSE runtime
    /\ step' = IF runtime = "stopped" THEN "source" ELSE step
    /\ UNCHANGED <<published, seen, copied, activeVars, lastError, leaseVars, holds, url, data>>

\* A STAC route reads, and fetches documents, inside withSnapshot.
Lease(r) ==
    /\ request[r] = "ready"
    /\ request' = [request EXCEPT ![r] = "stac"]
    /\ holds' = [holds EXCEPT ![r] = repository]
    /\ url' = [url EXCEPT ![r] = activeUrl]
    /\ data' = [data EXCEPT ![r] = {made[repository]}]
    /\ leases' = [leases EXCEPT ![repository] = @ + 1]
    /\ UNCHANGED <<published, refreshVars, activeVars, lastError, retired, open, runtime>>

End(r) ==
    /\ request' = [request EXCEPT ![r] = "idle"]
    /\ holds' = [holds EXCEPT ![r] = None]
    /\ url' = [url EXCEPT ![r] = None]
    /\ data' = [data EXCEPT ![r] = {}]

\* Mutant: the last lease of a retired repository does not close it.
ReleaseOnly(r) ==
    /\ request[r] = "stac"
    /\ leases' = [leases EXCEPT ![holds[r]] = @ - 1]
    /\ End(r)
    /\ UNCHANGED <<published, refreshVars, activeVars, lastError, retired, open, runtime>>

\* The STAC route answers, or fails; the last lease of a retired repository closes it.
Release(r) ==
    /\ request[r] = "stac"
    /\ leases' = [leases EXCEPT ![holds[r]] = @ - 1]
    /\ IF leases[holds[r]] = 1 /\ holds[r] \in retired
       THEN retired' = retired \ {holds[r]} /\ open' = open \ {holds[r]}
       ELSE UNCHANGED <<retired, open>>
    /\ End(r)
    /\ UNCHANGED <<published, refreshVars, activeVars, lastError, runtime>>

\* getDatasetBySlug reads the dataset and captures the URL, and then fetches its
\* STAC document; the lease of each read ends with the read.
ReadDataset(r) ==
    /\ request[r] = "ready"
    /\ request' = [request EXCEPT ![r] = "page"]
    /\ url' = [url EXCEPT ![r] = activeUrl]
    /\ data' = [data EXCEPT ![r] = {made[repository]}]
    /\ UNCHANGED <<published, refreshVars, activeVars, lastError, leaseVars, runtime, holds>>

\* It goes on with the files and their documents.
ReadFiles(r) ==
    /\ request[r] = "page"
    /\ request' = [request EXCEPT ![r] = "files"]
    /\ url' = [url EXCEPT ![r] = activeUrl]
    /\ data' = [data EXCEPT ![r] = @ \cup {made[repository]}]
    /\ UNCHANGED <<published, refreshVars, activeVars, lastError, leaseVars, runtime, holds>>

\* The page is answered, or a document could not be fetched.
EndPage(r) ==
    /\ request[r] \in {"page", "files"}
    /\ End(r)
    /\ UNCHANGED <<published, refreshVars, activeVars, lastError, leaseVars, runtime>>

Refresh == SourceAnswers \/ Unchanged \/ Written \/ Activate \/ RefreshFails

Step ==
    \/ Publish
    \/ TimerFires
    \/ Refresh
    \/ \E r \in Requests :
          Arrive(r) \/ Lease(r) \/ Release(r) \/ ReadDataset(r) \/ ReadFiles(r) \/ EndPage(r)

\* The configuration is read once, at the start.
Next == Step /\ UNCHANGED sourceKind

Spec == Init /\ [][Next]_vars

\* The timer fires, files and responses arrive or fail (fetch has timeouts), and
\* handlers run to their end.  Nobody is obliged to publish or to ask.
Fairness ==
    /\ WF_server(TimerFires)
    /\ WF_server(Refresh)
    /\ \A r \in Requests : WF_server(Release(r) \/ EndPage(r))

FairSpec == Spec /\ Fairness

-----------------------------------------------------------------------------
(* Properties.                                                             *)

\* The webapp implements the snapshot service: repositories for snapshots.
Service == INSTANCE SnapshotService
               WITH Snapshots <- Repos, active <- repository, users <- holds, alive <- open

ImplementsService == Service!Spec

Holders(p) == {r \in Requests : holds[r] = p}

\* The lease count of a repository is the number of requests inside withSnapshot.
LeasesExact == \A p \in Repos : leases[p] = Cardinality(Holders(p))

\* "lets in-flight requests finish against the old repository": the active
\* database and every leased one is open.
UsedRepositoriesOpen ==
    \A p \in Repos : (p = repository \/ Holders(p) # {}) => p \in open

\* "closes and unlinks the retired local database afterward": a database that is
\* neither active nor leased is closed, and none is closed twice.
NoOpenLeftovers ==
    /\ \A p \in open : p = repository \/ (p \in retired /\ Holders(p) # {})
    /\ retired \subseteq open \ {repository}

\* A database is open exactly as long as somebody may read it.
OpenIffUsed == UsedRepositoriesOpen /\ NoOpenLeftovers

\* Leases are counted exactly and decide alone when a database is closed.
LeasesKeepDatabases == LeasesExact /\ OpenIffUsed

\* "The exact immutable SQLite URL currently backing both queries and STAC": the
\* URL belongs to the revision of the active repository, and a STAC route
\* keeps a pair that matches.
UrlBacksRepository ==
    sourceKind = "pointer" =>
        /\ repository # None => activeUrl = made[repository]
        /\ \A r \in Requests : request[r] = "stac" => url[r] = made[holds[r]]

\* "Record an ETag as active only after successful validation and activation": the
\* revision that polls are compared with is the one the repository was made of.
FingerprintIsServed ==
    (sourceKind # "file" /\ repository # None) => fingerprint = made[repository]

\* URL and fingerprint are both of the revision that is served.
RevisionsAgree == UrlBacksRepository /\ FingerprintIsServed

\* A handler that got the lifecycle finds a repository in it.
StartedServes ==
    /\ runtime = "started" => repository # None
    /\ \A r \in Requests : request[r] \notin {"idle", "waiting"} => runtime = "started"

\* "A complete new catalog becomes visible without restarting": once the runtime
\* has started and publications and failures stop, what is published is served.
\* (Unchanged keeps an old error, which makes it look like a failure.)
Converges ==
    (<>(runtime = "started")
        /\ <>[][published' = published /\ (RefreshFails => Unchanged)]_vars)
    => <>[](repository # None /\ made[repository] = published)

\* Requests that arrive before the catalog is there are answered.
WaitingEnds ==
    \A r \in Requests : request[r] = "waiting" ~> request[r] # "waiting"

\* "lets in-flight requests finish against the old repository": one answer is
\* made of one revision.
OneRevisionPerAnswer == \A r \in Requests : Cardinality(data[r]) <= 1
=============================================================================

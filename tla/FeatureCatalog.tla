--------------------------- MODULE FeatureCatalog ---------------------------
(***************************************************************************)
(* The catalog of the feature server: CatalogFetcher polls a published     *)
(* SQLite catalog and activates validated candidates, SnapshotRegistry     *)
(* owns the active snapshot and counts the requests that use it, and the   *)
(* ASGI application serves requests and runs the poller in its lifespan    *)
(* (feature-server/app/catalog/fetcher.py, registry.py, app/asgi.py).      *)
(*                                                                         *)
(* An etag stands for one published revision: the release pointer's in     *)
(* pointer mode, the catalog object's otherwise.  GenerationOf gives the   *)
(* generation it holds; two revisions may hold the same one.  The steps of *)
(* refresh are cut where it awaits: the HTTP answers and the two threads.  *)
(***************************************************************************)
EXTENDS Integers, FiniteSets, TLC

CONSTANTS
    Etags,          \* published revisions
    GenerationOf,   \* the generation inside a revision
    Snapshots,      \* identities of ApiSnapshot objects and their files
    Requests,       \* concurrent HTTP requests
    None,
    UnlinkMayFail   \* unlinking a file may raise OSError

ASSUME GenerationAssumption == DOMAIN GenerationOf = Etags
ASSUME NoneAssumption == /\ None \notin Snapshots /\ None \notin Etags
                         /\ \A e \in Etags : GenerationOf[e] # None
ASSUME ModeAssumption == UnlinkMayFail \in BOOLEAN
ASSUME RequestsAssumption == IsFiniteSet(Requests)

VARIABLES
    pointerMode,   \* a release pointer is configured; never changes
    phase,         \* of the lifespan
    published,     \* the revision the URL answers with
    step,          \* where refresh is suspended
    seen,          \* the revision this refresh is about
    candidate,     \* its snapshot, once the file is written
    activeEtag, activeGeneration,
    catalogUrl, previousUrl,   \* as the revision whose URL it is
    result,        \* of the last refresh; last_error is set when it failed
    current,       \* the registry's snapshot
    made,          \* the revision each snapshot was built from
    root,          \* the revision whose URL its links were built from
    references,
    retired,
    files,         \* snapshots whose SQLite file exists
    request,       \* where each request is
    holds,         \* the snapshot it has acquired
    checked,       \* the revision an items request was validated against
    before         \* history: the registry's snapshot when refresh began

fetcherVars  == <<step, seen, candidate, activeEtag, activeGeneration,
                  catalogUrl, previousUrl, result, before>>
registryVars == <<current, made, root, references, retired, files>>
requestVars  == <<request, holds, checked>>
server == <<phase, published, fetcherVars, registryVars, requestVars>>
vars == <<pointerMode, server>>

Generations == {GenerationOf[e] : e \in Etags}

TypeOK ==
    /\ pointerMode \in BOOLEAN
    /\ phase \in {"starting", "running", "stopping", "closed"}
    /\ published \in Etags
    /\ step \in {"idle", "pointer", "catalog", "opening", "building",
                 "replaced", "raised", "dead"}
    /\ seen \in Etags \cup {None}
    /\ candidate \in Snapshots \cup {None}
    /\ activeEtag \in Etags \cup {None}
    /\ activeGeneration \in Generations \cup {None}
    /\ catalogUrl \in Etags \cup {None}
    /\ previousUrl \in Etags \cup {None}
    /\ result \in {"none", "activated", "unchanged", "failed"}
    /\ current \in Snapshots \cup {None}
    /\ made \in [Snapshots -> Etags \cup {None}]
    /\ root \in [Snapshots -> Etags \cup {None}]
    /\ references \in [Snapshots -> Nat]
    /\ retired \in [Snapshots -> BOOLEAN]
    /\ files \in SUBSET Snapshots
    /\ request \in [Requests -> {"idle", "validating", "validated", "executing"}]
    /\ holds \in [Requests -> Snapshots \cup {None}]
    /\ checked \in [Requests -> Etags \cup {None}]
    /\ before \in Snapshots \cup {None}

Init ==
    /\ pointerMode \in BOOLEAN
    /\ phase = "starting"
    /\ published \in Etags
    /\ step = "idle" /\ seen = None /\ candidate = None
    /\ activeEtag = None /\ activeGeneration = None
    /\ catalogUrl = None /\ previousUrl = None
    /\ result = "none"
    /\ current = None
    /\ made = [s \in Snapshots |-> None]
    /\ root = [s \in Snapshots |-> None]
    /\ references = [s \in Snapshots |-> 0]
    /\ retired = [s \in Snapshots |-> FALSE]
    /\ files = {}
    /\ request = [r \in Requests |-> "idle"]
    /\ holds = [r \in Requests |-> None]
    /\ checked = [r \in Requests |-> None]
    /\ before = None

UnlinkOutcomes == IF UnlinkMayFail THEN BOOLEAN ELSE {TRUE}

\* The publisher replaces what the URL answers with; a rollback is a publication.
Publish ==
    /\ \E e \in Etags \ {published} : published' = e
    /\ UNCHANGED <<phase, fetcherVars, registryVars, requestVars>>

-----------------------------------------------------------------------------
(* CatalogFetcher.refresh.                                                 *)

Begin ==
    /\ step = "idle"
    /\ \/ phase = "starting" /\ result = "none"
       \/ phase = "running"
    /\ step' = IF pointerMode THEN "pointer" ELSE "catalog"
    /\ seen' = None
    /\ before' = current
    /\ UNCHANGED <<phase, published, candidate, activeEtag, activeGeneration,
                   catalogUrl, previousUrl, result, registryVars, requestVars>>

\* refresh returns: its locals are gone.
Return(how) ==
    /\ step' = "idle"
    /\ result' = how
    /\ seen' = None
    /\ candidate' = None
    /\ previousUrl' = None
    /\ before' = None

\* 304: the revision answered for If-None-Match is the active one.
NotModified ==
    /\ step = IF pointerMode THEN "pointer" ELSE "catalog"
    /\ activeEtag = published
    /\ Return("unchanged")
    /\ UNCHANGED <<phase, published, activeEtag, activeGeneration, catalogUrl,
                   registryVars, requestVars>>

PointerAnswers ==
    /\ step = "pointer"
    /\ activeEtag # published
    /\ seen' = published
    /\ step' = "catalog"
    /\ UNCHANGED <<phase, published, candidate, activeEtag, activeGeneration,
                   catalogUrl, previousUrl, result, before, registryVars, requestVars>>

IsFree(s) == /\ s \notin files \cup {current, candidate}
             /\ \A r \in Requests : holds[r] # s

\* The catalog arrives, with the length and checksum its revision announces, and
\* is written to a temporary file.  A release is immutable: in pointer mode the
\* bytes belong to the revision the pointer named.
CatalogAnswers ==
    /\ step = "catalog"
    /\ ~pointerMode => activeEtag # published
    /\ seen' = IF pointerMode THEN seen ELSE published
    /\ \E s \in Snapshots :
          /\ IsFree(s)
          /\ candidate' = s
          /\ files' = files \cup {s}
          /\ made' = [made EXCEPT ![s] = None]
          /\ root' = [root EXCEPT ![s] = None]
          /\ retired' = [retired EXCEPT ![s] = FALSE]
    /\ step' = "opening"
    /\ UNCHANGED <<phase, published, activeEtag, activeGeneration, catalogUrl,
                   previousUrl, result, before, current, references, requestVars>>

ReusesGeneration ==
    GenerationOf[seen] = activeGeneration /\ seen # activeEtag

CandidateOpens ==
    /\ step = "opening"
    /\ ~ReusesGeneration
    /\ previousUrl' = catalogUrl
    /\ catalogUrl' = IF pointerMode THEN seen ELSE None
    /\ step' = "building"
    /\ UNCHANGED <<phase, published, seen, candidate, activeEtag, activeGeneration,
                   result, before, registryVars, requestVars>>

\* build_snapshot: what the snapshot is made of.
Build ==
    /\ made' = [made EXCEPT ![candidate] = seen]
    /\ root' = [root EXCEPT ![candidate] = catalogUrl]

Retire(s) == retired' = IF s = None THEN retired ELSE [retired EXCEPT ![s] = TRUE]

\* Mutant: the previous snapshot's file is removed under its requests.
ReplaceUnderRequests ==
    /\ step = "building"
    /\ Build
    /\ current' = candidate
    /\ Retire(current)
    /\ files' = files \ {current}
    /\ step' = "replaced"
    /\ UNCHANGED <<phase, published, seen, candidate, activeEtag, activeGeneration,
                   catalogUrl, previousUrl, result, before, references, requestVars>>

\* The activation thread has built the snapshot and runs registry.replace.
\* Unlinking the previous snapshot's file is its last act and may raise.
Replace ==
    /\ step = "building"
    /\ Build
    /\ current' = candidate
    /\ Retire(current)
    /\ IF current # None /\ references[current] = 0
       THEN \E unlinked \in UnlinkOutcomes :
                /\ files' = IF unlinked THEN files \ {current} ELSE files
                /\ step' = IF unlinked THEN "replaced" ELSE "raised"
       ELSE step' = "replaced" /\ UNCHANGED files
    /\ UNCHANGED <<phase, published, seen, candidate, activeEtag, activeGeneration,
                   catalogUrl, previousUrl, result, before, references, requestVars>>

\* Mutant: the revision recorded is the one published by now.
ActivatedLate ==
    /\ step = "replaced"
    /\ activeEtag' = published
    /\ activeGeneration' = GenerationOf[seen]
    /\ Return("activated")
    /\ UNCHANGED <<phase, published, catalogUrl, registryVars, requestVars>>

\* The event loop learns that the thread has ended.
Activated ==
    /\ step = "replaced"
    /\ activeEtag' = seen
    /\ activeGeneration' = GenerationOf[seen]
    /\ Return("activated")
    /\ UNCHANGED <<phase, published, catalogUrl, registryVars, requestVars>>

\* Mutant: a failed refresh forgets its temporary file.
FailKeepingFile(url) ==
    /\ catalogUrl' = url
    /\ Return("failed")
    /\ UNCHANGED <<phase, published, activeEtag, activeGeneration, registryVars, requestVars>>

\* The except and finally clauses: the error is kept, the URL restored and the
\* candidate removed.  An OSError here leaves refresh, and ends the poll task.
Fail(url) ==
    /\ catalogUrl' = url
    /\ \E unlinked \in (IF candidate = None THEN {TRUE} ELSE UnlinkOutcomes) :
          IF unlinked
          THEN Return("failed") /\ files' = files \ {candidate}
          ELSE /\ step' = "dead"
               /\ UNCHANGED <<seen, candidate, previousUrl, result, before, files>>
    /\ UNCHANGED <<phase, published, activeEtag, activeGeneration, current, made, root,
                   references, retired, requestVars>>

\* Network errors, bad statuses, malformed pointers, wrong length or checksum.
FetchFails == step \in {"pointer", "catalog"} /\ Fail(catalogUrl)

\* The file is no catalog, or holds another generation than the pointer says.
OpenFails == step = "opening" /\ Fail(catalogUrl)

\* The same, for a new revision that carries the active generation.
RejectReuse == step = "opening" /\ ReusesGeneration /\ Fail(catalogUrl)

\* Mutant: the URL is not restored.
BuildFailsKeepingUrl == step \in {"building", "raised"} /\ Fail(catalogUrl)

\* Mutant: refresh can still fail once the registry has the new snapshot.
BuildFailsLate == step \in {"building", "raised", "replaced"} /\ Fail(previousUrl)

\* Building the snapshot raises, or registry.replace did.
BuildFails == step \in {"building", "raised"} /\ Fail(previousUrl)

-----------------------------------------------------------------------------
(* Requests: SnapshotRegistry.acquire and the handlers.                    *)

\* Mutant: a request reads the current snapshot without counting itself.
AcquireUncounted(r, place) ==
    /\ request' = [request EXCEPT ![r] = place]
    /\ holds' = [holds EXCEPT ![r] = current]
    /\ UNCHANGED <<current, made, root, references, retired, files>>

Acquire(r, place) ==
    /\ request' = [request EXCEPT ![r] = place]
    /\ holds' = [holds EXCEPT ![r] = current]
    /\ references' = [references EXCEPT ![current] = @ + 1]
    /\ UNCHANGED <<current, made, root, retired, files>>

End(r) ==
    /\ request' = [request EXCEPT ![r] = "idle"]
    /\ holds' = [holds EXCEPT ![r] = None]
    /\ checked' = [checked EXCEPT ![r] = None]

\* _cleanup unlinks a file when the last request leaves a retired snapshot.
IsLast(r) == retired[holds[r]] /\ references[holds[r]] = 1

Release(r, unlinked) ==
    /\ unlinked \in (IF IsLast(r) THEN UnlinkOutcomes ELSE {TRUE})
    /\ references' = [references EXCEPT ![holds[r]] = @ - 1]
    /\ files' = IF unlinked /\ IsLast(r) THEN files \ {holds[r]} ELSE files
    /\ UNCHANGED <<current, made, root, retired>>

\* items without an identifier first validates its parameters in a thread.
\* Without a snapshot it ends at once, with an internal error.
BeginItems(r) ==
    /\ phase = "running"
    /\ request[r] = "idle"
    /\ current # None
    /\ Acquire(r, "validating")
    /\ UNCHANGED <<phase, published, checked, fetcherVars>>

EndValidation(r) ==
    /\ request[r] = "validating"
    /\ \E unlinked, valid \in BOOLEAN :
          /\ Release(r, unlinked)
          /\ IF valid /\ unlinked
             THEN /\ request' = [request EXCEPT ![r] = "validated"]
                  /\ holds' = [holds EXCEPT ![r] = None]
                  /\ checked' = [checked EXCEPT ![r] = made[holds[r]]]
             ELSE End(r)
    /\ UNCHANGED <<phase, published, fetcherVars>>

\* _execute: for an items request after its validation, for others at once.
\* Without a snapshot the request ends with NotReady.
Execute(r) ==
    /\ \/ request[r] = "validated"
       \/ request[r] = "idle" /\ phase = "running" /\ current # None
    /\ IF current = None
       THEN End(r) /\ UNCHANGED registryVars
       ELSE Acquire(r, "executing") /\ UNCHANGED checked
    /\ UNCHANGED <<phase, published, fetcherVars>>

Respond(r) ==
    /\ request[r] = "executing"
    /\ \E unlinked \in BOOLEAN :
          Release(r, unlinked) /\ End(r)
    /\ UNCHANGED <<phase, published, fetcherVars>>

-----------------------------------------------------------------------------
(* The lifespan.                                                           *)

\* The first refresh has returned, with or without a catalog.
Started ==
    /\ phase = "starting"
    /\ step = "idle"
    /\ result # "none"
    /\ phase' = "running"
    /\ UNCHANGED <<published, fetcherVars, registryVars, requestVars>>

Stop ==
    /\ phase = "running"
    /\ phase' = "stopping"
    /\ UNCHANGED <<published, fetcherVars, registryVars, requestVars>>

\* The poll task has ended: registry.close retires the current snapshot.
Close ==
    /\ phase = "stopping"
    /\ step = "idle"
    /\ phase' = "closed"
    /\ current' = None
    /\ Retire(current)
    /\ \E unlinked \in UnlinkOutcomes :
          files' = IF unlinked /\ current # None /\ references[current] = 0
                   THEN files \ {current} ELSE files
    /\ UNCHANGED <<published, fetcherVars, made, root, references, requestVars>>

Refresh == \/ NotModified
           \/ PointerAnswers
           \/ CatalogAnswers
           \/ CandidateOpens
           \/ Replace
           \/ Activated
           \/ RejectReuse
           \/ FetchFails
           \/ OpenFails
           \/ BuildFails

Step ==
    \/ Publish
    \/ Begin
    \/ Refresh
    \/ \E r \in Requests : BeginItems(r) \/ EndValidation(r) \/ Execute(r) \/ Respond(r)
    \/ Started
    \/ Stop
    \/ Close

\* The configuration is read once, at the start.
Next == Step /\ UNCHANGED pointerMode

Spec == Init /\ [][Next]_vars

\* The event loop runs, threads and HTTP exchanges end (they have timeouts), the
\* poll interval elapses.  Nobody is obliged to publish, to ask or to stop.
Fairness == WF_server(Begin) /\ WF_server(Refresh) /\ WF_server(Started)

FairSpec == Spec /\ Fairness

-----------------------------------------------------------------------------
(* Properties.                                                             *)

\* The feature server implements the snapshot service; the file of a candidate
\* is not yet a snapshot's.
Service == INSTANCE SnapshotService
               WITH active <- current, users <- holds,
                    alive <- files \ ({candidate} \ {current})

ImplementsService == Service!Spec

Holders(s) == {r \in Requests : holds[r] = s}

\* ApiSnapshot.references counts the requests inside acquire.
ReferencesExact == \A s \in Snapshots : references[s] = Cardinality(Holders(s))

\* The file of the active snapshot, and of every snapshot a request still
\* uses, exists.
UsedFilesExist ==
    \A s \in Snapshots : (s = current \/ Holders(s) # {}) => s \in files

\* A file nobody can use any more is gone: rejected candidates, and retired
\* snapshots once their last request has ended.
NoFileLeaks ==
    \A s \in files : s \in {current, candidate} \/ Holders(s) # {}

\* A snapshot's file lives exactly as long as somebody may read it, across
\* replacements, failed refreshes and shutdown.
FilesExistIffUsed == UsedFilesExist /\ NoFileLeaks

\* Between refreshes the fetcher believes what the registry serves: the etag it
\* will send as If-None-Match, the generation it compares with, and the URL.
FetcherAgreesWithRegistry ==
    (step = "idle" /\ current # None) =>
        /\ activeEtag = made[current]
        /\ activeGeneration = GenerationOf[made[current]]
        /\ pointerMode => catalogUrl = made[current]

\* The links of a snapshot lead into the release it was built from, although
\* the activation thread reads the URL from the fetcher.
LinksMatchRelease ==
    pointerMode => \A s \in Snapshots : root[s] = made[s]

\* Etag, generation, URL and links are all of the revision that is served.
RevisionsAgree == FetcherAgreesWithRegistry /\ LinksMatchRelease

\* "A failed refresh never mutates the active snapshot."
FailedRefreshKeepsSnapshot ==
    [][(step # "idle" /\ step' = "idle" /\ result' = "failed") => current' = before]_vars

\* refresh says UNCHANGED only when the registry serves what is published; an
\* etag recorded for a revision that was not activated would hide it for good.
UnchangedIsServed ==
    [][(step # "idle" /\ step' = "idle" /\ result' = "unchanged")
          => current # None /\ made[current] = published]_vars

\* A published generation becomes visible without a restart: if publications
\* and failures stop while the server runs, it ends up serving what is published.
Converges ==
    (<>[][published' = published /\ ~FetchFails /\ ~OpenFails /\ ~BuildFails]_vars
        /\ []<>(phase = "running"))
    => <>[](current # None /\ GenerationOf[made[current]] = GenerationOf[published])

\* "No individual request sees a mixed metadata snapshot."
NoMixedRequest ==
    \A r \in Requests :
        (request[r] = "executing" /\ checked[r] # None) => made[holds[r]] = checked[r]
=============================================================================

-------------------------- MODULE SnapshotService --------------------------
(***************************************************************************)
(* What the webapp's CatalogLifecycle and the feature server's registry    *)
(* both promise: requests work on the snapshot that was active when they   *)
(* entered, whatever becomes active meanwhile; a snapshot's resource, an   *)
(* open database or a file, lives exactly as long as somebody may use it.  *)
(* (docs/superpowers/specs/2026-09-07-portolan-catalog-migration-design.md *)
(* and 2026-09-07-portolan-feature-server-design.md)                       *)
(***************************************************************************)
CONSTANTS Snapshots, Requests, None

VARIABLES
    active,   \* the snapshot that serves new requests
    users,    \* the snapshot each request works on
    alive     \* snapshots whose resource exists

vars == <<active, users, alive>>

Init ==
    /\ active = None
    /\ users = [r \in Requests |-> None]
    /\ alive = {}

InUse == ({active} \cup {users[r] : r \in Requests}) \ {None}

\* A new snapshot takes the place of the active one, whose users stay with it.
Swap ==
    /\ \E s \in Snapshots \ alive : active' = s
    /\ UNCHANGED users
    /\ alive' = InUse'

Enter(r) ==
    /\ active # None
    /\ users[r] = None
    /\ users' = [users EXCEPT ![r] = active]
    /\ UNCHANGED <<active, alive>>

\* The last user of a snapshot that is no longer active disposes of it.
Leave(r) ==
    /\ users[r] # None
    /\ users' = [users EXCEPT ![r] = None]
    /\ UNCHANGED active
    /\ alive' = InUse'

Shutdown ==
    /\ active # None
    /\ active' = None
    /\ UNCHANGED users
    /\ alive' = InUse'

Next == Swap \/ Shutdown \/ \E r \in Requests : Enter(r) \/ Leave(r)

Spec == Init /\ [][Next]_vars
=============================================================================

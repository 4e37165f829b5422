----------------------------- MODULE OwnedWork -----------------------------
(***************************************************************************)
(* What the tile cache and the ClickHouse client of the dataset MCP        *)
(* service both promise about work they run for their callers: a caller    *)
(* returns only when its work has ended, when it has stopped the work, or  *)
(* while another caller stays with it; so the callers under way, which are *)
(* bounded, bound the work that runs.  Work that could not be stopped is a *)
(* stray, which nobody joins and which does not count.                     *)
(*                                                                         *)
(* Where it is promised: dataset-mcp/app/query/tile_cache.py (worker       *)
(* capacity is kept until cleanup ends) and                                *)
(* dataset-mcp/query_engine/client.py (_kill_query: "the query may         *)
(* continue until its server limit").                                      *)
(***************************************************************************)
EXTENDS Naturals, FiniteSets

CONSTANTS Users, Work, None, Limit

VARIABLES
    holds,     \* the work each user waits for or is stopping
    running,
    strays     \* running work that its last user failed to stop

vars == <<holds, running, strays>>

Init ==
    /\ holds = [u \in Users |-> None]
    /\ running = {}
    /\ strays = {}

Holders(w) == {u \in Users : holds[u] = w}

\* Work starts for a user, if there is a place for it.
Begin(u) ==
    /\ holds[u] = None
    /\ Cardinality(running \ strays) < Limit
    /\ \E w \in Work \ running :
          /\ Holders(w) = {}
          /\ holds' = [holds EXCEPT ![u] = w]
          /\ running' = running \cup {w}
    /\ UNCHANGED strays

\* Another user shares it.
Join(u) ==
    /\ holds[u] = None
    /\ \E w \in running \ strays : holds' = [holds EXCEPT ![u] = w]
    /\ UNCHANGED <<running, strays>>

\* Work ends on its own, or because it was told to; its users may not have noticed.
End(w) ==
    /\ w \in running
    /\ running' = running \ {w}
    /\ strays' = strays \ {w}
    /\ UNCHANGED holds

\* A user leaves work that has ended, or that another user stays with.
Leave(u) ==
    /\ holds[u] # None
    /\ holds[u] \in running => Holders(holds[u]) # {u}
    /\ holds' = [holds EXCEPT ![u] = None]
    /\ UNCHANGED <<running, strays>>

\* Its only user stops it and leaves.
Stop(u) ==
    /\ holds[u] \in running
    /\ Holders(holds[u]) = {u}
    /\ holds' = [holds EXCEPT ![u] = None]
    /\ running' = running \ {holds[u]}
    /\ UNCHANGED strays

\* Its only user could not stop it and leaves.
Lose(u) ==
    /\ holds[u] \in running
    /\ Holders(holds[u]) = {u}
    /\ holds' = [holds EXCEPT ![u] = None]
    /\ strays' = strays \cup {holds[u]}
    /\ UNCHANGED running

Next ==
    \/ \E u \in Users : Begin(u) \/ Join(u) \/ Leave(u) \/ Stop(u) \/ Lose(u)
    \/ \E w \in Work : End(w)

Spec == Init /\ [][Next]_vars
=============================================================================

------------------------------- MODULE Catalog -------------------------------
(***************************************************************************)
(* What the publication catalog promises its readers: evidence that was    *)
(* taken down is gone at once, under every publication of it, and stays    *)
(* gone.  PublicationStore implements it over crashes and failed writes.   *)
(***************************************************************************)
CONSTANTS
    Records,    \* publications; the id is the content address of the body
    Lineages,   \* the experiments (evidence_lineage_ref) they rest on
    LineageOf   \* which publication rests on which

VARIABLES
    served,     \* the publications get() returns
    retired     \* the lineages taken down

catalogVars == <<served, retired>>

CatalogInit == served = {} /\ retired = {}

Publish(r) ==
    /\ LineageOf[r] \notin retired
    /\ served' = served \cup {r}
    /\ UNCHANGED retired

Takedown(r) ==
    /\ r \in served
    /\ retired' = retired \cup {LineageOf[r]}
    /\ served' = {s \in served : LineageOf[s] # LineageOf[r]}

\* A new process serves what it can verify.  A publish that failed half way may
\* turn out to be whole, and a takedown that failed to be in force.
Reload ==
    /\ retired' \in SUBSET Lineages
    /\ retired \subseteq retired'
    /\ served' \in SUBSET {r \in Records : LineageOf[r] \notin retired'}

CatalogNext ==
    \/ \E r \in Records : Publish(r) \/ Takedown(r)
    \/ Reload

CatalogSpec == CatalogInit /\ [][CatalogNext]_catalogVars
=============================================================================

--------------------------- MODULE DocumentedTriage ---------------------------
(***************************************************************************)
(* What the repository's documents say of Policy Resolution where the code *)
(* does otherwise.  TLC finds a run that contradicts each of these.        *)
(***************************************************************************)
EXTENDS MCTriageGraph

\* The LLM reads the claim correctly: none of what follows is its doing.
FaithfulQuery(s) == s.recall_query = search_query(s.intake)

\* CONTEXT.md:44: Broadening is a "fixed, deterministic sequence of loosening
\* Recall's search criteria across retry attempts".  Looser criteria find at
\* least what the stricter ones found; a query without policy_id and name
\* finds nothing once its phone and date of birth are dropped.
BroadeningLoosens ==
    [][recall /\ FaithfulQuery(state) => state.raw_candidates \subseteq state'.raw_candidates]_vars
=============================================================================

---------------------------- MODULE PolicyQueries ----------------------------
(***************************************************************************)
(* The two queries Recall makes of the policy table (db/queries.py), as    *)
(* the sets of rows they return.  A truncated query may keep any of the    *)
(* rows that tie at the limit, so the fuzzy query has a set of results.    *)
(***************************************************************************)
EXTENDS RankScore, FiniteSets

CONSTANTS
    Trigram,             \* pg_trgm similarity of two spellings, in hundredths
    TRIGRAM_THRESHOLD,   \* pg_trgm.similarity_threshold, that of operator %
    TOP_N                \* Settings.top_n

ASSUME TrigramAssumption ==
    /\ Trigram \in [Spellings -> [Spellings -> 0..100]]
    /\ TRIGRAM_THRESHOLD \in 0..100

ASSUME TopNAssumption == TOP_N \in Nat

find_policies_exact(table, query) ==
    IF query = [policy_id |-> None, holder_name |-> None, phone |-> None, dob |-> None]
    THEN {}
    ELSE {p \in table : /\ query.policy_id \in {None, p.policy_id}
                        /\ query.holder_name \in {None, p.holder_name}
                        /\ query.phone \in {None, p.phone}
                        /\ query.dob \in {None, p.dob}}

similarity(policy, name) ==
    Trigram[normalize_name(policy.holder_name)][normalize_name(name)]

\* Fault: rows are ordered by similarity alone.
sorts_before_by_name(p, q, name, id) == similarity(p, name) > similarity(q, name)

\* ORDER BY (policy_id = id) DESC, similarity(holder_name, name) DESC
sorts_before(p, q, name, id) ==
    IF (p.policy_id = id) = (q.policy_id = id)
    THEN similarity(p, name) > similarity(q, name)
    ELSE p.policy_id = id

fuzzy_hits(table, name, id) ==
    {p \in table : similarity(p, name) >= TRIGRAM_THRESHOLD \/ p.policy_id = id}

find_policies_fuzzy_name(table, name, id) ==
    LET hits == fuzzy_hits(table, name, id)
        kept == IF Cardinality(hits) < TOP_N THEN Cardinality(hits) ELSE TOP_N
    IN  {rows \in SUBSET hits :
            /\ Cardinality(rows) = kept
            /\ \A p \in rows, q \in hits \ rows : ~sorts_before(q, p, name, id)}
=============================================================================

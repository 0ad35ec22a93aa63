--------------------------- MODULE MCCachedInvoke ---------------------------
(***************************************************************************)
(* Two processes, one a build behind the other, ask one prompt of one of   *)
(* two models, with and without the cache.                                 *)
(***************************************************************************)
EXTENDS CachedInvoke

CONSTANTS old, new

MCBuild == [c \in {old, new} |-> IF c = old THEN 1 ELSE 2]

\* db/cache.py:4-6: "entries never go stale ... a changed model, prompt, or
\* output schema simply produces a different key".  The key has the name of
\* the schema only: a process of the newer build finds a row it cannot read.
EntriesNeverGoStale ==
    \A c \in Callers :
        LET row == llm_cache[cache_key(request[c])]
        IN  pc[c] = "lookup" /\ row # None
                => model_validate(row, request[c].schema, Build[c])
=============================================================================

---------------------------- MODULE CachedInvoke ----------------------------
(***************************************************************************)
(* cached_invoke, the one way a node talks to an LLM, and the llm_cache    *)
(* table behind it (llm/cached_invoke.py, db/cache.py, llm/hashing.py).    *)
(* Several processes (runs, the eval) call it at once; nothing locks a key *)
(* between the lookup and the store.  A process has the schemas of the     *)
(* build it runs, and a later build may have added a required field.       *)
(***************************************************************************)
EXTENDS Naturals, FiniteSets

CONSTANTS
    None,
    Callers,              \* the processes
    Build,                \* the build each of them runs
    Models, Prompts, Schemas,
    Texts,                \* what the provider may answer
    MAX_RETRY_ATTEMPTS,   \* Settings.max_retry_attempts
    MAX_CALLS,            \* bound on the calls of one process
    MAX_CLEARS            \* bound on the uses of `just cache-clear`

ASSUME CallersAssumption ==
    /\ Build \in [Callers -> Nat]
    /\ MAX_RETRY_ATTEMPTS \in Nat /\ MAX_CALLS \in Nat /\ MAX_CLEARS \in Nat

Request == [model : Models, prompt : Prompts, schema : Schemas]

\* An answer has the shape of a schema as some build declares it.
Answer ==
    [text : Texts, schema : Schemas, build : {Build[c] : c \in Callers}]

ASSUME NoneAssumption == None \notin Answer

VARIABLES
    llm_cache,   \* the rows of the table, by key
    pc,          \* where each call is
    request,     \* what it asks
    bypass,      \* its bypass_cache
    attempts,    \* the provider calls it made
    parsed,      \* the answer it got from the provider, or returned
    calls,       \* the calls each process has begun
    clears,
    given        \* the answers the provider gave: to whom, to what request

vars == <<llm_cache, pc, request, bypass, attempts, parsed, calls, clears, given>>

Optional(S) == S \cup {None}

\* Fault: the key leaves out the model.
cache_key_any_model(r) == <<r.prompt, r.schema>>

\* The hash of the three fields, each with its length before it: injective.
cache_key(r) == <<r.model, r.prompt, r.schema>>

Keys == {cache_key(r) : r \in Request}

\* Fault: a row is trusted whatever build wrote it.
model_validate_any_build(answer, schema, build) == answer.schema = schema

\* A row of an older shape lacks a required field; a field too many is ignored.
model_validate(answer, schema, build) ==
    answer.schema = schema /\ answer.build >= build

Finish(c, where, answer) ==
    /\ pc' = [pc EXCEPT ![c] = where]
    /\ parsed' = [parsed EXCEPT ![c] = answer]

-----------------------------------------------------------------------------
\* A process calls again once its last call returned or raised.
Begin(c, r, b) ==
    /\ pc[c] \in {"idle", "returned", "raised"}
    /\ calls[c] < MAX_CALLS
    /\ calls' = [calls EXCEPT ![c] = @ + 1]
    /\ request' = [request EXCEPT ![c] = r]
    /\ bypass' = [bypass EXCEPT ![c] = b]
    /\ attempts' = [attempts EXCEPT ![c] = 0]
    /\ Finish(c, IF b THEN "invoke" ELSE "lookup", None)
    /\ UNCHANGED <<llm_cache, clears, given>>

\* A row that no longer validates is a miss.
get_cached_response(c) ==
    /\ pc[c] = "lookup"
    /\ LET row == llm_cache[cache_key(request[c])]
       IN  IF row # None /\ model_validate(row, request[c].schema, Build[c])
           THEN Finish(c, "returned", row)
           ELSE Finish(c, "invoke", None)
    /\ UNCHANGED <<llm_cache, request, bypass, attempts, calls, clears, given>>

count_attempt(c) == attempts' = [attempts EXCEPT ![c] = @ + 1]

\* Fault: the budget counts the retries, not the calls.
budget_left_retries(c) == attempts[c] < MAX_RETRY_ATTEMPTS

\* stop_after_attempt is asked after the attempt, so one is always made.
budget_left(c) == attempts[c] + 1 < MAX_RETRY_ATTEMPTS

ProviderAnswers(c) ==
    /\ pc[c] = "invoke"
    /\ count_attempt(c)
    /\ \E text \in Texts :
          LET answer == [text |-> text, schema |-> request[c].schema, build |-> Build[c]]
          IN  /\ Finish(c, "store", answer)
              /\ given' = given \cup {[caller |-> c, request |-> request[c], answer |-> answer]}
    /\ UNCHANGED <<llm_cache, request, bypass, calls, clears>>

\* Fault: the last error is swallowed and the call goes on.
TransientError_swallowed(c) ==
    /\ pc[c] = "invoke"
    /\ count_attempt(c)
    /\ Finish(c, IF budget_left(c) THEN "invoke" ELSE "store", None)
    /\ UNCHANGED <<llm_cache, request, bypass, calls, clears, given>>

\* Fault: the retry is around the whole call, which counts anew each time.
TransientError_from_the_top(c) ==
    /\ pc[c] = "invoke"
    /\ attempts' = [attempts EXCEPT ![c] = 0]
    /\ Finish(c, IF budget_left(c) THEN "lookup" ELSE "raised", None)
    /\ UNCHANGED <<llm_cache, request, bypass, calls, clears, given>>

\* A connection error, a timeout, a rate limit or a server error.
TransientError(c) ==
    /\ pc[c] = "invoke"
    /\ count_attempt(c)
    /\ Finish(c, IF budget_left(c) THEN "invoke" ELSE "raised", None)
    /\ UNCHANGED <<llm_cache, request, bypass, calls, clears, given>>

\* Any other error, or an answer that does not parse: never retried.
FatalError(c) ==
    /\ pc[c] = "invoke"
    /\ count_attempt(c)
    /\ Finish(c, "raised", None)
    /\ UNCHANGED <<llm_cache, request, bypass, calls, clears, given>>

\* Fault: the row of an earlier answer is kept.
upsert_keeping(key, answer) ==
    IF llm_cache[key] = None THEN [llm_cache EXCEPT ![key] = answer] ELSE llm_cache

\* INSERT ... ON CONFLICT DO UPDATE
upsert(key, answer) == [llm_cache EXCEPT ![key] = answer]

store_response(c) ==
    /\ pc[c] = "store"
    /\ llm_cache' = upsert(cache_key(request[c]), parsed[c])
    /\ Finish(c, "returned", parsed[c])
    /\ UNCHANGED <<request, bypass, attempts, calls, clears, given>>

\* Postgres cannot be reached, before or after the provider was asked.
DatabaseError(c) ==
    /\ pc[c] \in {"lookup", "store"}
    /\ Finish(c, "raised", None)
    /\ UNCHANGED <<llm_cache, request, bypass, attempts, calls, clears, given>>

clear_cache ==
    /\ clears < MAX_CLEARS
    /\ clears' = clears + 1
    /\ llm_cache' = [k \in Keys |-> None]
    /\ UNCHANGED <<pc, request, bypass, attempts, parsed, calls, given>>

-----------------------------------------------------------------------------
Init ==
    /\ llm_cache = [k \in Keys |-> None]
    /\ pc = [c \in Callers |-> "idle"]
    /\ request \in [Callers -> Request]
    /\ bypass = [c \in Callers |-> FALSE]
    /\ attempts = [c \in Callers |-> 0]
    /\ parsed = [c \in Callers |-> None]
    /\ calls = [c \in Callers |-> 0]
    /\ clears = 0
    /\ given = {}

CallStep(c) ==
    \/ get_cached_response(c) \/ ProviderAnswers(c) \/ TransientError(c)
    \/ FatalError(c) \/ store_response(c) \/ DatabaseError(c)

Next ==
    \/ \E c \in Callers : CallStep(c)
    \/ \E c \in Callers, r \in Request, b \in BOOLEAN : Begin(c, r, b)
    \/ clear_cache

\* A call goes on by itself; nobody is bound to begin one.
Spec == Init /\ [][Next]_vars /\ \A c \in Callers : WF_vars(CallStep(c))

-----------------------------------------------------------------------------
CacheTypeOK ==
    /\ llm_cache \in [Models \X Prompts \X Schemas -> Optional(Answer)]
    /\ pc \in [Callers ->
                  {"idle", "lookup", "invoke", "store", "returned", "raised"}]
    /\ request \in [Callers -> Request]
    /\ bypass \in [Callers -> BOOLEAN]
    /\ attempts \in [Callers -> Nat]
    /\ parsed \in [Callers -> Optional(Answer)]
    /\ \A c \in Callers : pc[c] \in {"store", "returned"} => parsed[c] # None
    /\ calls \in [Callers -> 0..MAX_CALLS]
    /\ clears \in 0..MAX_CLEARS
    /\ given \subseteq [caller : Callers, request : Request, answer : Answer]

\* The pairs of a request and an answer, whoever asked.
Exchanges == {<<g.request, g.answer>> : g \in given}

\* A row is only ever found by the request whose answer it is (hashing.py:
\* no two requests share a key; cached_invoke.py:148 stores under the key it
\* looked up), however the calls of the processes interleave.
RowsAnswerTheirRequest ==
    \A r \in Request :
        llm_cache[cache_key(r)] # None => <<r, llm_cache[cache_key(r)]>> \in Exchanges

\* stop_after_attempt(max_retry_attempts): a call asks the provider no more
\* often than that, and once if the setting is zero.
RetryBudget ==
    \A c \in Callers :
        attempts[c] <= (IF MAX_RETRY_ATTEMPTS = 0 THEN 1 ELSE MAX_RETRY_ATTEMPTS)

\* As long as nobody else asked for the same thing and the cache was not
\* cleared, what a call returned is what the next one will find: a fresh
\* answer, also one that bypassed the cache or replaced a row of an older
\* build, is never left behind an older one (cached_invoke.py:99-103, 116-120).
NextCallFindsTheAnswer ==
    \A c \in Callers :
        /\ pc[c] = "returned"
        /\ clears = 0
        /\ \A g \in given : g.request = request[c] => g.caller = c
        => llm_cache[cache_key(request[c])] = parsed[c]

\* The steps a call can still take, at the most: a lookup, the attempts it has
\* left, a store.
StepsLeft(c) ==
    LET attempts_left ==
            (IF MAX_RETRY_ATTEMPTS = 0 THEN 1 ELSE MAX_RETRY_ATTEMPTS) - attempts[c]
    IN  CASE pc[c] = "lookup" -> 2 + attempts_left
          [] pc[c] = "invoke" -> 1 + attempts_left
          [] pc[c] = "store"  -> 1
          [] OTHER            -> 0

\* Until its process calls again, whatever moves a call brings it nearer to its
\* end: the retry is around the provider alone (cached_invoke.py:82-88), so
\* neither a row of an older build nor an error that comes back sends a call to
\* its beginning, and nothing other processes do to the table holds it up.
CallsRunDown ==
    [][ \A c \in Callers :
            calls'[c] = calls[c] /\ <<pc'[c], attempts'[c]>> # <<pc[c], attempts[c]>>
                => StepsLeft(c)' < StepsLeft(c) ]_vars

\* Every call ends: a hit, an answer, or an error that reaches the node
\* (cached_invoke.py:7-9), since the attempts run out.
CallsEnd ==
    \A c \in Callers :
        pc[c] \in {"lookup", "invoke", "store"} ~> pc[c] \in {"returned", "raised"}

-----------------------------------------------------------------------------
\* The caller's build finds every field it declares.
FitsCall(answer, r, c) == answer.schema = r.schema /\ answer.build >= Build[c]

status == [c \in Callers |->
              IF pc[c] \in {"lookup", "invoke", "store"} THEN "pending" ELSE pc[c]]

returned == [c \in Callers |-> IF pc[c] = "returned" THEN parsed[c] ELSE None]

Oracle == INSTANCE LLMOracle
    WITH Requests <- Request, Answers <- Answer, Fits <- FitsCall,
         given <- Exchanges, answer <- returned

\* With the cache, its stale rows and the retries in between, a node still
\* gets an answer to its own request in the shape of its own build, or an
\* error (cached_invoke.py:3-12).
KeepsOraclePromise == Oracle!Spec
=============================================================================

------------------------------ MODULE EvalSuite ------------------------------
(***************************************************************************)
(* `just eval` (eval.py, cli/eval.py): for each scenario in order, replay  *)
(* it with its scripted answers and the normal cache, then ask again, past *)
(* the cache, whichever of its two judgments the replay reached, and       *)
(* compare the fresh verdicts with the recorded golden ones.               *)
(*                                                                         *)
(* Past the cache means that the row is replaced (cached_invoke.py 99-103),*)
(* and every replay, of this evaluation or of another, reads those rows.   *)
(* A call of cached_invoke is one step here; CachedInvoke has its inside.  *)
(***************************************************************************)
EXTENDS Naturals, Sequences, FiniteSets, Functions

CONSTANTS
    None,
    Evals,         \* processes that run the suite
    ScenarioIds,   \* list_scenario_ids()
    Golden,        \* of a scenario and a step: the recorded verdict, or None
    Missing,       \* the lists of documents an assessment may name
    MAX_EVALS,     \* bound on the evaluations begun
    MAX_EDITS      \* bound on the edits of a prompt or a guideline

Steps == {"eligibility_judgment", "sufficiency_assessment"}

\* The judgments, and the write-up at the end of a replay.
Nodes == Steps \cup {"notification"}

\* A judgment without its rationale.
Verdicts(step) ==
    IF step = "eligibility_judgment" THEN [eligible : BOOLEAN]
    ELSE [sufficient : BOOLEAN, missing_documents : Missing]

\* What is known of a scenario, by step: its recorded verdicts, the rows of its
\* prompts, the results of its replay.
Judgments ==
    {known \in [Steps -> (UNION {Verdicts(step) : step \in Steps}) \cup {None}] :
        \A step \in Steps : known[step] \in Verdicts(step) \cup {None}}

Scenarios == Range(ScenarioIds)

ASSUME SuiteAssumption ==
    /\ ScenarioIds \in Seq(Scenarios) /\ ScenarioIds # <<>>
    /\ Golden \in [Scenarios -> Judgments]
    /\ \A step \in Steps : None \notin Verdicts(step)
    /\ MAX_EVALS \in Nat /\ MAX_EDITS \in Nat

VARIABLES
    llm_cache,      \* the row of a scenario's prompt of each step
    at,             \* where each evaluation is
    position,       \* which scenario it is at
    state,          \* what the replay of that scenario came to, by step
    mismatches,     \* the fields in which that scenario drifted
    any_mismatch,   \* whether a scenario before it drifted
    evals, edits,
    reached,        \* the nodes each evaluation's replays reached, of those below
    asked           \* what each one asked afresh, and if the verdict is the golden one

vars == <<llm_cache, at, position, state, mismatches, any_mismatch, evals, edits,
          reached, asked>>

Nothing == [step \in Steps |-> None]

scenario(e) == ScenarioIds[position[e]]

\* Fault: the cached row will do.
asks_provider_on_a_miss(s, step, bypass) == llm_cache[s][step] = None

asks_provider(s, step, bypass) == bypass \/ llm_cache[s][step] = None

\* What cached_invoke may answer to a scenario's prompt; it stores it.
answers(s, step, bypass) ==
    IF asks_provider(s, step, bypass) THEN Verdicts(step) ELSE {llm_cache[s][step]}

\* Fault: a row that is there stays.
Store_keeping(s, step, verdict) ==
    llm_cache' = [llm_cache EXCEPT ![s][step] = IF @ = None THEN verdict ELSE @]

Store(s, step, verdict) == llm_cache' = [llm_cache EXCEPT ![s][step] = verdict]

Goto(e, where) == at' = [at EXCEPT ![e] = where]

-----------------------------------------------------------------------------
\* The replay

\* A suite begins, or one begins anew.
Begin(e) ==
    /\ at[e] \in {"idle", "clean", "drift", "raised"}
    /\ evals < MAX_EVALS
    /\ evals' = evals + 1
    /\ Goto(e, "coverage")
    /\ position' = [position EXCEPT ![e] = 1]
    /\ state' = [state EXCEPT ![e] = Nothing]
    /\ mismatches' = [mismatches EXCEPT ![e] = {}]
    /\ any_mismatch' = [any_mismatch EXCEPT ![e] = FALSE]
    /\ reached' = [reached EXCEPT ![e] = {}]
    /\ asked' = [asked EXCEPT ![e] = {}]
    /\ UNCHANGED <<llm_cache, edits>>

\* Up to the Coverage Check: the query of the LLM, the table and the script
\* decide in each replay anew if there is a Policy, and one that covers.
coverage_check(e) ==
    /\ at[e] = "coverage"
    /\ \E route \in {"eligibility", "notification"} : Goto(e, route)
    /\ UNCHANGED <<llm_cache, position, state, mismatches, any_mismatch, evals, edits,
                   reached, asked>>

route_after(step, verdict) ==
    IF step = "eligibility_judgment" /\ verdict.eligible THEN "sufficiency" ELSE "notification"

\* One judgment of the replay, and the route it takes.
Judge(e, step, where) ==
    /\ at[e] = where
    /\ \E verdict \in answers(scenario(e), step, FALSE) :
          /\ Store(scenario(e), step, verdict)
          /\ state' = [state EXCEPT ![e][step] = verdict]
          /\ Goto(e, route_after(step, verdict))
    /\ reached' = [reached EXCEPT ![e] = @ \cup {<<scenario(e), step>>}]
    /\ UNCHANGED <<position, mismatches, any_mismatch, evals, edits, asked>>

eligibility_judgment(e) == Judge(e, "eligibility_judgment", "eligibility")

sufficiency_assessment(e) == Judge(e, "sufficiency_assessment", "sufficiency")

\* The draft, the scripted approval and its file: the replay is complete.
ReplayEnds(e) ==
    /\ at[e] = "notification"
    /\ Goto(e, "check eligibility")
    /\ reached' = [reached EXCEPT ![e] = @ \cup {<<scenario(e), "notification">>}]
    /\ UNCHANGED <<llm_cache, position, state, mismatches, any_mismatch, evals, edits, asked>>

-----------------------------------------------------------------------------
\* The drift check

compare_eligibility_judgment(golden, actual) ==
    IF golden.eligible # actual.eligible THEN {"eligible"} ELSE {}

\* Fault: the documents are compared as they are listed.
compare_sufficiency_assessment_in_order(golden, actual) ==
    {field \in {"sufficient", "missing_documents"} : golden[field] # actual[field]}

compare_sufficiency_assessment(golden, actual) ==
    (IF golden.sufficient # actual.sufficient THEN {"sufficient"} ELSE {})
    \cup (IF Range(golden.missing_documents) # Range(actual.missing_documents)
          THEN {"missing_documents"} ELSE {})

compare(step, golden, actual) ==
    IF step = "eligibility_judgment" THEN compare_eligibility_judgment(golden, actual)
    ELSE compare_sufficiency_assessment(golden, actual)

\* The same verdict, whatever the wording and the order of its list.
Agree(step, golden, actual) ==
    IF step = "eligibility_judgment" THEN golden = actual
    ELSE /\ golden.sufficient = actual.sufficient
         /\ \A document \in Range(golden.missing_documents) \cup Range(actual.missing_documents) :
               /\ document \in Range(golden.missing_documents)
               /\ document \in Range(actual.missing_documents)

\* One part of _record_drift_checks.  A step the replay did not reach ends
\* the checks of its scenario with a note; one without a golden is noted.
Check(e, step, where, next) ==
    LET s == scenario(e)
    IN  /\ at[e] = where
        /\ \/ /\ state[e][step] = None
              /\ Goto(e, "report")
              /\ UNCHANGED <<llm_cache, mismatches, asked>>
           \/ /\ state[e][step] # None /\ Golden[s][step] = None
              /\ Goto(e, next)
              /\ UNCHANGED <<llm_cache, mismatches, asked>>
           \/ /\ state[e][step] # None /\ Golden[s][step] # None
              /\ Goto(e, next)
              /\ \E actual \in answers(s, step, TRUE) :
                    /\ Store(s, step, actual)
                    /\ mismatches' = [mismatches EXCEPT ![e] =
                                         @ \cup compare(step, Golden[s][step], actual)]
                    /\ asked' = [asked EXCEPT ![e] = @ \cup
                          IF asks_provider(s, step, TRUE)
                          THEN {<<s, step, Agree(step, Golden[s][step], actual)>>} ELSE {}]
        /\ UNCHANGED <<position, state, any_mismatch, evals, edits, reached>>

check_eligibility(e) ==
    Check(e, "eligibility_judgment", "check eligibility", "check sufficiency")

check_sufficiency(e) ==
    Check(e, "sufficiency_assessment", "check sufficiency", "report")

\* any_mismatch once the scenario is reported.
drifted(e) == any_mismatch[e] \/ mismatches[e] # {}

\* Fault: the position is checked after it moved.
scenarios_left_one_more(e) == position[e] <= Len(ScenarioIds)

scenarios_left(e) == position[e] < Len(ScenarioIds)

\* The lines of one scenario, then the next one, or the exit status.
Report(e) ==
    /\ at[e] = "report"
    /\ any_mismatch' = [any_mismatch EXCEPT ![e] = drifted(e)]
    /\ mismatches' = [mismatches EXCEPT ![e] = {}]
    /\ state' = [state EXCEPT ![e] = Nothing]
    /\ IF scenarios_left(e)
       THEN /\ Goto(e, "coverage")
            /\ position' = [position EXCEPT ![e] = @ + 1]
       ELSE /\ Goto(e, IF drifted(e) THEN "drift" ELSE "clean")
            /\ UNCHANGED position
    /\ UNCHANGED <<llm_cache, evals, edits, reached, asked>>

\* The provider, Postgres or a script fails: the suite ends where it is.
Raise(e) ==
    /\ at[e] \notin {"idle", "clean", "drift", "raised"}
    /\ Goto(e, "raised")
    /\ UNCHANGED <<llm_cache, position, state, mismatches, any_mismatch, evals, edits,
                   reached, asked>>

\* A new prompt has keys of its own.  The guideline is in the prompts of both
\* steps; the dates of a reseeded Policy are in the first one's alone.
EditPrompt(steps) ==
    /\ edits < MAX_EDITS
    /\ edits' = edits + 1
    /\ llm_cache' = [s \in Scenarios |->
                       [step \in Steps |-> IF step \in steps THEN None ELSE llm_cache[s][step]]]
    /\ UNCHANGED <<at, position, state, mismatches, any_mismatch, evals, reached, asked>>

-----------------------------------------------------------------------------
Init ==
    /\ llm_cache = [s \in Scenarios |-> Nothing]
    /\ at = [e \in Evals |-> "idle"]
    /\ position = [e \in Evals |-> 1]
    /\ state = [e \in Evals |-> Nothing]
    /\ mismatches = [e \in Evals |-> {}]
    /\ any_mismatch = [e \in Evals |-> FALSE]
    /\ evals = 0 /\ edits = 0
    /\ reached = [e \in Evals |-> {}]
    /\ asked = [e \in Evals |-> {}]

Next ==
    \/ \E e \in Evals :
          \/ Begin(e) \/ coverage_check(e) \/ eligibility_judgment(e)
          \/ sufficiency_assessment(e) \/ ReplayEnds(e) \/ check_eligibility(e)
          \/ check_sufficiency(e) \/ Report(e) \/ Raise(e)
    \/ \E steps \in SUBSET Steps \ {{}} : EditPrompt(steps)

Spec == Init /\ [][Next]_vars
-----------------------------------------------------------------------------
EvalTypeOK ==
    /\ llm_cache \in [Scenarios -> Judgments]
    /\ at \in [Evals -> {"idle", "coverage", "eligibility", "sufficiency", "notification",
                         "check eligibility", "check sufficiency", "report",
                         "clean", "drift", "raised"}]
    /\ position \in [Evals -> DOMAIN ScenarioIds]
    /\ state \in [Evals -> Judgments]
    /\ mismatches \in [Evals -> SUBSET {"eligible", "sufficient", "missing_documents"}]
    /\ any_mismatch \in [Evals -> BOOLEAN]
    /\ evals \in 0..MAX_EVALS /\ edits \in 0..MAX_EDITS
    /\ reached \in [Evals -> SUBSET (Scenarios \X Nodes)]
    /\ asked \in [Evals -> SUBSET (Scenarios \X Steps \X BOOLEAN)]

\* An exit status of 0 vouches for every scenario: it was replayed to its
\* end, and each judgment its replay reached and that has a golden was asked
\* for afresh, in this evaluation, and agreed (cli/eval.py:4, eval.py:4-9).
\* No drift is forgotten, none is hidden by a cached answer, and an aborted
\* suite never exits with 0.  A judgment the replay did not reach is noted,
\* not judged, also where a golden is recorded (eval.py:114-118).
NoDriftIsMissed ==
    \A e \in Evals : at[e] = "clean" =>
        /\ \A s \in Scenarios : <<s, "notification">> \in reached[e]
        /\ \A s \in Scenarios, step \in Steps :
              <<s, step>> \in reached[e] /\ Golden[s][step] # None =>
                  <<s, step, TRUE>> \in asked[e]
        /\ \A ask \in asked[e] : ask[3]

\* Drift is reported only for a verdict that differs: the order in which the
\* missing documents are listed is none (eval.py:74-76), nor is what another
\* evaluation found.
NoFalseAlarm ==
    \A e \in Evals : at[e] = "drift" => \E ask \in asked[e] : ~ask[3]

\* When a suite found no drift, nobody else ran one and no prompt changed,
\* the rows the next replays will read agree with the golden verdicts, also
\* where a row did not when the suite began.
CleanSuiteLeavesGoldenRows ==
    \A e \in Evals :
        at[e] = "clean" /\ edits = 0 /\ (\A f \in Evals \ {e} : at[f] = "idle") =>
            \A s \in Scenarios, step \in Steps :
                <<s, step>> \in reached[e] /\ Golden[s][step] # None =>
                    Agree(step, Golden[s][step], llm_cache[s][step])
=============================================================================

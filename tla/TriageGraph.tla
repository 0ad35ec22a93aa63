----------------------------- MODULE TriageGraph -----------------------------
(***************************************************************************)
(* One run of the compiled triage graph (graph.py and nodes/), from the    *)
(* intake of a claim to its final review, without failures.  Each node of  *)
(* the graph is an action: it merges what its handler returns into the     *)
(* shared state and takes the edge, conditional or not, out of the node.   *)
(*                                                                         *)
(* The LLM calls (the search query, the two judgments) return any value of *)
(* their schema.  A drafted Notification is the facts its prompt was given *)
(* and one of a few wordings of them.  The two human gates take any answer *)
(* their handler accepts; an answer the Policy Selection Gate refuses      *)
(* raises out of the run and leaves it waiting at the same gate.           *)
(***************************************************************************)
EXTENDS PolicyQueries, Sequences

CONSTANTS
    Policies,          \* the policy table
    Intakes,           \* the claims the runs start from
    LLMQueries,        \* the search queries the LLM may build
    MATCH_THRESHOLD,   \* Settings.match_threshold
    Wordings,          \* the texts the LLM may draft from the same facts
    Answers            \* what a reviewer may answer at the Final Review Gate

ASSUME PoliciesAssumption ==
    /\ Policies \subseteq Policy
    /\ IsFiniteSet(Policies)
    /\ \A p, q \in Policies : p.policy_id = q.policy_id => p = q  \* PRIMARY KEY

ASSUME InputsAssumption ==
    /\ Intakes \subseteq IntakeInput
    /\ LLMQueries \subseteq PolicySearchQuery

ASSUME ThresholdAssumption == MATCH_THRESHOLD \in Int

ASSUME AnswersAssumption ==
    /\ "decline" \notin PolicyIds
    /\ None \notin Answers

VARIABLES
    state,   \* the TriageState shared by the nodes
    node,    \* the node to run next, or "END"
    output,  \* the Notifications written to data/output, oldest first
    declined \* history: the candidates a human was shown and declined

vars == <<state, node, output, declined>>

MAX_RECALL_ATTEMPTS == 3

CoverageCheckResult ==
    [within_coverage_limit : BOOLEAN, within_coverage_window : BOOLEAN]

covered(coverage) ==
    coverage.within_coverage_limit /\ coverage.within_coverage_window

\* A judgment is its verdict; its rationale and the documents it lists as
\* missing are shown to the reviewer and decide nothing.
EligibilityJudgment   == [eligible : BOOLEAN]
SufficiencyAssessment == [sufficient : BOOLEAN]

Notification ==
    [policy_resolved : BOOLEAN, covered : Optional(BOOLEAN),
     eligible : Optional(BOOLEAN), sufficient : Optional(BOOLEAN),
     wording : Wordings]

ASSUME ResultsAssumption ==
    /\ None \notin CoverageCheckResult
    /\ None \notin EligibilityJudgment
    /\ None \notin SufficiencyAssessment
    /\ None \notin Notification
    /\ None \notin BOOLEAN

TriageState ==
    [intake : Intakes,
     raw_candidates : SUBSET Policies,
     recall_attempt : 0..MAX_RECALL_ATTEMPTS,
     recall_query : Optional(LLMQueries),
     candidates : SUBSET RankedCandidate,
     resolved_policy : Optional(Policies),
     policy_resolution_confidence : Optional(0..PERFECT_SCORE),
     coverage_check : Optional(CoverageCheckResult),
     eligibility_judgment : Optional(EligibilityJudgment),
     sufficiency_assessment : Optional(SufficiencyAssessment),
     notification : Optional(Notification),
     final_decision : Optional(Answers)]

HumanGates   == {"policy_selection_gate", "final_review_gate"}
MachineNodes == {"recall", "rank", "coverage_check", "eligibility_judgment",
                 "sufficiency_assessment", "notification"}
Nodes        == MachineNodes \cup HumanGates \cup {"END"}

-----------------------------------------------------------------------------
\* Recall

\* The rows one attempt of the Broadening sequence may find.
recalled(attempt, query) ==
    CASE attempt = 1 -> {find_policies_exact(Policies, query)}
      [] attempt = 2 -> {find_policies_exact(Policies,
                            [query EXCEPT !.phone = None, !.dob = None])}
      [] OTHER       -> IF query.holder_name = None THEN {{}}
                        ELSE find_policies_fuzzy_name(Policies,
                                 query.holder_name, query.policy_id)

\* Fault: every attempt asks the LLM again.
build_query_each_time(attempt) == LLMQueries

\* Only the first attempt asks the LLM for a query.
build_query(attempt) ==
    IF attempt = 1 THEN LLMQueries ELSE {state.recall_query}

\* Fault: the attempt is not counted.
recalled_state_uncounted(rows, attempt, query) ==
    [state EXCEPT !.raw_candidates = rows, !.recall_query = query]

recalled_state(rows, attempt, query) ==
    [state EXCEPT !.raw_candidates = rows, !.recall_attempt = attempt,
                  !.recall_query = query]

recall ==
    /\ node = "recall"
    /\ LET attempt == state.recall_attempt + 1
       IN  \E query \in build_query(attempt) :
             \E rows \in recalled(attempt, query) :
                state' = recalled_state(rows, attempt, query)
    /\ node' = "rank"
    /\ UNCHANGED <<output, declined>>

-----------------------------------------------------------------------------
\* Rank and Policy Resolution

perfect_candidates(candidates) == {c \in candidates : is_perfect(c)}

above_threshold(candidates) == {c \in candidates : c.score >= MATCH_THRESHOLD}

Single(S)  == \E x \in S : S = {x}
Several(S) == \E x, y \in S : x # y

\* Fault: only a Perfect Score resolves, whatever clears the threshold.
auto_resolve_perfect_only(candidates) ==
    IF Single(perfect_candidates(candidates)) THEN perfect_candidates(candidates) ELSE {}

\* The candidate that resolves without a human, as a set of at most one.
auto_resolve(candidates) ==
    IF Single(perfect_candidates(candidates)) THEN perfect_candidates(candidates)
    ELSE IF Single(above_threshold(candidates)) THEN above_threshold(candidates)
    ELSE {}

\* Fault: a single leftover candidate goes on as if it were resolved.
route_after_rank_leftover(s) ==
    IF s.resolved_policy # None THEN "coverage_check"
    ELSE IF s.recall_attempt < MAX_RECALL_ATTEMPTS THEN "recall"
    ELSE IF Several(s.candidates) THEN "policy_selection_gate"
    ELSE "coverage_check"

\* Fault: a human is asked only about candidates that clear the threshold.
route_after_rank_weak_dropped(s) ==
    IF s.resolved_policy # None THEN "coverage_check"
    ELSE IF above_threshold(s.candidates) = {}
            /\ s.recall_attempt < MAX_RECALL_ATTEMPTS THEN "recall"
    ELSE IF Several(above_threshold(s.candidates)) THEN "policy_selection_gate"
    ELSE "notification"

\* Fault: the budget is one attempt too long.
route_after_rank_one_more(s) ==
    IF s.resolved_policy # None THEN "coverage_check"
    ELSE IF above_threshold(s.candidates) = {}
            /\ s.recall_attempt <= MAX_RECALL_ATTEMPTS THEN "recall"
    ELSE IF Several(s.candidates) THEN "policy_selection_gate"
    ELSE "notification"

\* Fault: the budget is one attempt short.
route_after_rank_one_short(s) ==
    IF s.resolved_policy # None THEN "coverage_check"
    ELSE IF above_threshold(s.candidates) = {}
            /\ s.recall_attempt + 1 < MAX_RECALL_ATTEMPTS THEN "recall"
    ELSE IF Several(s.candidates) THEN "policy_selection_gate"
    ELSE "notification"

route_after_rank(s) ==
    IF s.resolved_policy # None THEN "coverage_check"
    ELSE IF above_threshold(s.candidates) = {}
            /\ s.recall_attempt < MAX_RECALL_ATTEMPTS THEN "recall"
    ELSE IF Several(s.candidates) THEN "policy_selection_gate"
    ELSE "notification"

\* Fault: the confidence of an earlier pass is kept.
resolve_policy_only(s, policy, confidence) == [s EXCEPT !.resolved_policy = policy]

resolve(s, policy, confidence) ==
    [s EXCEPT !.resolved_policy = policy,
              !.policy_resolution_confidence = confidence]

rank ==
    /\ node = "rank"
    /\ LET query      == search_query(state.intake)
           candidates == {rank_score(p, query) : p \in state.raw_candidates}
           resolved   == auto_resolve(candidates)
           scored     == [state EXCEPT !.candidates = candidates]
       IN  \/ resolved = {} /\ state' = resolve(scored, None, None)
           \/ \E c \in resolved : state' = resolve(scored, c.policy, c.score)
    /\ node' = route_after_rank(state')
    /\ UNCHANGED <<output, declined>>

\* A decision that is neither "decline" nor the policy_id of a candidate
\* raises: the run is then still waiting at the gate.
policy_selection_gate(decision) ==
    /\ node = "policy_selection_gate"
    /\ \/ /\ decision = "decline"
          /\ state' = resolve(state, None, None)
          /\ node' = "notification"
          /\ declined' = declined \cup {state.candidates}
       \/ \E c \in state.candidates :
             /\ c.policy.policy_id = decision
             /\ state' = resolve(state, c.policy, c.score)
             /\ node' = "coverage_check"
             /\ UNCHANGED declined
    /\ UNCHANGED output

-----------------------------------------------------------------------------
\* The judgments and the draft

\* Fault: the bounds of the limit and of the window are excluded.
check_coverage_strictly(intake, policy) ==
    [within_coverage_limit  |-> intake.requested_amount < policy.coverage_limit,
     within_coverage_window |-> /\ policy.coverage_start < intake.incident_date
                                /\ intake.incident_date < policy.coverage_end]

check_coverage(intake, policy) ==
    [within_coverage_limit  |-> intake.requested_amount <= policy.coverage_limit,
     within_coverage_window |-> /\ policy.coverage_start <= intake.incident_date
                                /\ intake.incident_date <= policy.coverage_end]

coverage_check ==
    /\ node = "coverage_check"
    /\ LET result == check_coverage(state.intake, state.resolved_policy)
       IN  /\ state' = [state EXCEPT !.coverage_check = result]
           /\ node' = IF covered(result) THEN "eligibility_judgment" ELSE "notification"
    /\ UNCHANGED <<output, declined>>

eligibility_judgment ==
    /\ node = "eligibility_judgment"
    /\ \E judgment \in EligibilityJudgment :
          /\ state' = [state EXCEPT !.eligibility_judgment = judgment]
          /\ node' = IF covered(state.coverage_check) /\ judgment.eligible
                     THEN "sufficiency_assessment" ELSE "notification"
    /\ UNCHANGED <<output, declined>>

sufficiency_assessment ==
    /\ node = "sufficiency_assessment"
    /\ \E assessment \in SufficiencyAssessment :
          state' = [state EXCEPT !.sufficiency_assessment = assessment]
    /\ node' = "notification"
    /\ UNCHANGED <<output, declined>>

\* The facts a Notification is drafted from; None is "not applicable".
drafted_from(s, wording) ==
    [policy_resolved |-> s.resolved_policy # None,
     covered    |-> IF s.coverage_check = None THEN None ELSE covered(s.coverage_check),
     eligible   |-> IF s.eligibility_judgment = None THEN None
                    ELSE s.eligibility_judgment.eligible,
     sufficient |-> IF s.sufficiency_assessment = None THEN None
                    ELSE s.sufficiency_assessment.sufficient,
     wording    |-> wording]

draft_notification ==
    /\ node = "notification"
    /\ \E wording \in Wordings :
          state' = [state EXCEPT !.notification = drafted_from(state, wording)]
    /\ node' = "final_review_gate"
    /\ UNCHANGED <<output, declined>>

final_review_gate(decision) ==
    /\ node = "final_review_gate"
    /\ state' = [state EXCEPT !.final_decision = decision]
    /\ node' = "END"
    /\ output' = IF decision = "approve" THEN Append(output, state.notification)
                 ELSE output
    /\ UNCHANGED declined

-----------------------------------------------------------------------------
InitialState(intake) ==
    [intake |-> intake, raw_candidates |-> {}, recall_attempt |-> 0,
     recall_query |-> None, candidates |-> {}, resolved_policy |-> None,
     policy_resolution_confidence |-> None, coverage_check |-> None,
     eligibility_judgment |-> None, sufficiency_assessment |-> None,
     notification |-> None, final_decision |-> None]

Init ==
    /\ \E intake \in Intakes : state = InitialState(intake)
    /\ node = "recall"
    /\ output = <<>>
    /\ declined = {}

MachineStep ==
    \/ recall \/ rank \/ coverage_check \/ eligibility_judgment
    \/ sufficiency_assessment \/ draft_notification

HumanStep ==
    \/ \E decision \in PolicyIds \cup {"decline"} : policy_selection_gate(decision)
    \/ \E decision \in Answers : final_review_gate(decision)

\* A finished run stays finished.
Ended == node = "END" /\ UNCHANGED vars

Next == MachineStep \/ HumanStep \/ Ended

\* The graph runs a node as soon as the previous one returned; nobody
\* promises that a human ever answers.
Spec == Init /\ [][Next]_vars /\ WF_vars(MachineStep)

-----------------------------------------------------------------------------
DeclinedTyped == \A candidates \in declined : candidates \subseteq RankedCandidate

TypeOK ==
    /\ state \in TriageState
    /\ node \in Nodes
    /\ output \in Seq(Notification)
    /\ DeclinedTyped

\* Every state["key"] lookup and every assert of a handler holds when its
\* node is about to run: no route of the graph reaches a node before the
\* nodes whose results it reads (the asserts of recall.py, coverage.py,
\* eligibility.py, docs.py and hitl.py).
NodesHaveTheirInputs ==
    /\ state.recall_attempt > 0 => state.recall_query # None
    /\ node \in {"coverage_check", "eligibility_judgment", "sufficiency_assessment"}
          => state.resolved_policy # None
    /\ node = "eligibility_judgment" => state.coverage_check # None
    /\ node = "final_review_gate" => state.notification # None

\* A resolved Policy is one of the candidates shown with exactly the
\* confidence Rank gave it, and either Rank found it unambiguous or Rank
\* found nothing unambiguous among several (_auto_resolve, then the Policy
\* Selection Gate): a human never overrules an automatic resolution.
ResolutionIsJustified ==
    LET automatic == auto_resolve(state.candidates)
    IN  state.resolved_policy # None =>
            \E c \in state.candidates :
                /\ c.policy = state.resolved_policy
                /\ c.score = state.policy_resolution_confidence
                /\ c = rank_score(c.policy, search_query(state.intake))
                /\ automatic = {c} \/ (automatic = {} /\ Several(state.candidates))

\* A claim is written up as "Policy not found" only when Rank found nothing
\* unambiguous, Recall used every attempt, unless several candidates clear
\* the threshold, and of several candidates, strong or weak, a human was
\* shown exactly these and declined (route_after_rank, hitl.py:57-69).
GivesUpOnlyWhenExhausted ==
    /\ node \in {"notification", "final_review_gate", "END"}
    /\ state.resolved_policy = None
    => /\ auto_resolve(state.candidates) = {}
       /\ \/ state.recall_attempt = MAX_RECALL_ATTEMPTS
          \/ Several(above_threshold(state.candidates))
       /\ Several(state.candidates) => state.candidates \in declined

\* A human is asked to choose only among several candidates none of which
\* is a Perfect Score, and never when exactly one clears the threshold.
SelectionIsAmbiguous ==
    node = "policy_selection_gate" =>
        /\ Several(state.candidates)
        /\ perfect_candidates(state.candidates) = {}
        /\ ~Single(above_threshold(state.candidates))

\* policy_id is the primary key and only a match on it brings a score above
\* 50, so with the threshold above that at most one candidate ever clears it:
\* the Policy Selection Gate is then reached only with an exhausted budget.
SelectionOnlyWhenExhausted ==
    MATCH_THRESHOLD > POLICY_ID_WEIGHT =>
        (node = "policy_selection_gate" => state.recall_attempt = MAX_RECALL_ATTEMPTS)

\* The claim names its Policy and its holder correctly, up to case and
\* blanks, and the LLM's query keeps the policy_id and some name.
NamesItsPolicy(p) ==
    /\ state.intake.policy_id = p.policy_id
    /\ name_exact(p, search_query(state.intake))
    /\ state.recall_query # None =>
          /\ state.recall_query.policy_id = p.policy_id
          /\ state.recall_query.holder_name # None

\* Such a claim is resolved to that Policy whatever the LLM made of the
\* name, phone or date of birth: a wrong field costs attempts, and neither
\* the fuzzy query's LIMIT nor a better-looking namesake costs the Policy.
NamedPolicyIsFound ==
    \A p \in Policies :
        NamesItsPolicy(p) /\ TOP_N > 0 /\ node \notin {"recall", "rank"} =>
            /\ node # "policy_selection_gate"
            /\ state.resolved_policy = p
            /\ state.policy_resolution_confidence = PERFECT_SCORE

\* From the draft on, the judgments that were made are exactly those the
\* claim earned: eligibility is judged when and only when the claim falls
\* within the resolved Policy's limit and window, bounds included, and the
\* documents when and only when it was also found eligible (ADR-0002).
JudgmentsAreEarned ==
    LET policy == state.resolved_policy
        within == /\ policy # None
                  /\ state.intake.requested_amount <= policy.coverage_limit
                  /\ state.intake.incident_date \in policy.coverage_start..policy.coverage_end
    IN  node \in {"notification", "final_review_gate", "END"} =>
            /\ state.coverage_check # None <=> policy # None
            /\ state.eligibility_judgment # None <=> within
            /\ state.sufficiency_assessment # None <=>
                  within /\ state.eligibility_judgment.eligible

-----------------------------------------------------------------------------
\* A result, once another was derived from it, is never replaced: Recall's
\* query survives the loop, the Policy stands once its coverage is checked,
\* and each judgment once the next one or the draft used it.
ResultsStand ==
    [][ /\ state.recall_query # None => state'.recall_query = state.recall_query
        /\ state.coverage_check # None =>
              /\ state'.resolved_policy = state.resolved_policy
              /\ state'.coverage_check = state.coverage_check
              /\ state'.candidates = state.candidates
        /\ state.eligibility_judgment # None =>
              state'.eligibility_judgment = state.eligibility_judgment
        /\ state.notification # None => state' = [state EXCEPT !.final_decision =
                                                    state'.final_decision] ]_vars

\* The nodes a run can still come to, at the most: each attempt left is a
\* Recall and a Rank, and after the last Rank come the gate, the coverage
\* check, the two judgments, the draft and the final review.
NodesLeft ==
    LET attempts_left == MAX_RECALL_ATTEMPTS - state.recall_attempt
    IN  CASE node = "recall"                 -> 6 + 2 * attempts_left
          [] node = "rank"                   -> 7 + 2 * attempts_left
          [] node = "policy_selection_gate"  -> 6
          [] node = "coverage_check"         -> 5
          [] node = "eligibility_judgment"   -> 4
          [] node = "sufficiency_assessment" -> 3
          [] node = "notification"           -> 2
          [] node = "final_review_gate"      -> 1
          [] OTHER                           -> 0

\* Whoever takes it, a step of the graph brings the run nearer to its end: no
\* answer of the LLM or of a human makes it go round the edge back to Recall
\* (graph.py:45, ADR-0001) more often than the attempts allow.
EveryNodeIsProgress == [][NodesLeft' < NodesLeft]_vars

\* Without a human's help the graph always comes to a human or to its end:
\* the Broadening loop does not spin.
ReachesAHuman == []<>(node \in HumanGates \cup {"END"})
=============================================================================

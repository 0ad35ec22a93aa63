-------------------------- MODULE TriageGraphProofs --------------------------
(***************************************************************************)
(* What TLAPS proves of a triage run, for every table of Policies, every   *)
(* threshold and every answer of the LLM and of the reviewers.             *)
(***************************************************************************)
EXTENDS TriageGraph, FiniteSetTheorems, TLAPS

-----------------------------------------------------------------------------
\* Rank scores

\* A name is worth at most NAME_WEIGHT, phonetic bonus included.
LEMMA NameScoreBounded ==
    ASSUME NEW p \in Policy, NEW q \in PolicySearchQuery, q.holder_name # None
    PROVE  name_score(q.holder_name, p.holder_name) \in 0..30
<1> DEFINE a == q.holder_name.spelling
           b == p.holder_name.spelling
<1>1. a \in Spellings /\ b \in Spellings
  BY DEF Policy, PolicySearchQuery, Name, Optional
<1>2. Similarity[a][b] \in 0..29
  <2>1. Similarity \in [Spellings -> [Spellings -> 0..29]]
    BY SimilarityAssumption DEF NAME_WEIGHT
  <2> HIDE DEF a, b
  <2> QED
    BY <1>1, <2>1
<1>3. inexact_name_score(a, b) \in 0..30
  <2> HIDE DEF a, b
  <2>1. CASE Metaphone[a] = Metaphone[b]
    BY <1>2, <2>1 DEF inexact_name_score, NAME_WEIGHT, NAME_PHONETIC_BONUS
  <2>2. CASE Metaphone[a] # Metaphone[b]
    BY <1>2, <2>2 DEF inexact_name_score, NAME_WEIGHT, NAME_PHONETIC_BONUS
  <2> QED
    BY <2>1, <2>2
<1> QED
  BY <1>3 DEF name_score, normalize_name, NAME_WEIGHT

\* A score is between 0 and 1, and a candidate is well formed.
LEMMA RankScoreTyped ==
    ASSUME NEW p \in Policy, NEW q \in PolicySearchQuery
    PROVE  rank_score(p, q) \in RankedCandidate
<1>1. q.holder_name # None => name_score(q.holder_name, p.holder_name) \in 0..30
  BY NameScoreBounded
<1>2. weighted_sum(p, q) \in 0..PERFECT_SCORE
  BY <1>1 DEF weighted_sum, NAME_WEIGHT, POLICY_ID_WEIGHT, PHONE_WEIGHT, DOB_WEIGHT,
              PERFECT_SCORE
<1>3. /\ policy_id_exact(p, q) \in BOOLEAN
      /\ name_exact(p, q) \in BOOLEAN
      /\ phone_exact(p, q) \in BOOLEAN
      /\ dob_exact(p, q) \in BOOLEAN
  BY DEF policy_id_exact, name_exact, phone_exact, dob_exact
<1> QED
  BY <1>2, <1>3 DEF rank_score, RankedCandidate, PERFECT_SCORE

\* Without a match on policy_id a score is at most POLICY_ID_WEIGHT: name,
\* phone and date of birth together weigh as much as the id alone.
LEMMA OnlyTheIdWeighsMore ==
    ASSUME NEW p \in Policy, NEW q \in PolicySearchQuery,
           rank_score(p, q).score > POLICY_ID_WEIGHT
    PROVE  policy_id_exact(p, q)
<1>1. q.holder_name # None => name_score(q.holder_name, p.holder_name) \in 0..30
  BY NameScoreBounded
<1>2. ~policy_id_exact(p, q) => weighted_sum(p, q) <= POLICY_ID_WEIGHT
  BY <1>1 DEF weighted_sum, NAME_WEIGHT, POLICY_ID_WEIGHT, PHONE_WEIGHT, DOB_WEIGHT
<1> QED
  BY <1>2, <1>1 DEF rank_score, weighted_sum, NAME_WEIGHT, POLICY_ID_WEIGHT, PHONE_WEIGHT,
     DOB_WEIGHT

-----------------------------------------------------------------------------
\* Every attempt finds rows of the table, and nothing else.
LEMMA RecalledTyped ==
    ASSUME NEW attempt, NEW query, NEW rows \in recalled(attempt, query)
    PROVE  rows \subseteq Policies
BY DEF recalled, find_policies_exact, find_policies_fuzzy_name, fuzzy_hits

\* A claim's search query is well formed.
LEMMA SearchQueryTyped ==
    ASSUME NEW intake \in Intakes
    PROVE  search_query(intake) \in PolicySearchQuery
BY InputsAssumption DEF search_query, IntakeInput, PolicySearchQuery

\* What auto_resolve picks is one of the candidates it is given.
LEMMA AutoResolvePicks ==
    ASSUME NEW candidates
    PROVE  auto_resolve(candidates) \subseteq candidates
BY DEF auto_resolve, perfect_candidates, above_threshold

-----------------------------------------------------------------------------
\* Types.  They hold only together with two facts about control: each node
\* finds its inputs, and Recall is entered only with an attempt left.

AttemptLeft == node = "recall" => state.recall_attempt < MAX_RECALL_ATTEMPTS

\* The candidates come from the table and are scored against the claim.
CandidatesAreScored ==
    \A c \in state.candidates :
        c.policy \in Policies /\ c = rank_score(c.policy, search_query(state.intake))

TypeInv == TypeOK /\ NodesHaveTheirInputs /\ AttemptLeft /\ CandidatesAreScored

LEMMA TypeInvInit == Init => TypeInv
<1> SUFFICES ASSUME Init PROVE TypeInv
  OBVIOUS
<1>1. PICK intake \in Intakes : state = InitialState(intake)
  BY DEF Init
<1>2. state \in TriageState
  BY <1>1 DEF InitialState, TriageState, Optional, MAX_RECALL_ATTEMPTS
<1>3. output \in Seq(Notification) /\ node \in Nodes /\ DeclinedTyped
  BY DEF Init, Nodes, MachineNodes, DeclinedTyped
<1> QED
  BY <1>1, <1>2, <1>3 DEF Init, TypeInv, TypeOK, NodesHaveTheirInputs, AttemptLeft,
     CandidatesAreScored, InitialState, MAX_RECALL_ATTEMPTS

\* A human declines what the gate shows, and nothing is taken back.
LEMMA DeclinedOnlyGrows ==
    ASSUME [Next]_vars
    PROVE  declined \subseteq declined' /\ declined' \subseteq declined \cup {state.candidates}
<1>1. CASE MachineStep
  BY <1>1 DEF MachineStep, recall, rank, coverage_check, eligibility_judgment,
     sufficiency_assessment, draft_notification
<1>2. CASE HumanStep
  BY <1>2 DEF HumanStep, policy_selection_gate, final_review_gate
<1>3. CASE Ended \/ UNCHANGED vars
  BY <1>3 DEF Ended, vars
<1> QED
  BY <1>1, <1>2, <1>3 DEF Next

LEMMA DeclinedStaysTyped ==
    ASSUME TypeInv, [Next]_vars
    PROVE  DeclinedTyped'
<1>1. DeclinedTyped /\ state.candidates \subseteq RankedCandidate
  BY DEF TypeInv, TypeOK, TriageState
<1> QED
  BY <1>1, DeclinedOnlyGrows DEF DeclinedTyped

LEMMA TypeInvNext == TypeInv /\ [Next]_vars => TypeInv'
<1> SUFFICES ASSUME TypeInv, [Next]_vars PROVE TypeInv'
  OBVIOUS
<1>d. DeclinedTyped'
  BY DeclinedStaysTyped
<1> USE DEF TypeInv
<1>1. CASE recall
  <2> DEFINE attempt == state.recall_attempt + 1
  <2>q. PICK query \in build_query(attempt) : \E rows \in recalled(attempt, query) :
            state' = recalled_state(rows, attempt, query)
    BY <1>1 DEF recall
  <2>1. PICK rows \in recalled(attempt, query) :
            state' = recalled_state(rows, attempt, query)
    BY <2>q
  <2>2. attempt \in 1..MAX_RECALL_ATTEMPTS
    BY <1>1 DEF recall, TypeOK, TriageState, AttemptLeft, MAX_RECALL_ATTEMPTS
  <2>3. query \in LLMQueries /\ query # None
    <3>1. None \notin LLMQueries
      BY InputsAssumption, NoneAssumption
    <3>2. attempt # 1 => state.recall_query \in LLMQueries
      BY <2>2 DEF TypeOK, TriageState, NodesHaveTheirInputs, Optional, MAX_RECALL_ATTEMPTS
    <3> QED
      BY <3>1, <3>2 DEF build_query
  <2>4. rows \subseteq Policies
    BY RecalledTyped
  <2>5. state' \in TriageState
    <3>1. attempt \in 0..MAX_RECALL_ATTEMPTS /\ query \in Optional(LLMQueries)
      BY <2>2, <2>3 DEF MAX_RECALL_ATTEMPTS, Optional
    <3> HIDE DEF attempt
    <3> QED
      BY <2>1, <2>4, <3>1 DEF recalled_state, TypeOK, TriageState
  <2>6. node' = "rank" /\ output' = output
    BY <1>1 DEF recall
  <2> QED
    BY <1>d, <2>1, <2>3, <2>5, <2>6 DEF recalled_state, TypeOK, TriageState, NodesHaveTheirInputs, AttemptLeft,
       CandidatesAreScored, Nodes, MachineNodes
<1>2. CASE rank
  <2> DEFINE query      == search_query(state.intake)
             candidates == {rank_score(p, query) : p \in state.raw_candidates}
             scored     == [state EXCEPT !.candidates = candidates]
  <2>1. /\ candidates \subseteq RankedCandidate
        /\ \A c \in candidates : c.policy \in Policies /\ c = rank_score(c.policy, query)
    <3>1. query \in PolicySearchQuery
      BY SearchQueryTyped DEF TypeOK, TriageState
    <3>2. state.raw_candidates \subseteq Policies /\ Policies \subseteq Policy
      BY PoliciesAssumption DEF TypeOK, TriageState
    <3>3. \A p \in state.raw_candidates :
             rank_score(p, query) \in RankedCandidate /\ rank_score(p, query).policy = p
      BY <3>1, <3>2, RankScoreTyped DEF rank_score
    <3> HIDE DEF query
    <3> QED
      BY <3>2, <3>3
  <2>2. PICK policy \in Optional(Policies), confidence \in Optional(0..PERFECT_SCORE) :
            state' = resolve(scored, policy, confidence)
    <3>1. \A c \in auto_resolve(candidates) :
             c.policy \in Policies /\ c.score \in 0..PERFECT_SCORE
      BY <2>1, AutoResolvePicks DEF RankedCandidate
    <3> QED
      BY <1>2, <3>1 DEF rank, Optional
  <2>3. /\ node' = route_after_rank(state')
        /\ output' = output
    BY <1>2 DEF rank
  <2>4. state' \in TriageState
    BY <2>1, <2>2 DEF resolve, TypeOK, TriageState
  <2>5. /\ state'.candidates = candidates
        /\ state'.intake = state.intake
        /\ state'.recall_query = state.recall_query
        /\ state'.recall_attempt = state.recall_attempt
    BY <2>2 DEF resolve, TypeOK, TriageState
  <2>6. /\ node' \in {"coverage_check", "recall", "policy_selection_gate", "notification"}
        /\ node' = "coverage_check" => state'.resolved_policy # None
        /\ node' = "recall" => state'.recall_attempt < MAX_RECALL_ATTEMPTS
    BY <2>3 DEF route_after_rank
  <2>7. NodesHaveTheirInputs' /\ AttemptLeft'
    BY <2>5, <2>6 DEF NodesHaveTheirInputs, AttemptLeft
  <2>8. CandidatesAreScored'
    BY <2>1, <2>5 DEF CandidatesAreScored
  <2> QED
    BY <1>d, <2>3, <2>4, <2>6, <2>7, <2>8 DEF TypeOK, Nodes, MachineNodes, HumanGates
<1>3. CASE coverage_check
  <2>1. PICK result \in CoverageCheckResult :
            /\ state' = [state EXCEPT !.coverage_check = result]
            /\ node' = IF covered(result) THEN "eligibility_judgment" ELSE "notification"
    <3> DEFINE policy == state.resolved_policy
               intake == state.intake
    <3>1. policy \in Policy /\ intake \in IntakeInput
      BY <1>3, PoliciesAssumption, InputsAssumption
         DEF coverage_check, NodesHaveTheirInputs, TypeOK, TriageState, Optional
    <3>2. check_coverage(intake, policy) \in CoverageCheckResult
      BY <3>1 DEF check_coverage, Policy, IntakeInput, CoverageCheckResult
    <3> QED
      BY <1>3, <3>2 DEF coverage_check
  <2>2. state' \in TriageState
    BY <2>1 DEF TypeOK, TriageState, Optional
  <2>3. /\ state'.candidates = state.candidates
        /\ state'.intake = state.intake
        /\ state'.resolved_policy = state.resolved_policy
        /\ state'.recall_query = state.recall_query
        /\ state'.recall_attempt = state.recall_attempt
        /\ state'.coverage_check # None
    BY <2>1, ResultsAssumption DEF TypeOK, TriageState
  <2> QED
    BY <1>d, <1>3, <2>1, <2>2, <2>3 DEF coverage_check, TypeOK, NodesHaveTheirInputs, AttemptLeft,
       CandidatesAreScored, Nodes, MachineNodes
<1>4. CASE eligibility_judgment
  <2>1. state' \in TriageState /\ output' \in Seq(Notification) /\ node' \in Nodes
    BY <1>4 DEF eligibility_judgment, TypeOK, NodesHaveTheirInputs, TriageState, Optional, Nodes, MachineNodes,
       HumanGates, EligibilityJudgment, covered
  <2>2. NodesHaveTheirInputs' /\ AttemptLeft' /\ CandidatesAreScored'
    BY <1>4 DEF eligibility_judgment, TypeOK, TriageState, Optional, NodesHaveTheirInputs, AttemptLeft,
       CandidatesAreScored, EligibilityJudgment, covered
  <2> QED
    BY <1>d, <2>1, <2>2 DEF TypeOK
<1>5. CASE sufficiency_assessment
  <2>1. state' \in TriageState /\ output' \in Seq(Notification) /\ node' \in Nodes
    BY <1>5 DEF sufficiency_assessment, TypeOK, NodesHaveTheirInputs, TriageState, Optional, Nodes, MachineNodes,
       HumanGates, SufficiencyAssessment
  <2>2. NodesHaveTheirInputs' /\ AttemptLeft' /\ CandidatesAreScored'
    BY <1>5 DEF sufficiency_assessment, TypeOK, TriageState, Optional, NodesHaveTheirInputs, AttemptLeft,
       CandidatesAreScored, SufficiencyAssessment
  <2> QED
    BY <1>d, <2>1, <2>2 DEF TypeOK
<1>6. CASE draft_notification
  <2>1. PICK wording \in Wordings :
            state' = [state EXCEPT !.notification = drafted_from(state, wording)]
    BY <1>6 DEF draft_notification
  <2>n. drafted_from(state, wording) \in Notification
    BY DEF drafted_from, Notification, TypeOK, TriageState, Optional, covered,
       CoverageCheckResult, EligibilityJudgment, SufficiencyAssessment
  <2>2. state' \in TriageState
    BY <2>1, <2>n DEF TypeOK, TriageState, Optional
  <2>3. /\ state'.candidates = state.candidates
        /\ state'.intake = state.intake
        /\ state'.recall_query = state.recall_query
        /\ state'.recall_attempt = state.recall_attempt
        /\ state'.notification # None
    BY <2>1, <2>n, ResultsAssumption DEF TypeOK, TriageState
  <2> QED
    BY <1>d, <1>6, <2>2, <2>3 DEF draft_notification, TypeOK, NodesHaveTheirInputs, AttemptLeft,
       CandidatesAreScored, Nodes, HumanGates
<1>7. ASSUME NEW decision \in PolicyIds \cup {"decline"}, policy_selection_gate(decision)
      PROVE  TypeInv'
  <2>1. PICK policy \in Optional(Policies), confidence \in Optional(0..PERFECT_SCORE) :
            /\ state' = resolve(state, policy, confidence)
            /\ node' \in {"coverage_check", "notification"}
            /\ node' = "coverage_check" => policy # None
    <3>1. \A c \in state.candidates : /\ c.policy \in Policies /\ c.policy # None
                                      /\ c.score \in 0..PERFECT_SCORE
      BY PoliciesAssumption, NoneAssumption
         DEF CandidatesAreScored, TypeOK, TriageState, RankedCandidate
    <3> QED
      BY <1>7, <3>1 DEF policy_selection_gate, Optional
  <2>2. state' \in TriageState
    BY <2>1 DEF resolve, TypeOK, TriageState
  <2>3. /\ state'.candidates = state.candidates
        /\ state'.intake = state.intake
        /\ state'.recall_query = state.recall_query
        /\ state'.recall_attempt = state.recall_attempt
        /\ node' = "coverage_check" => state'.resolved_policy # None
    BY <2>1 DEF resolve, TypeOK, TriageState
  <2>4. output' = output
    BY <1>7 DEF policy_selection_gate
  <2> QED
    BY <1>d, <2>1, <2>2, <2>3, <2>4 DEF TypeOK, NodesHaveTheirInputs, AttemptLeft,
       CandidatesAreScored, Nodes, MachineNodes
<1>8. ASSUME NEW decision \in Answers, final_review_gate(decision)
      PROVE  TypeInv'
  <2>a. /\ node = "final_review_gate" /\ node' = "END"
        /\ state' = [state EXCEPT !.final_decision = decision]
        /\ output' \in {output, Append(output, state.notification)}
    BY <1>8 DEF final_review_gate
  <2>b. state' \in TriageState /\ node' \in Nodes
    BY <2>a DEF TypeOK, TriageState, Optional, Nodes
  <2>c. state.notification \in Notification /\ output \in Seq(Notification)
    BY <2>a DEF TypeOK, NodesHaveTheirInputs, TriageState, Optional
  <2>1. state' \in TriageState /\ output' \in Seq(Notification) /\ node' \in Nodes
    BY <2>a, <2>b, <2>c
  <2>2. NodesHaveTheirInputs' /\ AttemptLeft' /\ CandidatesAreScored'
    BY <1>8 DEF final_review_gate, TypeOK, TriageState, Optional, NodesHaveTheirInputs, AttemptLeft,
       CandidatesAreScored
  <2> QED
    BY <1>d, <2>1, <2>2 DEF TypeOK
<1>9. CASE UNCHANGED vars
  BY <1>9, <1>d DEF vars, TypeOK, NodesHaveTheirInputs, AttemptLeft, CandidatesAreScored
<1> QED
  BY <1>1, <1>2, <1>3, <1>4, <1>5, <1>6, <1>7, <1>8, <1>9
     DEF Next, MachineStep, HumanStep, Ended

\* Every state of a run is well typed: the attempts stay within the budget,
\* the candidates are rows of the table with a score between 0 and 1.
THEOREM Typing == Spec => []TypeOK
<1>1. TypeInv => TypeOK
  BY DEF TypeInv
<1> QED
  BY <1>1, TypeInvInit, TypeInvNext, PTL DEF Spec

\* No handler fails on a missing input: every assert and every lookup of
\* the shared state holds when its node is about to run.
THEOREM InputsArePresent == Spec => []NodesHaveTheirInputs
<1>1. TypeInv => NodesHaveTheirInputs
  BY DEF TypeInv
<1> QED
  BY <1>1, TypeInvInit, TypeInvNext, PTL DEF Spec

-----------------------------------------------------------------------------
\* Policy Resolution.  The invariants about it are inductive together, with
\* what is known at the Policy Selection Gate: nothing was resolved, and the
\* budget is used up unless candidates clear the threshold.

SelectionInv ==
    node = "policy_selection_gate" =>
        /\ state.resolved_policy = None
        /\ auto_resolve(state.candidates) = {}
        /\ Several(state.candidates)
        /\ above_threshold(state.candidates) = {} =>
              state.recall_attempt = MAX_RECALL_ATTEMPTS

ResolutionInv ==
    TypeInv /\ SelectionInv /\ ResolutionIsJustified /\ GivesUpOnlyWhenExhausted

\* policy_id is a key, so at most one candidate is a Perfect Score.
LEMMA AtMostOnePerfect ==
    ASSUME TypeInv, NEW c \in perfect_candidates(state.candidates),
           NEW d \in perfect_candidates(state.candidates)
    PROVE  c = d
<1> DEFINE query == search_query(state.intake)
<1>1. /\ c.policy \in Policies /\ c = rank_score(c.policy, query) /\ c.policy_id_exact
      /\ d.policy \in Policies /\ d = rank_score(d.policy, query) /\ d.policy_id_exact
  BY DEF TypeInv, CandidatesAreScored, perfect_candidates, is_perfect
<1>2. policy_id_exact(c.policy, query) /\ policy_id_exact(d.policy, query)
  BY <1>1 DEF rank_score
<1>3. c.policy = d.policy
  BY <1>1, <1>2, PoliciesAssumption DEF policy_id_exact
<1> QED
  BY <1>1, <1>3

\* With a threshold above POLICY_ID_WEIGHT at most one candidate clears it.
LEMMA AtMostOneClears ==
    ASSUME TypeInv, MATCH_THRESHOLD > POLICY_ID_WEIGHT,
           NEW c \in above_threshold(state.candidates),
           NEW d \in above_threshold(state.candidates)
    PROVE  c = d
<1> DEFINE query == search_query(state.intake)
<1>1. /\ c.policy \in Policies /\ c = rank_score(c.policy, query) /\ c.score >= MATCH_THRESHOLD
      /\ d.policy \in Policies /\ d = rank_score(d.policy, query) /\ d.score >= MATCH_THRESHOLD
  BY DEF TypeInv, CandidatesAreScored, above_threshold
<1>2. query \in PolicySearchQuery /\ Policies \subseteq Policy
  BY SearchQueryTyped, PoliciesAssumption DEF TypeInv, TypeOK, TriageState
<1>3. c.score \in Int /\ d.score \in Int
  <2>1. state.candidates \subseteq RankedCandidate
    BY DEF TypeInv, TypeOK, TriageState
  <2> QED
    BY <2>1 DEF above_threshold, RankedCandidate, PERFECT_SCORE
<1>4. c.score > POLICY_ID_WEIGHT /\ d.score > POLICY_ID_WEIGHT
  BY <1>1, <1>3, ThresholdAssumption DEF POLICY_ID_WEIGHT
<1>5. policy_id_exact(c.policy, query) /\ policy_id_exact(d.policy, query)
  <2> HIDE DEF query
  <2> QED
    BY <1>1, <1>2, <1>4, OnlyTheIdWeighsMore
<1>6. c.policy = d.policy
  BY <1>1, <1>5, PoliciesAssumption DEF policy_id_exact
<1> QED
  BY <1>1, <1>6

\* When nothing is resolved automatically nothing is unique.
LEMMA AmbiguousMeansNoneSingle ==
    ASSUME NEW candidates, auto_resolve(candidates) = {}
    PROVE  ~Single(perfect_candidates(candidates)) /\ ~Single(above_threshold(candidates))
BY DEF auto_resolve, Single

\* What one pass of Rank leaves behind.
LEMMA RankOutcome ==
    ASSUME TypeInv, rank
    PROVE  LET automatic == auto_resolve(state'.candidates)
           IN  /\ node' = route_after_rank(state')
               /\ state'.intake = state.intake
               /\ state'.recall_attempt = state.recall_attempt
               /\ \/ automatic = {} /\ state'.resolved_policy = None
                  \/ \E c \in automatic :
                        /\ automatic = {c}
                        /\ state'.resolved_policy = c.policy
                        /\ state'.policy_resolution_confidence = c.score
<1> DEFINE candidates == {rank_score(p, search_query(state.intake)) : p \in state.raw_candidates}
           scored     == [state EXCEPT !.candidates = candidates]
<1>1. \/ auto_resolve(candidates) = {} /\ state' = resolve(scored, None, None)
      \/ \E c \in auto_resolve(candidates) : state' = resolve(scored, c.policy, c.score)
  BY DEF rank
<1>2. \A c \in auto_resolve(candidates) : auto_resolve(candidates) = {c}
  BY DEF auto_resolve, Single
<1>3. node' = route_after_rank(state')
  BY DEF rank
<1> HIDE DEF candidates
<1>4. state \in TriageState
  BY DEF TypeInv, TypeOK
<1>5. ASSUME NEW policy, NEW confidence, state' = resolve(scored, policy, confidence)
      PROVE  /\ state'.candidates = candidates
             /\ state'.intake = state.intake
             /\ state'.recall_attempt = state.recall_attempt
             /\ state'.resolved_policy = policy
             /\ state'.policy_resolution_confidence = confidence
  BY <1>4, <1>5 DEF resolve, TriageState
<1>6. CASE auto_resolve(candidates) = {} /\ state' = resolve(scored, None, None)
  BY <1>3, <1>5, <1>6
<1>7. ASSUME NEW c \in auto_resolve(candidates), state' = resolve(scored, c.policy, c.score)
      PROVE  /\ state'.candidates = candidates
             /\ state'.intake = state.intake
             /\ state'.recall_attempt = state.recall_attempt
             /\ auto_resolve(candidates) = {c}
             /\ state'.resolved_policy = c.policy
             /\ state'.policy_resolution_confidence = c.score
  <2> HIDE DEF scored
  <2> QED
    BY <1>2, <1>5, <1>7
<1> QED
  BY <1>1, <1>3, <1>6, <1>7

LEMMA ResolutionInvInit == Init => ResolutionInv
<1> SUFFICES ASSUME Init PROVE ResolutionInv
  OBVIOUS
<1>1. node = "recall" /\ state.resolved_policy = None
  BY DEF Init, InitialState
<1> QED
  BY <1>1, TypeInvInit DEF ResolutionInv, SelectionInv, ResolutionIsJustified,
     GivesUpOnlyWhenExhausted

\* A step that leaves the resolution, the candidates and the claim alone, and
\* comes from a node where the Policy is known or the draft is made.
LEMMA ResolutionUntouched ==
    ASSUME ResolutionInv, TypeInv',
           state'.intake = state.intake, state'.candidates = state.candidates,
           state'.resolved_policy = state.resolved_policy,
           state'.policy_resolution_confidence = state.policy_resolution_confidence,
           state'.recall_attempt = state.recall_attempt,
           node' # "policy_selection_gate", declined' = declined,
           \/ node' \notin {"notification", "final_review_gate", "END"}
           \/ state.resolved_policy # None
           \/ node \in {"notification", "final_review_gate"}
    PROVE  ResolutionInv'
BY DEF ResolutionInv, SelectionInv, ResolutionIsJustified, GivesUpOnlyWhenExhausted

LEMMA ResolutionInvNext == ResolutionInv /\ [Next]_vars => ResolutionInv'
<1> SUFFICES ASSUME ResolutionInv, [Next]_vars PROVE ResolutionInv'
  OBVIOUS
<1>t. TypeInv /\ TypeInv' /\ state \in TriageState
  BY TypeInvNext DEF ResolutionInv, TypeInv, TypeOK
<1>1. CASE recall
  <2>1. PICK attempt, query, rows :
            state' = recalled_state(rows, attempt, query)
    BY <1>1 DEF recall
  <2>2. /\ state'.intake = state.intake
        /\ state'.candidates = state.candidates
        /\ state'.resolved_policy = state.resolved_policy
        /\ state'.policy_resolution_confidence = state.policy_resolution_confidence
    BY <2>1, <1>t DEF recalled_state, TriageState
  <2> QED
    BY <1>1, <1>t, <2>2 DEF recall, ResolutionInv, SelectionInv, ResolutionIsJustified,
       GivesUpOnlyWhenExhausted
<1>2. CASE rank
  <2> DEFINE automatic == auto_resolve(state'.candidates)
  <2>1. /\ node' = route_after_rank(state')
        /\ \/ automatic = {} /\ state'.resolved_policy = None
           \/ \E c \in automatic : /\ automatic = {c}
                                   /\ state'.resolved_policy = c.policy
                                   /\ state'.policy_resolution_confidence = c.score
    BY <1>2, <1>t, RankOutcome
  <2>2. CASE automatic = {} /\ state'.resolved_policy = None
    <3>1. ~Single(above_threshold(state'.candidates))
      BY <2>2, AmbiguousMeansNoneSingle
    <3>2. SelectionInv'
      BY <1>t, <2>1, <2>2 DEF SelectionInv, route_after_rank, TypeInv, TypeOK, TriageState,
         MAX_RECALL_ATTEMPTS
    <3>3. ~Several(state'.candidates) => above_threshold(state'.candidates) = {}
      BY <3>1 DEF Several, Single, above_threshold
    <3>4. GivesUpOnlyWhenExhausted'
      BY <1>t, <2>1, <2>2, <3>3 DEF GivesUpOnlyWhenExhausted, route_after_rank, TypeInv, TypeOK,
         TriageState, MAX_RECALL_ATTEMPTS
    <3> QED
      BY <1>t, <2>2, <3>2, <3>4 DEF ResolutionInv, ResolutionIsJustified
  <2>3. ASSUME NEW c \in automatic, automatic = {c}, state'.resolved_policy = c.policy,
               state'.policy_resolution_confidence = c.score
        PROVE  ResolutionInv'
    <3>1. /\ c \in state'.candidates
          /\ c.policy # None
          /\ c = rank_score(c.policy, search_query(state'.intake))
      BY <1>t, AutoResolvePicks, PoliciesAssumption, NoneAssumption
         DEF TypeInv, CandidatesAreScored
    <3>2. node' = "coverage_check"
      BY <2>1, <2>3, <3>1 DEF route_after_rank
    <3> QED
      BY <1>t, <2>3, <3>1, <3>2 DEF ResolutionInv, SelectionInv, ResolutionIsJustified,
         GivesUpOnlyWhenExhausted
  <2> QED
    BY <2>1, <2>2, <2>3
<1>3. CASE coverage_check \/ eligibility_judgment \/ sufficiency_assessment
  <2>1. /\ state'.intake = state.intake
        /\ state'.candidates = state.candidates
        /\ state'.resolved_policy = state.resolved_policy
        /\ state'.policy_resolution_confidence = state.policy_resolution_confidence
        /\ state'.recall_attempt = state.recall_attempt
    BY <1>3, <1>t DEF coverage_check, eligibility_judgment, sufficiency_assessment, TriageState
  <2>2. state.resolved_policy # None
    BY <1>3, <1>t DEF coverage_check, eligibility_judgment, sufficiency_assessment, TypeInv,
       NodesHaveTheirInputs
  <2>3. node' # "policy_selection_gate" /\ declined' = declined
    BY <1>3 DEF coverage_check, eligibility_judgment, sufficiency_assessment
  <2> QED
    BY <1>t, <2>1, <2>2, <2>3, ResolutionUntouched
<1>4. ASSUME \/ draft_notification
             \/ \E decision \in Answers : final_review_gate(decision)
      PROVE  ResolutionInv'
  <2>1. /\ state'.intake = state.intake
        /\ state'.candidates = state.candidates
        /\ state'.resolved_policy = state.resolved_policy
        /\ state'.policy_resolution_confidence = state.policy_resolution_confidence
        /\ state'.recall_attempt = state.recall_attempt
    BY <1>4, <1>t DEF draft_notification, final_review_gate, TriageState
  <2>2. /\ node \in {"notification", "final_review_gate"}
        /\ node' # "policy_selection_gate" /\ declined' = declined
    BY <1>4 DEF draft_notification, final_review_gate
  <2> QED
    BY <1>t, <2>1, <2>2, ResolutionUntouched
<1>5. ASSUME NEW decision \in PolicyIds \cup {"decline"}, policy_selection_gate(decision)
      PROVE  ResolutionInv'
  <2>1. /\ auto_resolve(state.candidates) = {}
        /\ Several(state.candidates)
    BY <1>5 DEF ResolutionInv, SelectionInv, policy_selection_gate
  <2>2. ASSUME NEW policy, NEW confidence, state' = resolve(state, policy, confidence)
        PROVE  /\ state'.intake = state.intake
               /\ state'.candidates = state.candidates
               /\ state'.recall_attempt = state.recall_attempt
               /\ state'.resolved_policy = policy
               /\ state'.policy_resolution_confidence = confidence
    BY <1>t, <2>2 DEF resolve, TriageState
  <2>e. above_threshold(state.candidates) # {} => Several(above_threshold(state.candidates))
    BY <2>1, AmbiguousMeansNoneSingle DEF Single, Several
  <2>a. /\ state.recall_attempt = MAX_RECALL_ATTEMPTS
           \/ Several(above_threshold(state.candidates))
    BY <1>5, <2>e DEF ResolutionInv, SelectionInv, policy_selection_gate
  <2>3. CASE /\ state' = resolve(state, None, None) /\ node' = "notification"
             /\ declined' = declined \cup {state.candidates}
    BY <1>t, <2>1, <2>2, <2>a, <2>3 DEF ResolutionInv, SelectionInv, ResolutionIsJustified,
       GivesUpOnlyWhenExhausted
  <2>4. ASSUME NEW c \in state.candidates, state' = resolve(state, c.policy, c.score),
               node' = "coverage_check"
        PROVE  ResolutionInv'
    BY <1>t, <2>1, <2>2, <2>4 DEF ResolutionInv, SelectionInv, ResolutionIsJustified,
       GivesUpOnlyWhenExhausted, TypeInv, CandidatesAreScored
  <2> QED
    BY <1>5, <2>3, <2>4 DEF policy_selection_gate
<1>6. CASE UNCHANGED vars
  BY <1>t, <1>6 DEF vars, ResolutionInv, SelectionInv, ResolutionIsJustified,
     GivesUpOnlyWhenExhausted
<1> QED
  BY <1>1, <1>2, <1>3, <1>4, <1>5, <1>6 DEF Next, MachineStep, HumanStep, Ended

\* A Policy is resolved by Rank alone when it is unambiguous and by a human
\* only among several candidates Rank could not tell apart.
THEOREM ResolutionJustified == Spec => []ResolutionIsJustified
<1>1. ResolutionInv => ResolutionIsJustified
  BY DEF ResolutionInv
<1> QED
  BY <1>1, ResolutionInvInit, ResolutionInvNext, PTL DEF Spec

\* No claim is written up without a Policy while an attempt is left, unless
\* several candidates clear the threshold, and no human is passed over: among
\* several candidates somebody was shown exactly these and declined.
THEOREM GivingUp == Spec => []GivesUpOnlyWhenExhausted
<1>1. ResolutionInv => GivesUpOnlyWhenExhausted
  BY DEF ResolutionInv
<1> QED
  BY <1>1, ResolutionInvInit, ResolutionInvNext, PTL DEF Spec

\* No single perfect candidate among primary keys means no perfect one at all.
LEMMA SelectionFollows == ResolutionInv => SelectionIsAmbiguous
<1> SUFFICES ASSUME ResolutionInv, node = "policy_selection_gate"
             PROVE  /\ Several(state.candidates)
                    /\ perfect_candidates(state.candidates) = {}
                    /\ ~Single(above_threshold(state.candidates))
  BY DEF SelectionIsAmbiguous
<1>1. Several(state.candidates) /\ auto_resolve(state.candidates) = {}
  BY DEF ResolutionInv, SelectionInv
<1>2. /\ ~Single(perfect_candidates(state.candidates))
      /\ ~Single(above_threshold(state.candidates))
  BY <1>1, AmbiguousMeansNoneSingle
<1>3. perfect_candidates(state.candidates) = {}
  BY <1>2, AtMostOnePerfect DEF ResolutionInv, Single
<1> QED
  BY <1>1, <1>2, <1>3

\* A human is never asked to choose when Rank could: in particular a Perfect
\* Score is never among the candidates of the Policy Selection Gate.
THEOREM Selection == Spec => []SelectionIsAmbiguous
BY SelectionFollows, ResolutionInvInit, ResolutionInvNext, PTL DEF Spec

\* With a threshold above POLICY_ID_WEIGHT, as by default, a human is asked to
\* choose only after every Broadening attempt.
THEOREM SelectionIsTheLastResort == Spec => []SelectionOnlyWhenExhausted
<1>1. ResolutionInv => SelectionOnlyWhenExhausted
  <2> SUFFICES ASSUME ResolutionInv, MATCH_THRESHOLD > POLICY_ID_WEIGHT,
                      node = "policy_selection_gate"
               PROVE  state.recall_attempt = MAX_RECALL_ATTEMPTS
    BY DEF SelectionOnlyWhenExhausted
  <2>1. ~Single(above_threshold(state.candidates))
    BY AmbiguousMeansNoneSingle DEF ResolutionInv, SelectionInv
  <2>2. above_threshold(state.candidates) = {}
    BY <2>1, AtMostOneClears DEF ResolutionInv, Single
  <2> QED
    BY <2>2 DEF ResolutionInv, SelectionInv
<1> QED
  BY <1>1, ResolutionInvInit, ResolutionInvNext, PTL DEF Spec

-----------------------------------------------------------------------------
\* Progress.  Rank runs only once Recall has counted its attempt.
RankedWasRecalled == node = "rank" => state.recall_attempt > 0

\* What a step does to the attempts, the one part of the state NodesLeft reads.
LEMMA StepsOfTheGraph ==
    ASSUME TypeInv, [Next]_vars
    PROVE  \/ /\ node = "recall" /\ node' = "rank"
              /\ state'.recall_attempt = state.recall_attempt + 1
           \/ /\ state'.recall_attempt = state.recall_attempt
              /\ \/ node = "rank" /\ node' = "recall"
                    /\ state.recall_attempt < MAX_RECALL_ATTEMPTS
                 \/ node = "rank" /\ node' \in {"policy_selection_gate",
                                                "coverage_check", "notification"}
                 \/ node = "policy_selection_gate"
                    /\ node' \in {"coverage_check", "notification"}
                 \/ node = "coverage_check" /\ node' \in {"eligibility_judgment",
                                                          "notification"}
                 \/ node = "eligibility_judgment" /\ node' \in {"sufficiency_assessment",
                                                                "notification"}
                 \/ node = "sufficiency_assessment" /\ node' = "notification"
                 \/ node = "notification" /\ node' = "final_review_gate"
                 \/ node = "final_review_gate" /\ node' = "END"
           \/ UNCHANGED vars
<1>t. state \in TriageState
  BY DEF TypeInv, TypeOK
<1>1. CASE recall
  BY <1>1, <1>t DEF recall, recalled_state, TriageState
<1>2. CASE rank
  <2>1. state'.recall_attempt = state.recall_attempt
    BY <1>2, <1>t DEF rank, resolve, TriageState
  <2> QED
    BY <1>2, <2>1 DEF rank, route_after_rank
<1>3. ASSUME NEW decision, policy_selection_gate(decision)
      PROVE  /\ state'.recall_attempt = state.recall_attempt
             /\ node = "policy_selection_gate"
             /\ node' \in {"coverage_check", "notification"}
  BY <1>3, <1>t DEF policy_selection_gate, resolve, TriageState
<1>4. CASE coverage_check \/ eligibility_judgment \/ sufficiency_assessment \/ draft_notification
  BY <1>4, <1>t DEF coverage_check, eligibility_judgment, sufficiency_assessment,
     draft_notification, TriageState
<1>5. ASSUME NEW decision, final_review_gate(decision)
      PROVE  /\ state'.recall_attempt = state.recall_attempt
             /\ node = "final_review_gate" /\ node' = "END"
  BY <1>5, <1>t DEF final_review_gate, TriageState
<1> QED
  BY <1>1, <1>2, <1>3, <1>4, <1>5 DEF Next, MachineStep, HumanStep, Ended

\* The measure never has far to go, and each step takes from it.
LEMMA NodesLeftBounded == TypeInv /\ RankedWasRecalled => NodesLeft \in 0..12
<1> SUFFICES ASSUME TypeInv, RankedWasRecalled PROVE NodesLeft \in 0..12
  OBVIOUS
<1>1. state.recall_attempt \in 0..3
  BY DEF TypeInv, TypeOK, TriageState, MAX_RECALL_ATTEMPTS
<1> QED
  BY <1>1 DEF NodesLeft, RankedWasRecalled, MAX_RECALL_ATTEMPTS

LEMMA NodesLeftFalls == TypeInv /\ [Next]_vars => [NodesLeft' < NodesLeft]_vars
<1> SUFFICES ASSUME TypeInv, [Next]_vars, ~UNCHANGED vars PROVE NodesLeft' < NodesLeft
  OBVIOUS
<1>1. state.recall_attempt \in 0..3
  BY DEF TypeInv, TypeOK, TriageState, MAX_RECALL_ATTEMPTS
<1>2. CASE node = "recall"
  BY <1>1, <1>2, StepsOfTheGraph DEF NodesLeft, MAX_RECALL_ATTEMPTS
<1>3. CASE node = "rank"
  BY <1>1, <1>3, StepsOfTheGraph DEF NodesLeft, MAX_RECALL_ATTEMPTS
<1>4. CASE node \notin {"recall", "rank"}
  BY <1>4, StepsOfTheGraph DEF NodesLeft
<1> QED
  BY <1>2, <1>3, <1>4

LEMMA ProgressInv == Spec => [](TypeInv /\ RankedWasRecalled)
<1>1. Init => TypeInv /\ RankedWasRecalled
  BY TypeInvInit DEF Init, RankedWasRecalled
<1>2. TypeInv /\ RankedWasRecalled /\ [Next]_vars => (TypeInv /\ RankedWasRecalled)'
  <2> SUFFICES ASSUME TypeInv, RankedWasRecalled, [Next]_vars
               PROVE  TypeInv' /\ RankedWasRecalled'
    OBVIOUS
  <2>1. TypeInv'
    BY TypeInvNext
  <2>2. state.recall_attempt \in Nat
    BY DEF TypeInv, TypeOK, TriageState
  <2>3. RankedWasRecalled'
    BY <2>2, StepsOfTheGraph DEF RankedWasRecalled, vars
  <2> QED
    BY <2>1, <2>3
<1> QED
  BY <1>1, <1>2, PTL DEF Spec

\* A step of the graph is progress, whoever takes it (EveryNodeIsProgress).
THEOREM NodesRunOut == Spec => EveryNodeIsProgress
<1>1. TypeInv /\ RankedWasRecalled /\ [Next]_vars => [NodesLeft' < NodesLeft]_vars
  BY NodesLeftFalls
<1> QED
  BY <1>1, ProgressInv, PTL DEF Spec, EveryNodeIsProgress

\* ... and a run comes to at most 12 nodes, whatever the table, the LLM and
\* the humans say: three attempts of two nodes each, and six after them.
THEOREM RunsAreShort == Spec => [](NodesLeft \in 0..12)
BY ProgressInv, NodesLeftBounded, PTL
=============================================================================

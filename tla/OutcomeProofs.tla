--------------------------- MODULE OutcomeProofs ---------------------------
(***************************************************************************)
(* What a claim comes to, for every table, LLM, similarity measure and     *)
(* threshold: one that names its Policy and holder is resolved to that     *)
(* Policy, the judgments made are those the claim earned, and no result    *)
(* that another was derived from is replaced.                              *)
(***************************************************************************)
EXTENDS TriageGraphProofs

(***************************************************************************)
(* A named Policy is found, for every LIMIT of at least one row.           *)
(***************************************************************************)
\* Before Rank the named Policy is found, or nothing is and an attempt is
\* left; after Rank it is the resolved one.
OnTheWay(p) ==
    /\ node = "rank" => \/ p \in state.raw_candidates
                        \/ /\ state.raw_candidates = {}
                           /\ state.recall_attempt < MAX_RECALL_ATTEMPTS
    /\ node \notin {"recall", "rank"} =>
          /\ node # "policy_selection_gate"
          /\ state.resolved_policy = p
          /\ state.policy_resolution_confidence = PERFECT_SCORE

NamedInv ==
    /\ TypeInv
    /\ \A p \in Policies : NamesItsPolicy(p) /\ TOP_N > 0 => OnTheWay(p)

LEMMA NamedInvInit == Init => NamedInv
BY TypeInvInit DEF Init, NamedInv, OnTheWay

-----------------------------------------------------------------------------
\* An exact query with the policy_id finds that Policy or nothing.
LEMMA ExactFindsOnlyTheNamed ==
    ASSUME NEW p \in Policies, NEW query, query.policy_id = p.policy_id
    PROVE  find_policies_exact(Policies, query) \subseteq {p}
<1>1. p.policy_id # None
  BY PoliciesAssumption, NoneAssumption DEF Policy
<1>2. ASSUME NEW q \in find_policies_exact(Policies, query) PROVE q = p
  BY <1>1, <1>2, PoliciesAssumption DEF find_policies_exact
<1> QED
  BY <1>2

\* The fuzzy query ranks the policy_id first, so its LIMIT never drops it.
LEMMA FuzzyKeepsTheNamed ==
    ASSUME TOP_N > 0, NEW p \in Policies, NEW name,
           NEW rows \in find_policies_fuzzy_name(Policies, name, p.policy_id)
    PROVE  p \in rows
<1> DEFINE id   == p.policy_id
           hits == fuzzy_hits(Policies, name, id)
           kept == IF Cardinality(hits) < TOP_N THEN Cardinality(hits) ELSE TOP_N
<1>1. p \in hits /\ hits \subseteq Policies
  BY DEF fuzzy_hits
<1>2. /\ rows \subseteq hits
      /\ Cardinality(rows) = kept
      /\ \A r \in rows, q \in hits \ rows : ~sorts_before(q, r, name, id)
  BY DEF find_policies_fuzzy_name
<1>3. Cardinality(hits) \in Nat /\ Cardinality(hits) # 0
  <2>1. IsFiniteSet(hits)
    BY <1>1, PoliciesAssumption, FS_Subset
  <2> HIDE DEF hits
  <2> QED
    BY <1>1, <2>1, FS_CardinalityType, FS_EmptySet
<1>4. kept # 0
  BY <1>3, TopNAssumption
<1>5. PICK r \in rows : TRUE
  <2>1. rows # {}
    BY <1>2, <1>4, FS_EmptySet
  <2> QED
    BY <2>1
<1>6. ASSUME p \notin rows PROVE FALSE
  <2>1. r # p /\ r \in Policies
    BY <1>1, <1>2, <1>5, <1>6
  <2>2. r.policy_id # id
    BY <2>1, PoliciesAssumption
  <2>3. sorts_before(p, r, name, id)
    BY <2>2 DEF sorts_before
  <2> QED
    BY <1>1, <1>2, <1>5, <1>6, <2>3
<1> QED
  BY <1>6

\* Every attempt of Recall finds the named Policy, or leaves another one.
LEMMA RecallFindsTheNamed ==
    ASSUME TypeInv, TypeInv', TOP_N > 0, recall, NEW p \in Policies, NamesItsPolicy(p)'
    PROVE  OnTheWay(p)'
<1> DEFINE attempt == state.recall_attempt + 1
<1>q. PICK query \in build_query(attempt) : \E rows \in recalled(attempt, query) :
          state' = recalled_state(rows, attempt, query)
  BY DEF recall
<1>1. PICK rows \in recalled(attempt, query) :
          state' = recalled_state(rows, attempt, query)
  BY <1>q
<1>2. state \in TriageState /\ state' \in TriageState
  BY DEF TypeInv, TypeOK
<1>3. /\ state'.recall_query = query
      /\ state'.raw_candidates = rows
      /\ state'.recall_attempt = attempt
  BY <1>1, <1>2 DEF recalled_state, TriageState
<1>4. attempt \in 1..MAX_RECALL_ATTEMPTS
  BY <1>2 DEF recall, TypeInv, AttemptLeft, TriageState, MAX_RECALL_ATTEMPTS
<1>5. query \in PolicySearchQuery
  BY <1>2, <1>3, <1>4, InputsAssumption
     DEF TypeInv, NodesHaveTheirInputs, TriageState, Optional, MAX_RECALL_ATTEMPTS
<1>6. query.policy_id = p.policy_id /\ query.holder_name # None
  BY <1>3, <1>5, NoneAssumption DEF NamesItsPolicy
<1>7. CASE attempt = 1
  <2>1. rows \subseteq {p}
    BY <1>1, <1>6, <1>7, ExactFindsOnlyTheNamed DEF recalled
  <2> QED
    BY <1>3, <1>7, <2>1 DEF recall, OnTheWay, MAX_RECALL_ATTEMPTS
<1>8. CASE attempt = 2
  <2> DEFINE broader == [query EXCEPT !.phone = None, !.dob = None]
  <2>1. broader.policy_id = p.policy_id
    BY <1>5, <1>6 DEF PolicySearchQuery
  <2>2. rows = find_policies_exact(Policies, broader)
    BY <1>1, <1>8 DEF recalled
  <2> HIDE DEF broader
  <2>3. rows \subseteq {p}
    BY <2>1, <2>2, ExactFindsOnlyTheNamed
  <2> QED
    BY <1>3, <1>8, <2>3 DEF recall, OnTheWay, MAX_RECALL_ATTEMPTS
<1>9. CASE attempt = 3
  <2>1. rows \in find_policies_fuzzy_name(Policies, query.holder_name, p.policy_id)
    BY <1>1, <1>6, <1>9 DEF recalled
  <2>2. p \in rows
    BY <2>1, FuzzyKeepsTheNamed
  <2> QED
    BY <1>3, <2>2 DEF recall, OnTheWay
<1> QED
  BY <1>4, <1>7, <1>8, <1>9 DEF MAX_RECALL_ATTEMPTS

-----------------------------------------------------------------------------
\* The named Policy is the one Perfect Score of its claim.
LEMMA NamedIsThePerfectOne ==
    ASSUME NEW raw \in SUBSET Policies, NEW p \in raw, NEW query,
           policy_id_exact(p, query), name_exact(p, query)
    PROVE  LET candidates == {rank_score(q, query) : q \in raw}
           IN  auto_resolve(candidates) = {rank_score(p, query)}
<1> DEFINE candidates == {rank_score(q, query) : q \in raw}
           c          == rank_score(p, query)
<1>1. c \in candidates /\ is_perfect(c)
  BY DEF is_perfect, rank_score
<1>2. ASSUME NEW d \in perfect_candidates(candidates) PROVE d = c
  <2>1. PICK q \in raw : d = rank_score(q, query)
    BY DEF perfect_candidates
  <2>2. policy_id_exact(q, query)
    BY <2>1 DEF perfect_candidates, is_perfect, rank_score
  <2>3. q = p
    BY <2>2, PoliciesAssumption DEF policy_id_exact
  <2> QED
    BY <2>1, <2>3
<1> HIDE DEF candidates, c
<1>3. perfect_candidates(candidates) = {c}
  BY <1>1, <1>2 DEF perfect_candidates
<1>4. auto_resolve(candidates) = {c}
  BY <1>3 DEF auto_resolve, Single
<1> QED
  BY <1>4 DEF candidates, c

\* Rank resolves to it, or goes back to Recall empty-handed.
LEMMA RankResolvesTheNamed ==
    ASSUME TypeInv, rank, NEW p \in Policies, NamesItsPolicy(p), OnTheWay(p)
    PROVE  OnTheWay(p)'
<1> DEFINE query      == search_query(state.intake)
           candidates == {rank_score(q, query) : q \in state.raw_candidates}
           resolved   == auto_resolve(candidates)
           scored     == [state EXCEPT !.candidates = candidates]
<1>1. /\ \/ resolved = {} /\ state' = resolve(scored, None, None)
         \/ \E c \in resolved : state' = resolve(scored, c.policy, c.score)
      /\ node' = route_after_rank(state')
  BY DEF rank
<1>2. state \in TriageState
  BY DEF TypeInv, TypeOK
<1>3. ASSUME NEW policy, NEW confidence, state' = resolve(scored, policy, confidence)
      PROVE  /\ state'.candidates = candidates
             /\ state'.recall_attempt = state.recall_attempt
             /\ state'.resolved_policy = policy
             /\ state'.policy_resolution_confidence = confidence
  <2> HIDE DEF candidates
  <2> QED
    BY <1>2, <1>3 DEF resolve, TriageState
<1>4. CASE p \in state.raw_candidates
  <2> DEFINE c == rank_score(p, query)
  <2>1. policy_id_exact(p, query) /\ name_exact(p, query)
    BY DEF NamesItsPolicy, policy_id_exact, search_query
  <2>2. resolved = {c}
    <3>1. state.raw_candidates \in SUBSET Policies
      BY <1>2 DEF TriageState
    <3> HIDE DEF query
    <3> QED
      BY <1>4, <2>1, <3>1, NamedIsThePerfectOne
  <2>3. c.policy = p /\ c.score = PERFECT_SCORE
    BY <2>1 DEF rank_score
  <2> HIDE DEF c, resolved, scored
  <2>4. state' = resolve(scored, c.policy, c.score)
    BY <1>1, <2>2
  <2>5. state'.resolved_policy = p /\ state'.policy_resolution_confidence = PERFECT_SCORE
    BY <1>3, <2>3, <2>4
  <2>6. p # None
    BY PoliciesAssumption, NoneAssumption
  <2>7. node' = "coverage_check"
    BY <1>1, <2>5, <2>6 DEF route_after_rank
  <2> QED
    BY <2>5, <2>7 DEF OnTheWay
<1>5. CASE state.raw_candidates = {} /\ state.recall_attempt < MAX_RECALL_ATTEMPTS
  <2>1. candidates = {} /\ resolved = {}
    BY <1>5 DEF auto_resolve, perfect_candidates, above_threshold
  <2>2. state' = resolve(scored, None, None)
    BY <1>1, <2>1
  <2>3. /\ state'.candidates = {} /\ state'.resolved_policy = None
        /\ state'.recall_attempt < MAX_RECALL_ATTEMPTS
    BY <1>3, <1>5, <2>1, <2>2
  <2>4. node' = "recall"
    BY <1>1, <2>3 DEF route_after_rank, above_threshold
  <2> QED
    BY <2>4 DEF OnTheWay
<1> QED
  BY <1>4, <1>5 DEF rank, OnTheWay

LEMMA NamedInvNext == NamedInv /\ [Next]_vars => NamedInv'
<1> SUFFICES ASSUME NamedInv, [Next]_vars PROVE NamedInv'
  OBVIOUS
<1>t. TypeInv /\ TypeInv' /\ state \in TriageState
  BY TypeInvNext DEF NamedInv, TypeInv, TypeOK
<1> SUFFICES ASSUME NEW p \in Policies, NamesItsPolicy(p)', TOP_N > 0
             PROVE  OnTheWay(p)'
  BY <1>t DEF NamedInv
<1>i. NamesItsPolicy(p) => OnTheWay(p)
  BY DEF NamedInv
<1>1. CASE recall
  BY <1>t, <1>1, RecallFindsTheNamed
<1>2. CASE rank
  <2>1. PICK candidates, policy, confidence :
            state' = resolve([state EXCEPT !.candidates = candidates], policy, confidence)
    BY <1>2 DEF rank
  <2>2. state'.intake = state.intake /\ state'.recall_query = state.recall_query
    BY <1>t, <2>1 DEF resolve, TriageState
  <2>3. NamesItsPolicy(p)
    BY <2>2 DEF NamesItsPolicy
  <2> QED
    BY <1>t, <1>2, <1>i, <2>3, RankResolvesTheNamed
<1>3. ASSUME NEW decision, policy_selection_gate(decision) PROVE OnTheWay(p)'
  <2>1. PICK policy, confidence : state' = resolve(state, policy, confidence)
    BY <1>3 DEF policy_selection_gate
  <2>2. state'.intake = state.intake /\ state'.recall_query = state.recall_query
    BY <1>t, <2>1 DEF resolve, TriageState
  <2>3. NamesItsPolicy(p)
    BY <2>2 DEF NamesItsPolicy
  <2> QED
    BY <1>3, <1>i, <2>3 DEF policy_selection_gate, OnTheWay
<1>4. ASSUME \/ coverage_check \/ eligibility_judgment \/ sufficiency_assessment
             \/ draft_notification \/ \E decision \in Answers : final_review_gate(decision)
      PROVE  OnTheWay(p)'
  <2>1. /\ state'.intake = state.intake
        /\ state'.recall_query = state.recall_query
        /\ state'.resolved_policy = state.resolved_policy
        /\ state'.policy_resolution_confidence = state.policy_resolution_confidence
    BY <1>4, <1>t DEF coverage_check, eligibility_judgment, sufficiency_assessment,
       draft_notification, final_review_gate, TriageState
  <2>2. /\ node \notin {"recall", "rank"}
        /\ node' \notin {"recall", "rank", "policy_selection_gate"}
    BY <1>4 DEF coverage_check, eligibility_judgment, sufficiency_assessment,
       draft_notification, final_review_gate
  <2>3. NamesItsPolicy(p)
    BY <2>1 DEF NamesItsPolicy
  <2> QED
    BY <1>i, <2>1, <2>2, <2>3 DEF OnTheWay
<1>5. CASE UNCHANGED vars
  BY <1>5, <1>i DEF vars, NamesItsPolicy, OnTheWay
<1> QED
  BY <1>1, <1>2, <1>3, <1>4, <1>5 DEF Next, MachineStep, HumanStep, Ended

\* A claim that gives its policy_id and its holder's name is resolved to that
\* Policy with a Perfect Score and without a human, whatever the LLM made of
\* the name, the phone or the date of birth (NamedPolicyIsFound).
THEOREM NamedPolicyFound == Spec => []NamedPolicyIsFound
<1>1. Init => NamedInv
  BY NamedInvInit
<1>2. NamedInv /\ [Next]_vars => NamedInv'
  BY NamedInvNext
<1>3. NamedInv => NamedPolicyIsFound
  BY DEF NamedInv, OnTheWay, NamedPolicyIsFound
<1> QED
  BY <1>1, <1>2, <1>3, PTL DEF Spec

-----------------------------------------------------------------------------
(***************************************************************************)
(* The stages after Policy Resolution.                                     *)
(***************************************************************************)
(***************************************************************************)
(* The nodes at which a result is not there yet, and what is known of it   *)
(* from then on.                                                           *)
(***************************************************************************)
BeforeCoverage    == {"recall", "rank", "policy_selection_gate", "coverage_check"}
BeforeEligibility == BeforeCoverage \cup {"eligibility_judgment"}
BeforeDocs        == BeforeEligibility \cup {"sufficiency_assessment"}
BeforeDraft       == BeforeDocs \cup {"notification"}

NothingAhead ==
    /\ state.recall_attempt = 0 => state.recall_query = None
    /\ node \in BeforeCoverage => state.coverage_check = None
    /\ node \in BeforeEligibility => state.eligibility_judgment = None
    /\ node \in BeforeDocs => state.sufficiency_assessment = None
    /\ node \in BeforeDraft => state.notification = None

IsCovered == state.coverage_check # None /\ covered(state.coverage_check)

IsEligible == state.eligibility_judgment # None /\ state.eligibility_judgment.eligible

CheckedAgainstPolicy ==
    /\ state.coverage_check # None =>
          /\ state.resolved_policy # None
          /\ state.coverage_check = check_coverage(state.intake, state.resolved_policy)
    /\ node \notin BeforeCoverage /\ state.resolved_policy # None
          => state.coverage_check # None

JudgedInOrder ==
    /\ node = "eligibility_judgment" => IsCovered
    /\ node = "sufficiency_assessment" => IsCovered /\ IsEligible
    /\ node \in {"notification", "final_review_gate", "END"} =>
          /\ state.eligibility_judgment # None <=> IsCovered
          /\ state.sufficiency_assessment # None <=> IsCovered /\ IsEligible

JudgmentInv == TypeInv /\ NothingAhead /\ CheckedAgainstPolicy /\ JudgedInOrder

LEMMA JudgmentInvInit == Init => JudgmentInv
<1> SUFFICES ASSUME Init PROVE JudgmentInv
  OBVIOUS
<1>1. TypeInv
  BY TypeInvInit
<1>2. /\ node = "recall" /\ state.recall_query = None /\ state.coverage_check = None
      /\ state.eligibility_judgment = None /\ state.sufficiency_assessment = None
      /\ state.notification = None
  BY DEF Init, InitialState
<1> QED
  BY <1>1, <1>2 DEF JudgmentInv, NothingAhead, CheckedAgainstPolicy, JudgedInOrder,
     BeforeCoverage, BeforeEligibility, BeforeDocs, BeforeDraft

\* Up to the coverage check a step that makes no judgment keeps what there
\* is to keep: nothing.
LEMMA NothingJudgedYet ==
    ASSUME JudgmentInv, TypeInv', node \in BeforeCoverage,
           state'.recall_attempt = 0 => state'.recall_query = None,
           state'.coverage_check = state.coverage_check,
           state'.eligibility_judgment = state.eligibility_judgment,
           state'.sufficiency_assessment = state.sufficiency_assessment,
           state'.notification = state.notification,
           \/ node' \in BeforeCoverage
           \/ node' = "notification" /\ state'.resolved_policy = None
    PROVE  JudgmentInv'
BY DEF JudgmentInv, NothingAhead, CheckedAgainstPolicy, JudgedInOrder, IsCovered, IsEligible,
   BeforeCoverage, BeforeEligibility, BeforeDocs, BeforeDraft

LEMMA JudgmentInvNext == JudgmentInv /\ [Next]_vars => JudgmentInv'
<1> SUFFICES ASSUME JudgmentInv, [Next]_vars PROVE JudgmentInv'
  OBVIOUS
<1>t. TypeInv /\ TypeInv' /\ state \in TriageState
  BY TypeInvNext DEF JudgmentInv, TypeInv, TypeOK
<1> USE DEF BeforeCoverage, BeforeEligibility, BeforeDocs, BeforeDraft
<1>1. CASE recall
  <2>1. PICK query, rows :
            state' = recalled_state(rows, state.recall_attempt + 1, query)
    BY <1>1 DEF recall
  <2>2. /\ state'.recall_attempt = state.recall_attempt + 1
        /\ state'.coverage_check = state.coverage_check
        /\ state'.eligibility_judgment = state.eligibility_judgment
        /\ state'.sufficiency_assessment = state.sufficiency_assessment
        /\ state'.notification = state.notification
    BY <2>1, <1>t DEF recalled_state, TriageState
  <2>3. state'.recall_attempt # 0
    BY <2>2, <1>t DEF TriageState, MAX_RECALL_ATTEMPTS
  <2> QED
    BY <1>1, <1>t, <2>2, <2>3, NothingJudgedYet DEF recall
<1>2. CASE rank
  <2>1. PICK candidates, policy, confidence :
            state' = resolve([state EXCEPT !.candidates = candidates], policy, confidence)
    BY <1>2 DEF rank
  <2>2. /\ state'.recall_attempt = state.recall_attempt
        /\ state'.recall_query = state.recall_query
        /\ state'.coverage_check = state.coverage_check
        /\ state'.eligibility_judgment = state.eligibility_judgment
        /\ state'.sufficiency_assessment = state.sufficiency_assessment
        /\ state'.notification = state.notification
    BY <2>1, <1>t DEF resolve, TriageState
  <2>3. \/ node' \in BeforeCoverage
        \/ node' = "notification" /\ state'.resolved_policy = None
    BY <1>2 DEF rank, route_after_rank
  <2> QED
    BY <1>2, <1>t, <2>2, <2>3, NothingJudgedYet DEF rank, JudgmentInv, NothingAhead
<1>3. ASSUME NEW decision \in PolicyIds \cup {"decline"}, policy_selection_gate(decision)
      PROVE  JudgmentInv'
  <2>1. PICK policy, confidence :
            /\ state' = resolve(state, policy, confidence)
            /\ node' = "coverage_check" \/ (node' = "notification" /\ policy = None)
    BY <1>3 DEF policy_selection_gate
  <2>2. /\ state'.recall_attempt = state.recall_attempt
        /\ state'.recall_query = state.recall_query
        /\ state'.coverage_check = state.coverage_check
        /\ state'.eligibility_judgment = state.eligibility_judgment
        /\ state'.sufficiency_assessment = state.sufficiency_assessment
        /\ state'.notification = state.notification
        /\ state'.resolved_policy = policy
    BY <2>1, <1>t DEF resolve, TriageState
  <2> QED
    BY <1>3, <1>t, <2>1, <2>2, NothingJudgedYet DEF policy_selection_gate, JudgmentInv,
       NothingAhead
<1>4. CASE coverage_check
  <2> DEFINE result == check_coverage(state.intake, state.resolved_policy)
  <2>1. /\ state' = [state EXCEPT !.coverage_check = result]
        /\ node' = IF covered(result) THEN "eligibility_judgment" ELSE "notification"
    BY <1>4 DEF coverage_check
  <2> HIDE DEF result
  <2>2. /\ state'.recall_attempt = state.recall_attempt
        /\ state'.recall_query = state.recall_query
        /\ state'.intake = state.intake
        /\ state'.resolved_policy = state.resolved_policy
        /\ state'.coverage_check = result
        /\ state'.eligibility_judgment = state.eligibility_judgment
        /\ state'.sufficiency_assessment = state.sufficiency_assessment
        /\ state'.notification = state.notification
    BY <2>1, <1>t DEF TriageState
  <2>3. /\ state.resolved_policy # None /\ node = "coverage_check"
        /\ state.eligibility_judgment = None /\ state.sufficiency_assessment = None
        /\ state.notification = None
    BY <1>4, <1>t DEF coverage_check, TypeInv, NodesHaveTheirInputs, JudgmentInv, NothingAhead
  <2>4. result # None
    <3>1. result.within_coverage_limit \in BOOLEAN /\ result \in CoverageCheckResult
      <4>1. state.intake \in IntakeInput /\ state.resolved_policy \in Policy
        BY <1>t, <2>3, InputsAssumption, PoliciesAssumption DEF TriageState, Optional
      <4> QED
        BY <4>1 DEF result, check_coverage, IntakeInput, Policy, CoverageCheckResult
    <3> QED
      BY <3>1, ResultsAssumption
  <2>5. NothingAhead'
    BY <2>1, <2>2, <2>3 DEF JudgmentInv, NothingAhead
  <2>6. CheckedAgainstPolicy'
    BY <2>2, <2>3, <2>4 DEF CheckedAgainstPolicy, result
  <2>7. JudgedInOrder'
    BY <2>1, <2>2, <2>3, <2>4 DEF JudgedInOrder, IsCovered, IsEligible
  <2> QED
    BY <1>t, <2>5, <2>6, <2>7 DEF JudgmentInv
<1>5. CASE eligibility_judgment
  <2>1. PICK judgment \in EligibilityJudgment :
            /\ state' = [state EXCEPT !.eligibility_judgment = judgment]
            /\ node' = IF covered(state.coverage_check) /\ judgment.eligible
                       THEN "sufficiency_assessment" ELSE "notification"
    BY <1>5 DEF eligibility_judgment
  <2>2. /\ state'.recall_attempt = state.recall_attempt
        /\ state'.recall_query = state.recall_query
        /\ state'.intake = state.intake
        /\ state'.resolved_policy = state.resolved_policy
        /\ state'.coverage_check = state.coverage_check
        /\ state'.eligibility_judgment = judgment
        /\ state'.sufficiency_assessment = state.sufficiency_assessment
        /\ state'.notification = state.notification
    BY <2>1, <1>t DEF TriageState
  <2>3. /\ node = "eligibility_judgment" /\ IsCovered
        /\ state.sufficiency_assessment = None /\ state.notification = None
    BY <1>5 DEF eligibility_judgment, JudgmentInv, NothingAhead, JudgedInOrder
  <2>4. judgment # None
    BY ResultsAssumption
  <2>5. NothingAhead' /\ CheckedAgainstPolicy'
    BY <2>1, <2>2, <2>3 DEF JudgmentInv, NothingAhead, CheckedAgainstPolicy
  <2>6. JudgedInOrder'
    BY <2>1, <2>2, <2>3, <2>4 DEF JudgedInOrder, IsCovered, IsEligible
  <2> QED
    BY <1>t, <2>5, <2>6 DEF JudgmentInv
<1>6. CASE sufficiency_assessment
  <2>1. PICK assessment \in SufficiencyAssessment :
            state' = [state EXCEPT !.sufficiency_assessment = assessment]
    BY <1>6 DEF sufficiency_assessment
  <2>2. /\ state'.recall_attempt = state.recall_attempt
        /\ state'.recall_query = state.recall_query
        /\ state'.intake = state.intake
        /\ state'.resolved_policy = state.resolved_policy
        /\ state'.coverage_check = state.coverage_check
        /\ state'.eligibility_judgment = state.eligibility_judgment
        /\ state'.sufficiency_assessment = assessment
        /\ state'.notification = state.notification
    BY <2>1, <1>t DEF TriageState
  <2>3. /\ node = "sufficiency_assessment" /\ node' = "notification"
        /\ IsCovered /\ IsEligible /\ state.notification = None
    BY <1>6 DEF sufficiency_assessment, JudgmentInv, NothingAhead, JudgedInOrder
  <2>4. assessment # None
    BY ResultsAssumption
  <2>5. NothingAhead' /\ CheckedAgainstPolicy'
    BY <2>2, <2>3 DEF JudgmentInv, NothingAhead, CheckedAgainstPolicy
  <2>6. JudgedInOrder'
    BY <2>2, <2>3, <2>4 DEF JudgedInOrder, IsCovered, IsEligible
  <2> QED
    BY <1>t, <2>5, <2>6 DEF JudgmentInv
<1>7. ASSUME \/ draft_notification
             \/ \E decision \in Answers : final_review_gate(decision)
      PROVE  JudgmentInv'
  <2>1. /\ state'.recall_attempt = state.recall_attempt
        /\ state'.recall_query = state.recall_query
        /\ state'.intake = state.intake
        /\ state'.resolved_policy = state.resolved_policy
        /\ state'.coverage_check = state.coverage_check
        /\ state'.eligibility_judgment = state.eligibility_judgment
        /\ state'.sufficiency_assessment = state.sufficiency_assessment
    BY <1>7, <1>t DEF draft_notification, final_review_gate, TriageState
  <2>2. /\ node \in {"notification", "final_review_gate"}
        /\ node' \in {"final_review_gate", "END"}
    BY <1>7 DEF draft_notification, final_review_gate
  <2>3. NothingAhead' /\ CheckedAgainstPolicy' /\ JudgedInOrder'
    BY <2>1, <2>2 DEF JudgmentInv, NothingAhead, CheckedAgainstPolicy, JudgedInOrder, IsCovered,
       IsEligible
  <2> QED
    BY <1>t, <2>3 DEF JudgmentInv
<1>8. CASE UNCHANGED vars
  BY <1>t, <1>8 DEF vars, JudgmentInv, NothingAhead, CheckedAgainstPolicy, JudgedInOrder, IsCovered,
     IsEligible
<1> QED
  BY <1>1, <1>2, <1>3, <1>4, <1>5, <1>6, <1>7, <1>8 DEF Next, MachineStep, HumanStep, Ended

LEMMA Judged == Spec => []JudgmentInv
<1>1. Init => JudgmentInv
  BY JudgmentInvInit
<1>2. JudgmentInv /\ [Next]_vars => JudgmentInv'
  BY JudgmentInvNext
<1> QED
  BY <1>1, <1>2, PTL DEF Spec

-----------------------------------------------------------------------------
\* The window and the limit of the check are those of the resolved Policy.
LEMMA CoveredMeansWithin ==
    ASSUME NEW intake \in IntakeInput, NEW policy \in Policy
    PROVE  covered(check_coverage(intake, policy)) <=>
              /\ intake.requested_amount <= policy.coverage_limit
              /\ intake.incident_date \in policy.coverage_start..policy.coverage_end
<1>1. /\ intake.incident_date \in Int
      /\ policy.coverage_start \in Int /\ policy.coverage_end \in Int
  BY DEF IntakeInput, Policy
<1>2. covered(check_coverage(intake, policy)) <=>
         /\ intake.requested_amount <= policy.coverage_limit
         /\ policy.coverage_start <= intake.incident_date
         /\ intake.incident_date <= policy.coverage_end
  BY Zenon DEF covered, check_coverage
<1> QED
  BY <1>1, <1>2

LEMMA InvEarnsJudgments == JudgmentInv => JudgmentsAreEarned
<1> SUFFICES ASSUME JudgmentInv, node \in {"notification", "final_review_gate", "END"}
             PROVE  JudgmentsAreEarned
  BY DEF JudgmentsAreEarned
<1> DEFINE policy == state.resolved_policy
           within == /\ policy # None
                     /\ state.intake.requested_amount <= policy.coverage_limit
                     /\ state.intake.incident_date \in policy.coverage_start..policy.coverage_end
<1>1. state.intake \in IntakeInput /\ (policy # None => policy \in Policy)
  BY InputsAssumption, PoliciesAssumption
     DEF JudgmentInv, TypeInv, TypeOK, TriageState, Optional
<1>2. state.coverage_check # None <=> policy # None
  BY DEF JudgmentInv, CheckedAgainstPolicy, BeforeCoverage
<1>3. IsCovered <=> within
  BY <1>1, <1>2, CoveredMeansWithin DEF IsCovered, JudgmentInv, CheckedAgainstPolicy
<1>4. /\ state.eligibility_judgment # None <=> IsCovered
      /\ state.sufficiency_assessment # None <=> IsCovered /\ IsEligible
  BY DEF JudgmentInv, JudgedInOrder
<1> HIDE DEF within
<1>5. state.sufficiency_assessment # None <=> within /\ state.eligibility_judgment.eligible
  BY <1>3, <1>4 DEF IsEligible
<1> QED
  BY <1>2, <1>3, <1>4, <1>5 DEF JudgmentsAreEarned, within

\* Eligibility is judged exactly for the claims within their Policy's limit
\* and window, the documents exactly for those found eligible as well
\* (coverage.py, eligibility.py, docs.py and their routes).
THEOREM JudgmentsEarned == Spec => []JudgmentsAreEarned
BY Judged, InvEarnsJudgments, PTL

\* A step takes nothing back that a result was derived from.
LEMMA NothingTakenBack ==
    ASSUME JudgmentInv, [Next]_vars
    PROVE  /\ state.recall_query # None => state'.recall_query = state.recall_query
           /\ state.coverage_check # None =>
                 /\ state'.resolved_policy = state.resolved_policy
                 /\ state'.coverage_check = state.coverage_check
                 /\ state'.candidates = state.candidates
           /\ state.eligibility_judgment # None =>
                 state'.eligibility_judgment = state.eligibility_judgment
           /\ state.notification # None =>
                 state' = [state EXCEPT !.final_decision = state'.final_decision]
<1>t. state \in TriageState /\ NothingAhead
  BY DEF JudgmentInv, TypeInv, TypeOK
<1> USE DEF BeforeCoverage, BeforeEligibility, BeforeDocs, BeforeDraft
<1> DEFINE Kept ==
      /\ state.recall_query # None => state'.recall_query = state.recall_query
      /\ state.coverage_check # None =>
            /\ state'.resolved_policy = state.resolved_policy
            /\ state'.coverage_check = state.coverage_check
            /\ state'.candidates = state.candidates
      /\ state.eligibility_judgment # None =>
            state'.eligibility_judgment = state.eligibility_judgment
      /\ state.notification # None =>
            state' = [state EXCEPT !.final_decision = state'.final_decision]
<1>1. CASE recall
  <2>1. PICK query \in build_query(state.recall_attempt + 1) :
            \E rows : state' = recalled_state(rows, state.recall_attempt + 1, query)
    BY <1>1 DEF recall
  <2>2. state'.recall_query = query
    BY <1>t, <2>1 DEF recalled_state, TriageState
  <2>3. state.recall_query # None => query = state.recall_query
    BY <1>t, <2>1 DEF build_query, NothingAhead, TriageState, MAX_RECALL_ATTEMPTS
  <2> QED
    BY <1>1, <1>t, <2>2, <2>3 DEF recall, NothingAhead
<1>2. CASE rank
  <2>1. PICK candidates, policy, confidence :
            state' = resolve([state EXCEPT !.candidates = candidates], policy, confidence)
    BY <1>2 DEF rank
  <2>2. state'.recall_query = state.recall_query
    BY <2>1, <1>t DEF resolve, TriageState
  <2> QED
    BY <1>2, <1>t, <2>2 DEF rank, NothingAhead
<1>3. ASSUME NEW decision, policy_selection_gate(decision) PROVE Kept
  <2>1. PICK policy, confidence : state' = resolve(state, policy, confidence)
    BY <1>3 DEF policy_selection_gate
  <2>2. state'.recall_query = state.recall_query
    BY <2>1, <1>t DEF resolve, TriageState
  <2> QED
    BY <1>3, <1>t, <2>2 DEF policy_selection_gate, NothingAhead
<1>4. CASE coverage_check \/ eligibility_judgment \/ sufficiency_assessment \/ draft_notification
  BY <1>4, <1>t DEF coverage_check, eligibility_judgment, sufficiency_assessment,
     draft_notification, NothingAhead, TriageState
<1>5. ASSUME NEW decision, final_review_gate(decision) PROVE Kept
  BY <1>5, <1>t DEF final_review_gate, TriageState
<1>6. CASE UNCHANGED vars
  BY <1>6, <1>t DEF vars, TriageState
<1> QED
  BY <1>1, <1>2, <1>3, <1>4, <1>5, <1>6 DEF Next, MachineStep, HumanStep, Ended

\* What a later node read stays as it was read (ResultsStand).
THEOREM ResultsKept == Spec => ResultsStand
<1>1. JudgmentInv /\ [Next]_vars =>
        [ /\ state.recall_query # None => state'.recall_query = state.recall_query
          /\ state.coverage_check # None =>
                /\ state'.resolved_policy = state.resolved_policy
                /\ state'.coverage_check = state.coverage_check
                /\ state'.candidates = state.candidates
          /\ state.eligibility_judgment # None =>
                state'.eligibility_judgment = state.eligibility_judgment
          /\ state.notification # None => state' = [state EXCEPT !.final_decision =
                                                      state'.final_decision] ]_vars
  BY NothingTakenBack
<1> QED
  BY <1>1, Judged, PTL DEF Spec, ResultsStand
=============================================================================

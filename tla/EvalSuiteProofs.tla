-------------------------- MODULE EvalSuiteProofs --------------------------
(***************************************************************************)
(* What an exit status of the suite says, for every list of scenarios and  *)
(* goldens and any number of evaluations and edits.                        *)
(***************************************************************************)
EXTENDS EvalSuite, SequenceTheorems, TLAPS

\* An evaluation that vouches for something: begun, and not aborted.
Active(e) == at[e] \notin {"idle", "raised"}

\* Where the check of a step is still to come.
BeforeCheck(step) ==
    {"coverage", "eligibility", "sufficiency", "notification", "check eligibility"}
    \cup IF step = "sufficiency_assessment" THEN {"check sufficiency"} ELSE {}

Unchecked(e, s, step) ==
    s = scenario(e) /\ state[e][step] # None /\ at[e] \in BeforeCheck(step)

\* A check that stops at an unreached judgment skips nothing.
ReplayInOrder(e) ==
    /\ at[e] = "sufficiency" => state[e]["eligibility_judgment"] # None
    /\ state[e]["sufficiency_assessment"] # None => state[e]["eligibility_judgment"] # None

InReplay == {"coverage", "eligibility", "sufficiency", "notification"}

\* Scenarios are replayed in order, and the suite ends after the last one.
ScenariosAreReplayed(e) ==
    /\ Active(e) => \A i \in DOMAIN ScenarioIds :
          i < position[e] \/ (i = position[e] /\ at[e] \notin InReplay)
          => <<ScenarioIds[i], "notification">> \in reached[e]
    /\ at[e] \in {"clean", "drift"} => position[e] = Len(ScenarioIds)

ReachedAreAsked(e) ==
    Active(e) => \A s \in Scenarios, step \in Steps :
        <<s, step>> \in reached[e] /\ Golden[s][step] # None =>
            \/ Unchecked(e, s, step)
            \/ \E agreed \in BOOLEAN : <<s, step, agreed>> \in asked[e]

\* The suite remembers drift exactly when an answer disagreed.
DriftIsRecorded(e) ==
    /\ Active(e) => (drifted(e) <=> \E ask \in asked[e] : ~ask[3])
    /\ at[e] = "clean" => ~drifted(e)
    /\ at[e] = "drift" => drifted(e)

\* The rows of a lone evaluation agree once they were checked.
Alone(e) == edits = 0 /\ \A f \in Evals \ {e} : at[f] = "idle"

CheckedRowsAgree(e) ==
    Active(e) /\ Alone(e) /\ ~drifted(e) =>
        \A s \in Scenarios, step \in Steps :
            <<s, step>> \in reached[e] /\ Golden[s][step] # None =>
                \/ Unchecked(e, s, step)
                \/ Agree(step, Golden[s][step], llm_cache[s][step])

SuiteInv(e) ==
    /\ ReplayInOrder(e) /\ ScenariosAreReplayed(e) /\ ReachedAreAsked(e) /\ DriftIsRecorded(e)
    /\ CheckedRowsAgree(e)

EvalInv == EvalTypeOK /\ \A e \in Evals : SuiteInv(e)

\* Nothing is known of a scenario at first.
LEMMA NothingIsKnown == Nothing \in Judgments
<1>1. Nothing \in [Steps -> (UNION {Verdicts(step) : step \in Steps}) \cup {None}]
  BY DEF Nothing
<1> QED
  BY <1>1 DEF Nothing, Judgments

LEMMA EvalInvInit == Init => EvalInv
<1> SUFFICES ASSUME Init PROVE EvalInv
  OBVIOUS
<1>1. Nothing \in Judgments
  BY NothingIsKnown
<1>2. 1 \in DOMAIN ScenarioIds
  BY SuiteAssumption, EmptySeq, LenProperties
<1>3. EvalTypeOK
  BY <1>1, <1>2, SuiteAssumption DEF Init, EvalTypeOK
<1>4. ASSUME NEW e \in Evals PROVE SuiteInv(e)
  BY DEF Init, SuiteInv, ReplayInOrder, ScenariosAreReplayed, ReachedAreAsked, DriftIsRecorded,
     CheckedRowsAgree, Active, Nothing, Steps
<1> QED
  BY <1>3, <1>4 DEF EvalInv

-----------------------------------------------------------------------------
\* What the comparison of a step reports, it reports exactly of two verdicts
\* that differ, and it names fields of a verdict.
LEMMA ComparisonFindsDrift ==
    ASSUME NEW step \in Steps, NEW golden \in Verdicts(step), NEW actual \in Verdicts(step)
    PROVE  /\ compare(step, golden, actual) = {} <=> Agree(step, golden, actual)
           /\ compare(step, golden, actual) \subseteq
                 {"eligible", "sufficient", "missing_documents"}
<1>1. CASE step = "eligibility_judgment"
  <2>1. golden \in [eligible : BOOLEAN] /\ actual \in [eligible : BOOLEAN]
    BY <1>1 DEF Verdicts
  <2>2. golden = actual <=> golden.eligible = actual.eligible
    BY <2>1
  <2> QED
    BY <1>1, <2>2 DEF compare, compare_eligibility_judgment, Agree
<1>2. CASE step = "sufficiency_assessment"
  <2> DEFINE wanted == Range(golden.missing_documents)
             given  == Range(actual.missing_documents)
  <2>1. wanted = given <=>
            \A document \in wanted \cup given : document \in wanted /\ document \in given
    OBVIOUS
  <2> HIDE DEF wanted, given
  <2>2. Agree(step, golden, actual) <=>
            /\ golden.sufficient = actual.sufficient
            /\ \A document \in wanted \cup given : document \in wanted /\ document \in given
    BY <1>2 DEF Agree, wanted, given
  <2>3. compare(step, golden, actual) =
            (IF golden.sufficient # actual.sufficient THEN {"sufficient"} ELSE {})
            \cup (IF wanted # given THEN {"missing_documents"} ELSE {})
    BY <1>2 DEF compare, compare_sufficiency_assessment, wanted, given
  <2> QED
    BY <2>1, <2>2, <2>3
<1> QED
  BY <1>1, <1>2 DEF Steps

\* A scenario the suite is at is one of the list.
LEMMA ScenarioIsListed ==
    ASSUME EvalTypeOK, NEW e \in Evals
    PROVE  scenario(e) \in Scenarios
BY DEF EvalTypeOK, scenario, Scenarios, Range

LEMMA AnswersAreVerdicts ==
    ASSUME EvalTypeOK, NEW s \in Scenarios, NEW step \in Steps, NEW bypass \in BOOLEAN,
           NEW verdict \in answers(s, step, bypass)
    PROVE  verdict \in Verdicts(step) /\ verdict # None
<1>1. llm_cache[s][step] \in Verdicts(step) \cup {None}
  BY DEF EvalTypeOK, Judgments
<1>2. verdict \in Verdicts(step)
  BY <1>1 DEF answers, asks_provider
<1> QED
  BY <1>2, SuiteAssumption

\* Setting one step of a record of judgments.
LEMMA JudgmentIsSet ==
    ASSUME NEW known \in Judgments, NEW step \in Steps, NEW verdict \in Verdicts(step) \cup {None}
    PROVE  [known EXCEPT ![step] = verdict] \in Judgments
<1> DEFINE Any == (UNION {Verdicts(other) : other \in Steps}) \cup {None}
<1>1. verdict \in Any
  OBVIOUS
<1>2. known \in [Steps -> Any]
  BY DEF Judgments
<1> HIDE DEF Any
<1>3. [known EXCEPT ![step] = verdict] \in [Steps -> Any]
  BY <1>1, <1>2
<1> QED
  BY <1>2, <1>3 DEF Judgments, Any

-----------------------------------------------------------------------------
\* One step of one evaluation.
Step(e) ==
    \/ Begin(e) \/ coverage_check(e) \/ eligibility_judgment(e)
    \/ sufficiency_assessment(e) \/ ReplayEnds(e) \/ check_eligibility(e)
    \/ check_sufficiency(e) \/ Report(e) \/ Raise(e)

Untouched(f) ==
    /\ at'[f] = at[f] /\ position'[f] = position[f] /\ state'[f] = state[f]
    /\ mismatches'[f] = mismatches[f] /\ any_mismatch'[f] = any_mismatch[f]
    /\ reached'[f] = reached[f] /\ asked'[f] = asked[f]

\* A step of an evaluation moves it, and leaves the others where they are.
LEMMA OthersAreUntouched ==
    ASSUME EvalTypeOK, NEW e \in Evals, Step(e)
    PROVE  at'[e] # "idle" /\ \A f \in Evals \ {e} : Untouched(f)
<1> USE DEF EvalTypeOK, Goto, Untouched
<1>1. CASE Begin(e)
  BY <1>1 DEF Begin
<1>2. CASE coverage_check(e)
  BY <1>2 DEF coverage_check
<1>3. ASSUME NEW step \in Steps, NEW where, Judge(e, step, where)
      PROVE  at'[e] # "idle" /\ \A f \in Evals \ {e} : Untouched(f)
  BY <1>3 DEF Judge, route_after
<1>4. CASE ReplayEnds(e)
  BY <1>4 DEF ReplayEnds
<1>5. ASSUME NEW step \in Steps, NEW where, NEW next \in {"check sufficiency", "report"},
             Check(e, step, where, next)
      PROVE  at'[e] # "idle" /\ \A f \in Evals \ {e} : Untouched(f)
  <2>1. at'[e] # "idle" /\ \A f \in Evals \ {e} : at'[f] = at[f]
    BY <1>5 DEF Check
  <2>2. UNCHANGED <<position, state, any_mismatch, reached>>
    BY <1>5 DEF Check
  <2>3. \A f \in Evals \ {e} : mismatches'[f] = mismatches[f] /\ asked'[f] = asked[f]
    <3>1. \/ UNCHANGED <<mismatches, asked>>
          \/ \E new, asks : /\ mismatches' = [mismatches EXCEPT ![e] = new]
                            /\ asked' = [asked EXCEPT ![e] = asks]
      BY <1>5 DEF Check
    <3> QED
      BY <3>1
  <2> QED
    BY <2>1, <2>2, <2>3
<1>6. CASE Report(e)
  BY <1>6 DEF Report
<1>7. CASE Raise(e)
  BY <1>7 DEF Raise
<1> QED
  BY <1>1, <1>2, <1>3, <1>4, <1>5, <1>6, <1>7
     DEF Step, Steps, eligibility_judgment, sufficiency_assessment, check_eligibility, check_sufficiency

\* What is known of an evaluation outlives the steps of the others: the rows
\* are vouched for only while there is none, and no edit.
LEMMA UntouchedKeeps ==
    ASSUME EvalTypeOK, EvalTypeOK', NEW f \in Evals, SuiteInv(f), Untouched(f), ~Alone(f)'
    PROVE  SuiteInv(f)'
<1>1. scenario(f)' = scenario(f) /\ drifted(f)' = drifted(f) /\ Active(f)' = Active(f)
  BY DEF Untouched, scenario, drifted, Active
<1>2. \A s \in Scenarios, step \in Steps : Unchecked(f, s, step)' = Unchecked(f, s, step)
  BY <1>1 DEF Untouched, Unchecked
<1>3. ReplayInOrder(f)' /\ ScenariosAreReplayed(f)'
  BY <1>1 DEF SuiteInv, ReplayInOrder, ScenariosAreReplayed, Untouched
<1>4. ReachedAreAsked(f)'
  BY <1>1, <1>2 DEF SuiteInv, ReachedAreAsked, Untouched
<1>5. DriftIsRecorded(f)'
  BY <1>1 DEF SuiteInv, DriftIsRecorded, Untouched
<1>6. CheckedRowsAgree(f)'
  BY DEF CheckedRowsAgree
<1> QED
  BY <1>3, <1>4, <1>5, <1>6 DEF SuiteInv

-----------------------------------------------------------------------------
\* Typing

\* A judgment stored and kept is typed.
LEMMA StoreTypes ==
    ASSUME EvalTypeOK, NEW s \in Scenarios, NEW step \in Steps,
           NEW verdict \in Verdicts(step), Store(s, step, verdict)
    PROVE  /\ llm_cache' \in [Scenarios -> Judgments]
           /\ llm_cache'[s][step] = verdict
           /\ \A t \in Scenarios, other \in Steps :
                 t # s \/ other # step => llm_cache'[t][other] = llm_cache[t][other]
<1> DEFINE row == [llm_cache[s] EXCEPT ![step] = verdict]
<1>1. llm_cache \in [Scenarios -> Judgments] /\ llm_cache[s] \in Judgments
  BY DEF EvalTypeOK
<1>2. row \in Judgments
  BY <1>1, JudgmentIsSet
<1>3. llm_cache' = [llm_cache EXCEPT ![s] = row]
  BY DEF Store
<1>4. \A known \in Judgments : DOMAIN known = Steps
  BY DEF Judgments
<1>5. row[step] = verdict /\ \A other \in Steps : other # step => row[other] = llm_cache[s][other]
  BY <1>1, <1>4
<1> HIDE DEF row
<1> QED
  BY <1>1, <1>2, <1>3, <1>5

LEMMA BeginTypes ==
    ASSUME EvalTypeOK, NEW e \in Evals, Begin(e)
    PROVE  EvalTypeOK'
<1>1. Nothing \in Judgments /\ 1 \in DOMAIN ScenarioIds
  BY NothingIsKnown, SuiteAssumption, EmptySeq, LenProperties
<1>2. evals' \in 0..MAX_EVALS
  <2>1. evals \in 0..MAX_EVALS /\ MAX_EVALS \in Nat /\ evals < MAX_EVALS /\ evals' = evals + 1
    BY SuiteAssumption DEF EvalTypeOK, Begin
  <2> QED
    BY <2>1
<1> QED
  BY <1>1, <1>2 DEF EvalTypeOK, Begin, Goto

LEMMA JudgeTypes ==
    ASSUME EvalTypeOK, NEW e \in Evals, NEW step \in Steps, NEW where, Judge(e, step, where)
    PROVE  EvalTypeOK'
<1>1. PICK verdict \in answers(scenario(e), step, FALSE) :
          /\ Store(scenario(e), step, verdict)
          /\ state' = [state EXCEPT ![e][step] = verdict]
          /\ Goto(e, route_after(step, verdict))
  BY DEF Judge
<1>2. scenario(e) \in Scenarios
  BY ScenarioIsListed
<1>3. verdict \in Verdicts(step)
  BY <1>2, AnswersAreVerdicts
<1>4. llm_cache' \in [Scenarios -> Judgments]
  BY <1>1, <1>2, <1>3, StoreTypes
<1>5. state' \in [Evals -> Judgments]
  BY <1>1, <1>3, JudgmentIsSet DEF EvalTypeOK
<1>6. at' \in [Evals -> {"idle", "coverage", "eligibility", "sufficiency", "notification",
                         "check eligibility", "check sufficiency", "report",
                         "clean", "drift", "raised"}]
  BY <1>1 DEF EvalTypeOK, Goto, route_after
<1>7. reached' \in [Evals -> SUBSET (Scenarios \X Nodes)]
  <2> DEFINE Pairs == Scenarios \X Nodes
  <2>1. <<scenario(e), step>> \in Pairs
    BY <1>2 DEF Nodes
  <2>2. /\ reached \in [Evals -> SUBSET Pairs]
        /\ reached' = [reached EXCEPT ![e] = @ \cup {<<scenario(e), step>>}]
    BY DEF EvalTypeOK, Judge
  <2> HIDE DEF Pairs
  <2>3. reached' \in [Evals -> SUBSET Pairs]
    BY <2>1, <2>2
  <2> QED
    BY <2>3 DEF Pairs
<1> QED
  BY <1>4, <1>5, <1>6, <1>7 DEF EvalTypeOK, Judge

LEMMA CheckTypes ==
    ASSUME EvalTypeOK, NEW e \in Evals, NEW step \in Steps, NEW where,
           NEW next \in {"check sufficiency", "report"}, Check(e, step, where, next)
    PROVE  EvalTypeOK'
<1>1. scenario(e) \in Scenarios
  BY ScenarioIsListed
<1>2. at' \in [Evals -> {"idle", "coverage", "eligibility", "sufficiency", "notification",
                         "check eligibility", "check sufficiency", "report",
                         "clean", "drift", "raised"}]
  BY DEF Check, EvalTypeOK, Goto
<1>3. /\ llm_cache' \in [Scenarios -> Judgments]
      /\ mismatches' \in [Evals -> SUBSET {"eligible", "sufficient", "missing_documents"}]
      /\ asked' \in [Evals -> SUBSET (Scenarios \X Steps \X BOOLEAN)]
  <2>1. CASE UNCHANGED <<llm_cache, mismatches, asked>>
    BY <2>1 DEF EvalTypeOK
  <2>2. ASSUME NEW actual \in answers(scenario(e), step, TRUE),
               Golden[scenario(e)][step] # None,
               Store(scenario(e), step, actual),
               mismatches' = [mismatches EXCEPT ![e] =
                                 @ \cup compare(step, Golden[scenario(e)][step], actual)],
               asked' = [asked EXCEPT ![e] = @ \cup
                   IF asks_provider(scenario(e), step, TRUE)
                   THEN {<<scenario(e), step, Agree(step, Golden[scenario(e)][step], actual)>>}
                   ELSE {}]
        PROVE  <1>3!:
    <3>1. actual \in Verdicts(step) /\ Golden[scenario(e)][step] \in Verdicts(step)
      BY <1>1, <2>2, AnswersAreVerdicts, SuiteAssumption DEF Judgments
    <3>2. llm_cache' \in [Scenarios -> Judgments]
      BY <1>1, <2>2, <3>1, StoreTypes
    <3>3. compare(step, Golden[scenario(e)][step], actual)
              \subseteq {"eligible", "sufficient", "missing_documents"}
      BY <3>1, ComparisonFindsDrift
    <3>4. Agree(step, Golden[scenario(e)][step], actual) \in BOOLEAN
      BY DEF Agree
    <3> DEFINE Asks == Scenarios \X Steps \X BOOLEAN
               ask  == <<scenario(e), step, Agree(step, Golden[scenario(e)][step], actual)>>
    <3>5. ask \in Asks
      BY <1>1, <3>4
    <3>6. asked \in [Evals -> SUBSET Asks]
      BY DEF EvalTypeOK
    <3>7. asked' = [asked EXCEPT ![e] = @ \cup {ask}]
      BY <2>2 DEF asks_provider
    <3> HIDE DEF Asks, ask
    <3>8. asked' \in [Evals -> SUBSET Asks]
      BY <3>5, <3>6, <3>7
    <3>9. mismatches' \in [Evals -> SUBSET {"eligible", "sufficient", "missing_documents"}]
      BY <2>2, <3>3 DEF EvalTypeOK
    <3> QED
      BY <3>2, <3>8, <3>9 DEF Asks
  <2> QED
    BY <2>1, <2>2 DEF Check
<1> QED
  BY <1>2, <1>3 DEF EvalTypeOK, Check

LEMMA EvalTyping == EvalTypeOK /\ [Next]_vars => EvalTypeOK'
<1> SUFFICES ASSUME EvalTypeOK, [Next]_vars PROVE EvalTypeOK'
  OBVIOUS
<1>1. ASSUME NEW e \in Evals, Begin(e) PROVE EvalTypeOK'
  BY <1>1, BeginTypes
<1>2. ASSUME NEW e \in Evals, coverage_check(e) PROVE EvalTypeOK'
  BY <1>2 DEF EvalTypeOK, coverage_check, Goto
<1>3. ASSUME NEW e \in Evals, eligibility_judgment(e) \/ sufficiency_assessment(e)
      PROVE  EvalTypeOK'
  BY <1>3, JudgeTypes DEF eligibility_judgment, sufficiency_assessment, Steps
<1>4. ASSUME NEW e \in Evals, ReplayEnds(e) PROVE EvalTypeOK'
  <2> DEFINE Pairs == Scenarios \X Nodes
             pair  == <<scenario(e), "notification">>
  <2>1. pair \in Pairs
    BY ScenarioIsListed DEF Nodes
  <2>2. /\ reached \in [Evals -> SUBSET Pairs]
        /\ reached' = [reached EXCEPT ![e] = @ \cup {pair}]
    BY <1>4 DEF EvalTypeOK, ReplayEnds
  <2> HIDE DEF Pairs, pair
  <2>3. reached' \in [Evals -> SUBSET Pairs]
    BY <2>1, <2>2
  <2> QED
    BY <1>4, <2>3 DEF EvalTypeOK, ReplayEnds, Goto, Pairs
<1>5. ASSUME NEW e \in Evals, check_eligibility(e) \/ check_sufficiency(e)
      PROVE  EvalTypeOK'
  BY <1>5, CheckTypes DEF check_eligibility, check_sufficiency, Steps
<1>6. ASSUME NEW e \in Evals, Report(e) PROVE EvalTypeOK'
  <2>1. position' \in [Evals -> DOMAIN ScenarioIds]
    <3>1. DOMAIN ScenarioIds = 1..Len(ScenarioIds) /\ Len(ScenarioIds) \in Nat
      BY SuiteAssumption, LenProperties
    <3>2. position \in [Evals -> 1..Len(ScenarioIds)]
      BY <3>1 DEF EvalTypeOK
    <3>3. CASE position[e] < Len(ScenarioIds)
      <4>1. position[e] + 1 \in 1..Len(ScenarioIds)
        BY <3>1, <3>2, <3>3
      <4>2. position' = [position EXCEPT ![e] = position[e] + 1]
        BY <1>6, <3>3 DEF Report, scenarios_left
      <4> QED
        BY <3>1, <3>2, <4>1, <4>2
    <3> QED
      BY <1>6, <3>1, <3>2, <3>3 DEF Report, scenarios_left
  <2>2. Nothing \in Judgments
    BY NothingIsKnown
  <2>3. state' \in [Evals -> Judgments]
    BY <1>6, <2>2 DEF EvalTypeOK, Report
  <2>4. any_mismatch' \in [Evals -> BOOLEAN]
    BY <1>6 DEF EvalTypeOK, Report, drifted
  <2> QED
    BY <1>6, <2>1, <2>3, <2>4 DEF EvalTypeOK, Report, Goto
<1>7. ASSUME NEW e \in Evals, Raise(e) PROVE EvalTypeOK'
  BY <1>7 DEF EvalTypeOK, Raise, Goto
<1>8. ASSUME NEW steps, EditPrompt(steps) PROVE EvalTypeOK'
  <2>1. edits' \in 0..MAX_EDITS
    <3>1. edits \in 0..MAX_EDITS /\ MAX_EDITS \in Nat /\ edits < MAX_EDITS /\ edits' = edits + 1
      BY <1>8, SuiteAssumption DEF EvalTypeOK, EditPrompt
    <3> QED
      BY <3>1
  <2>2. llm_cache' \in [Scenarios -> Judgments]
    <3> DEFINE Any    == (UNION {Verdicts(other) : other \in Steps}) \cup {None}
               row(s) == [step \in Steps |-> IF step \in steps THEN None ELSE llm_cache[s][step]]
    <3>1. ASSUME NEW s \in Scenarios PROVE row(s) \in Judgments
      <4>1. /\ llm_cache[s] \in [Steps -> Any]
            /\ \A step \in Steps : llm_cache[s][step] \in Verdicts(step) \cup {None}
        BY DEF EvalTypeOK, Judgments
      <4>2. None \in Any
        OBVIOUS
      <4> HIDE DEF Any
      <4>3. row(s) \in [Steps -> Any]
        BY <4>1, <4>2
      <4>4. \A step \in Steps : row(s)[step] \in Verdicts(step) \cup {None}
        BY <4>1
      <4> QED
        BY <4>3, <4>4 DEF Judgments, Any
    <3>2. llm_cache' = [s \in Scenarios |-> row(s)]
      BY <1>8 DEF EditPrompt
    <3> HIDE DEF row
    <3> QED
      BY <3>1, <3>2
  <2> QED
    BY <1>8, <2>1, <2>2 DEF EvalTypeOK, EditPrompt
<1>9. CASE UNCHANGED vars
  BY <1>9 DEF EvalTypeOK, vars
<1> QED
  BY <1>1, <1>2, <1>3, <1>4, <1>5, <1>6, <1>7, <1>8, <1>9 DEF Next

\* Every state of every evaluation is well typed (EvalTypeOK).
THEOREM SuiteTyping == Spec => []EvalTypeOK
<1>1. Init => EvalTypeOK
  BY EvalInvInit DEF EvalInv
<1> QED
  BY <1>1, EvalTyping, PTL DEF Spec

-----------------------------------------------------------------------------
\* The replay

LEMMA BeginKeeps ==
    ASSUME EvalTypeOK, NEW e \in Evals, Begin(e)
    PROVE  SuiteInv(e)'
<1>1. /\ at'[e] = "coverage" /\ position'[e] = 1 /\ state'[e] = Nothing
      /\ mismatches'[e] = {} /\ any_mismatch'[e] = FALSE /\ reached'[e] = {} /\ asked'[e] = {}
  BY DEF EvalTypeOK, Begin, Goto
<1>2. \A i \in DOMAIN ScenarioIds : ~(i < 1)
  BY SuiteAssumption
<1> QED
  BY <1>1, <1>2 DEF SuiteInv, ReplayInOrder, ScenariosAreReplayed, InReplay, ReachedAreAsked,
     DriftIsRecorded, CheckedRowsAgree, drifted, Nothing, Steps

\* The route to the judgments and the end of the replay judge nothing.
LEMMA MoveKeeps ==
    ASSUME EvalTypeOK, NEW e \in Evals, SuiteInv(e),
           coverage_check(e) \/ ReplayEnds(e)
    PROVE  SuiteInv(e)'
<1>1. /\ UNCHANGED <<llm_cache, position, state, mismatches, any_mismatch, evals, edits, asked>>
      /\ \A f \in Evals \ {e} : at'[f] = at[f]
  BY DEF EvalTypeOK, coverage_check, ReplayEnds, Goto
<1>2. \/ /\ at[e] = "coverage" /\ at'[e] \in {"eligibility", "notification"}
         /\ reached' = reached
      \/ /\ at[e] = "notification" /\ at'[e] = "check eligibility"
         /\ reached'[e] = reached[e] \cup {<<scenario(e), "notification">>}
  BY DEF EvalTypeOK, coverage_check, ReplayEnds, Goto
<1>10. \A s \in Scenarios, step \in Steps :
          <<s, step>> \in reached'[e] => <<s, step>> \in reached[e]
  <2>1. \A s, step, other : <<s, step>> = <<other, "notification">> => step \notin Steps
    BY DEF Steps
  <2>2. reached' = reached \/ reached'[e] = reached[e] \cup {<<scenario(e), "notification">>}
    BY <1>2
  <2> QED
    BY <2>1, <2>2
<1>3. Active(e) /\ Active(e)' /\ drifted(e)' = drifted(e) /\ Alone(e)' = Alone(e)
  BY <1>1, <1>2 DEF Active, drifted, Alone
<1>4. \A s \in Scenarios, step \in Steps : Unchecked(e, s, step)' = Unchecked(e, s, step)
  BY <1>1, <1>2 DEF Unchecked, BeforeCheck, scenario
<1>5. ReplayInOrder(e)'
  BY <1>1, <1>2 DEF SuiteInv, ReplayInOrder
<1>6. ScenariosAreReplayed(e)'
  BY <1>1, <1>2, <1>3 DEF SuiteInv, ScenariosAreReplayed, InReplay, scenario
<1>7. ReachedAreAsked(e)'
  BY <1>1, <1>3, <1>4, <1>10 DEF SuiteInv, ReachedAreAsked
<1>8. DriftIsRecorded(e)'
  BY <1>1, <1>2, <1>3 DEF SuiteInv, DriftIsRecorded
<1>9. CheckedRowsAgree(e)'
  BY <1>1, <1>3, <1>4, <1>10 DEF SuiteInv, CheckedRowsAgree
<1> QED
  BY <1>5, <1>6, <1>7, <1>8, <1>9 DEF SuiteInv

\* A judgment of the replay is unchecked, and another row is not touched.
LEMMA JudgeKeeps ==
    ASSUME EvalTypeOK, NEW e \in Evals, SuiteInv(e),
           eligibility_judgment(e) \/ sufficiency_assessment(e)
    PROVE  SuiteInv(e)'
<1>1. PICK step \in Steps, where \in {"eligibility", "sufficiency"} :
          /\ Judge(e, step, where)
          /\ step = "eligibility_judgment" <=> where = "eligibility"
  BY DEF eligibility_judgment, sufficiency_assessment, Steps
<1> DEFINE s == scenario(e)
<1>2. PICK verdict \in answers(s, step, FALSE) :
          /\ Store(s, step, verdict)
          /\ state' = [state EXCEPT ![e][step] = verdict]
          /\ Goto(e, route_after(step, verdict))
  BY <1>1 DEF Judge
<1>3. s \in Scenarios /\ verdict \in Verdicts(step) /\ verdict # None
  BY ScenarioIsListed, AnswersAreVerdicts, <1>2
<1>4. /\ UNCHANGED <<position, mismatches, any_mismatch, evals, edits, asked>>
      /\ reached'[e] = reached[e] \cup {<<s, step>>}
      /\ at[e] = where
  BY <1>1 DEF EvalTypeOK, Judge
<1>5. /\ state'[e][step] = verdict
      /\ \A other \in Steps : other # step => state'[e][other] = state[e][other]
  <2>1. state[e] \in [Steps -> (UNION {Verdicts(other) : other \in Steps}) \cup {None}]
    BY DEF EvalTypeOK, Judgments
  <2>2. state'[e] = [state[e] EXCEPT ![step] = verdict]
    BY <1>2 DEF EvalTypeOK
  <2> QED
    BY <2>1, <2>2
<1>6. /\ at'[e] \in {"sufficiency", "notification"}
      /\ at'[e] = "sufficiency" => step = "eligibility_judgment"
      /\ \A f \in Evals \ {e} : at'[f] = at[f]
  BY <1>2 DEF EvalTypeOK, Goto, route_after
<1>7. Active(e) /\ Active(e)' /\ drifted(e)' = drifted(e) /\ Alone(e)' = Alone(e)
  BY <1>4, <1>6 DEF Active, drifted, Alone
<1>8. scenario(e)' = s /\ Unchecked(e, s, step)'
  BY <1>3, <1>4, <1>5, <1>6 DEF Unchecked, BeforeCheck, scenario
<1>9. ASSUME NEW t \in Scenarios, NEW other \in Steps, t # s \/ other # step,
             Unchecked(e, t, other)
      PROVE  Unchecked(e, t, other)'
  BY <1>3, <1>5, <1>6, <1>8, <1>9 DEF Unchecked, BeforeCheck
<1>10. ReplayInOrder(e)'
  BY <1>1, <1>3, <1>4, <1>5, <1>6 DEF SuiteInv, ReplayInOrder, Steps
<1>11. ScenariosAreReplayed(e)'
  BY <1>4, <1>6, <1>7 DEF SuiteInv, ScenariosAreReplayed, InReplay
<1>12. ReachedAreAsked(e)'
  <2> SUFFICES ASSUME NEW t \in Scenarios, NEW other \in Steps,
                      <<t, other>> \in reached'[e], Golden[t][other] # None
               PROVE  \/ Unchecked(e, t, other)'
                      \/ \E agreed \in BOOLEAN : <<t, other, agreed>> \in asked'[e]
    BY DEF ReachedAreAsked
  <2>1. CASE t = s /\ other = step
    BY <1>8, <2>1
  <2>2. CASE t # s \/ other # step
    <3>1. <<t, other>> \in reached[e]
      BY <1>4, <2>2
    <3> QED
      BY <1>4, <1>7, <1>9, <2>2, <3>1 DEF SuiteInv, ReachedAreAsked
  <2> QED
    BY <2>1, <2>2
<1>13. DriftIsRecorded(e)'
  BY <1>4, <1>6, <1>7 DEF SuiteInv, DriftIsRecorded
<1>14. CheckedRowsAgree(e)'
  <2> SUFFICES ASSUME Alone(e), ~drifted(e), NEW t \in Scenarios, NEW other \in Steps,
                      <<t, other>> \in reached'[e], Golden[t][other] # None
               PROVE  \/ Unchecked(e, t, other)'
                      \/ Agree(other, Golden[t][other], llm_cache'[t][other])
    BY <1>7 DEF CheckedRowsAgree
  <2>1. CASE t = s /\ other = step
    BY <1>8, <2>1
  <2>2. CASE t # s \/ other # step
    <3>1. <<t, other>> \in reached[e]
      BY <1>4, <2>2
    <3>2. llm_cache'[t][other] = llm_cache[t][other]
      BY <1>2, <1>3, <2>2, StoreTypes
    <3> QED
      BY <1>7, <1>9, <2>2, <3>1, <3>2 DEF SuiteInv, CheckedRowsAgree
  <2> QED
    BY <2>1, <2>2
<1> QED
  BY <1>10, <1>11, <1>12, <1>13, <1>14 DEF SuiteInv

-----------------------------------------------------------------------------
\* The drift check

\* A step the replay did not reach, or one without a golden, leaves nothing
\* unchecked behind.
LEMMA SkippedCheckKeeps ==
    ASSUME EvalTypeOK, NEW e \in Evals, SuiteInv(e),
           \/ /\ at[e] = "check eligibility" /\ at'[e] = "check sufficiency"
              /\ Golden[scenario(e)]["eligibility_judgment"] = None
           \/ /\ at[e] = "check eligibility" /\ at'[e] = "report"
              /\ state[e]["eligibility_judgment"] = None
           \/ /\ at[e] = "check sufficiency" /\ at'[e] = "report"
              /\ \/ Golden[scenario(e)]["sufficiency_assessment"] = None
                 \/ state[e]["sufficiency_assessment"] = None,
           \A f \in Evals \ {e} : at'[f] = at[f],
           UNCHANGED <<llm_cache, position, state, mismatches, any_mismatch, evals, edits,
                       reached, asked>>
    PROVE  SuiteInv(e)'
<1>1. Active(e) /\ Active(e)' /\ drifted(e)' = drifted(e) /\ Alone(e)' = Alone(e)
  BY DEF Active, drifted, Alone
<1>2. scenario(e)' = scenario(e)
  BY DEF scenario
<1>3. ASSUME NEW s \in Scenarios, NEW step \in Steps, Unchecked(e, s, step), Golden[s][step] # None
      PROVE  Unchecked(e, s, step)'
  BY <1>2, <1>3 DEF Unchecked, BeforeCheck, Steps, SuiteInv, ReplayInOrder
<1>4. ReplayInOrder(e)' /\ ScenariosAreReplayed(e)'
  BY <1>1 DEF SuiteInv, ReplayInOrder, ScenariosAreReplayed, InReplay
<1>5. ReachedAreAsked(e)'
  BY <1>1, <1>3 DEF SuiteInv, ReachedAreAsked
<1>6. DriftIsRecorded(e)'
  BY <1>1 DEF SuiteInv, DriftIsRecorded
<1>7. CheckedRowsAgree(e)'
  BY <1>1, <1>3 DEF SuiteInv, CheckedRowsAgree
<1> QED
  BY <1>4, <1>5, <1>6, <1>7 DEF SuiteInv

\* A fresh verdict is on record, and so is whether it agrees; it is the row
\* that later replays read.
LEMMA FreshCheckKeeps ==
    ASSUME EvalTypeOK, NEW e \in Evals, SuiteInv(e), NEW step \in Steps,
           \/ /\ step = "eligibility_judgment"
              /\ at[e] = "check eligibility" /\ at'[e] = "check sufficiency"
           \/ /\ step = "sufficiency_assessment"
              /\ at[e] = "check sufficiency" /\ at'[e] = "report",
           \A f \in Evals \ {e} : at'[f] = at[f],
           state[e][step] # None, Golden[scenario(e)][step] # None,
           NEW actual \in answers(scenario(e), step, TRUE),
           Store(scenario(e), step, actual),
           mismatches' = [mismatches EXCEPT ![e] =
                             @ \cup compare(step, Golden[scenario(e)][step], actual)],
           asked' = [asked EXCEPT ![e] = @ \cup
               {<<scenario(e), step, Agree(step, Golden[scenario(e)][step], actual)>>}],
           UNCHANGED <<position, state, any_mismatch, evals, edits, reached>>
    PROVE  SuiteInv(e)'
<1> DEFINE s      == scenario(e)
           agreed == Agree(step, Golden[s][step], actual)
           found  == compare(step, Golden[s][step], actual)
<1>1. /\ s \in Scenarios /\ actual \in Verdicts(step) /\ Golden[s][step] \in Verdicts(step)
      /\ agreed \in BOOLEAN
  <2>1. s \in Scenarios
    BY ScenarioIsListed
  <2>2. actual \in Verdicts(step) /\ Golden[s][step] \in Verdicts(step)
    BY <2>1, AnswersAreVerdicts, SuiteAssumption DEF Judgments
  <2> QED
    BY <2>1, <2>2 DEF Agree
<1>2. found = {} <=> agreed
  BY <1>1, ComparisonFindsDrift
<1>3. /\ mismatches'[e] = mismatches[e] \cup found
      /\ asked'[e] = asked[e] \cup {<<s, step, agreed>>}
  BY DEF EvalTypeOK
<1>4. /\ llm_cache'[s][step] = actual
      /\ \A t \in Scenarios, other \in Steps :
            t # s \/ other # step => llm_cache'[t][other] = llm_cache[t][other]
  BY <1>1, StoreTypes
<1> HIDE DEF agreed, found
<1>5. Active(e) /\ Active(e)' /\ Alone(e)' = Alone(e) /\ scenario(e)' = s
  BY DEF Active, Alone, scenario
<1>6. drifted(e)' <=> drifted(e) \/ ~agreed
  BY <1>2, <1>3 DEF drifted
<1>7. ASSUME NEW t \in Scenarios, NEW other \in Steps, t # s \/ other # step,
             Unchecked(e, t, other)
      PROVE  Unchecked(e, t, other)'
  BY <1>5, <1>7 DEF Unchecked, BeforeCheck, Steps
<1>8. ReplayInOrder(e)' /\ ScenariosAreReplayed(e)'
  BY <1>5 DEF SuiteInv, ReplayInOrder, ScenariosAreReplayed, InReplay
<1>9. ReachedAreAsked(e)'
  <2> SUFFICES ASSUME NEW t \in Scenarios, NEW other \in Steps,
                      <<t, other>> \in reached[e], Golden[t][other] # None
               PROVE  \/ Unchecked(e, t, other)'
                      \/ \E b \in BOOLEAN : <<t, other, b>> \in asked'[e]
    BY DEF ReachedAreAsked
  <2>1. CASE t = s /\ other = step
    BY <1>1, <1>3, <2>1
  <2>2. CASE t # s \/ other # step
    BY <1>3, <1>5, <1>7, <2>2 DEF SuiteInv, ReachedAreAsked
  <2> QED
    BY <2>1, <2>2
<1>10. DriftIsRecorded(e)'
  <2>1. (\E ask \in asked'[e] : ~ask[3]) <=> (\E ask \in asked[e] : ~ask[3]) \/ ~agreed
    <3>1. <<s, step, agreed>>[3] = agreed
      OBVIOUS
    <3> QED
      BY <1>3, <3>1
  <2>2. drifted(e) <=> \E ask \in asked[e] : ~ask[3]
    BY <1>5 DEF SuiteInv, DriftIsRecorded
  <2>3. at'[e] \notin {"clean", "drift"}
    OBVIOUS
  <2> QED
    BY <1>6, <2>1, <2>2, <2>3 DEF DriftIsRecorded
<1>11. CheckedRowsAgree(e)'
  <2> SUFFICES ASSUME Alone(e), ~drifted(e), agreed, NEW t \in Scenarios, NEW other \in Steps,
                      <<t, other>> \in reached[e], Golden[t][other] # None
               PROVE  \/ Unchecked(e, t, other)'
                      \/ Agree(other, Golden[t][other], llm_cache'[t][other])
    BY <1>5, <1>6 DEF CheckedRowsAgree
  <2>1. CASE t = s /\ other = step
    BY <1>4, <2>1 DEF agreed
  <2>2. CASE t # s \/ other # step
    <3>1. llm_cache'[t][other] = llm_cache[t][other]
      BY <1>4, <2>2
    <3> QED
      BY <1>5, <1>7, <2>2, <3>1 DEF SuiteInv, CheckedRowsAgree
  <2> QED
    BY <2>1, <2>2
<1> QED
  BY <1>8, <1>9, <1>10, <1>11 DEF SuiteInv

LEMMA CheckKeeps ==
    ASSUME EvalTypeOK, NEW e \in Evals, SuiteInv(e),
           check_eligibility(e) \/ check_sufficiency(e)
    PROVE  SuiteInv(e)'
<1>1. PICK step \in Steps, where \in {"check eligibility", "check sufficiency"},
             next \in {"check sufficiency", "report"} :
          /\ Check(e, step, where, next)
          /\ \/ /\ step = "eligibility_judgment"
                /\ where = "check eligibility" /\ next = "check sufficiency"
             \/ /\ step = "sufficiency_assessment"
                /\ where = "check sufficiency" /\ next = "report"
  BY DEF check_eligibility, check_sufficiency, Steps
<1>2. /\ at[e] = where /\ \A f \in Evals \ {e} : at'[f] = at[f]
      /\ UNCHANGED <<position, state, any_mismatch, evals, edits, reached>>
  BY <1>1 DEF EvalTypeOK, Check, Goto
<1>3. CASE /\ state[e][step] = None /\ Goto(e, "report")
           /\ UNCHANGED <<llm_cache, mismatches, asked>>
  <2>1. at'[e] = "report"
    BY <1>3 DEF EvalTypeOK, Goto
  <2> QED
    BY <1>1, <1>2, <1>3, <2>1, SkippedCheckKeeps
<1>4. CASE /\ Golden[scenario(e)][step] = None /\ Goto(e, next)
           /\ UNCHANGED <<llm_cache, mismatches, asked>>
  <2>1. at'[e] = next
    BY <1>4 DEF EvalTypeOK, Goto
  <2> QED
    BY <1>1, <1>2, <1>4, <2>1, SkippedCheckKeeps
<1>5. ASSUME state[e][step] # None, Golden[scenario(e)][step] # None, Goto(e, next),
             NEW actual \in answers(scenario(e), step, TRUE),
             Store(scenario(e), step, actual),
             mismatches' = [mismatches EXCEPT ![e] =
                               @ \cup compare(step, Golden[scenario(e)][step], actual)],
             asked' = [asked EXCEPT ![e] = @ \cup
                 IF asks_provider(scenario(e), step, TRUE)
                 THEN {<<scenario(e), step, Agree(step, Golden[scenario(e)][step], actual)>>}
                 ELSE {}]
      PROVE  SuiteInv(e)'
  <2>1. at'[e] = next
    BY <1>5 DEF EvalTypeOK, Goto
  <2>2. asked' = [asked EXCEPT ![e] = @ \cup
            {<<scenario(e), step, Agree(step, Golden[scenario(e)][step], actual)>>}]
    BY <1>5 DEF asks_provider
  <2> QED
    BY <1>1, <1>2, <1>5, <2>1, <2>2, FreshCheckKeeps
<1> QED
  BY <1>1, <1>3, <1>4, <1>5 DEF Check

\* The report forgets a scenario's mismatches, never that there were some.
LEMMA ReportKeeps ==
    ASSUME EvalTypeOK, NEW e \in Evals, SuiteInv(e), Report(e)
    PROVE  SuiteInv(e)'
<1>1. /\ UNCHANGED <<llm_cache, evals, edits, reached, asked>>
      /\ at[e] = "report" /\ \A f \in Evals \ {e} : at'[f] = at[f]
      /\ any_mismatch'[e] = drifted(e) /\ mismatches'[e] = {} /\ state'[e] = Nothing
  BY DEF EvalTypeOK, Report, Goto
<1>2. \/ /\ at'[e] = "coverage" /\ position'[e] = position[e] + 1
      \/ /\ at'[e] = IF drifted(e) THEN "drift" ELSE "clean"
         /\ position'[e] = position[e] /\ ~scenarios_left(e)
  BY DEF EvalTypeOK, Report, Goto
<1>3. Active(e) /\ Active(e)' /\ drifted(e)' = drifted(e) /\ Alone(e)' = Alone(e)
  BY <1>1, <1>2 DEF Active, drifted, Alone
<1>4. \A s \in Scenarios, step \in Steps : ~Unchecked(e, s, step)
  BY <1>1 DEF Unchecked, BeforeCheck
<1>5. ReplayInOrder(e)'
  BY <1>1, <1>2 DEF ReplayInOrder, Nothing, Steps
<1>6. ScenariosAreReplayed(e)'
  <2>1. /\ DOMAIN ScenarioIds = 1..Len(ScenarioIds) /\ Len(ScenarioIds) \in Nat
        /\ position[e] \in 1..Len(ScenarioIds)
    BY SuiteAssumption, LenProperties DEF EvalTypeOK
  <2>2. ASSUME NEW i \in DOMAIN ScenarioIds,
               \/ i < position'[e]
               \/ i = position'[e] /\ at'[e] \notin InReplay
        PROVE  <<ScenarioIds[i], "notification">> \in reached'[e]
    <3>1. i < position[e] \/ i = position[e]
      BY <1>2, <2>1, <2>2 DEF InReplay
    <3> QED
      BY <1>1, <1>3, <2>2, <3>1 DEF SuiteInv, ScenariosAreReplayed, InReplay
  <2>3. at'[e] \in {"clean", "drift"} => position'[e] = Len(ScenarioIds)
    BY <1>2, <2>1 DEF scenarios_left
  <2> QED
    BY <2>2, <2>3 DEF ScenariosAreReplayed
<1>7. ReachedAreAsked(e)'
  BY <1>1, <1>3, <1>4 DEF SuiteInv, ReachedAreAsked
<1>8. DriftIsRecorded(e)'
  BY <1>1, <1>2, <1>3 DEF SuiteInv, DriftIsRecorded
<1>9. CheckedRowsAgree(e)'
  BY <1>1, <1>3, <1>4 DEF SuiteInv, CheckedRowsAgree
<1> QED
  BY <1>5, <1>6, <1>7, <1>8, <1>9 DEF SuiteInv

\* An aborted suite vouches for nothing.
LEMMA RaiseKeeps ==
    ASSUME EvalTypeOK, NEW e \in Evals, SuiteInv(e), Raise(e)
    PROVE  SuiteInv(e)'
<1>1. at'[e] = "raised" /\ state'[e] = state[e]
  BY DEF EvalTypeOK, Raise, Goto
<1> QED
  BY <1>1 DEF SuiteInv, ReplayInOrder, ScenariosAreReplayed, ReachedAreAsked, DriftIsRecorded,
     CheckedRowsAgree, Active

LEMMA EvalInvNext == EvalInv /\ [Next]_vars => EvalInv'
<1> SUFFICES ASSUME EvalInv, [Next]_vars PROVE EvalInv'
  OBVIOUS
<1>t. EvalTypeOK /\ EvalTypeOK'
  BY EvalTyping DEF EvalInv
<1> SUFFICES ASSUME NEW f \in Evals PROVE SuiteInv(f)'
  BY <1>t DEF EvalInv
<1>1. ASSUME NEW e \in Evals, Step(e) PROVE SuiteInv(f)'
  <2>1. CASE f = e
    BY <1>1, <1>t, <2>1, BeginKeeps, MoveKeeps, JudgeKeeps, CheckKeeps, ReportKeeps, RaiseKeeps
       DEF EvalInv, Step
  <2>2. CASE f # e
    <3>1. Untouched(f) /\ at'[e] # "idle"
      BY <1>1, <1>t, <2>2, OthersAreUntouched
    <3>2. ~Alone(f)'
      BY <2>2, <3>1 DEF Alone
    <3> QED
      BY <1>t, <3>1, <3>2, UntouchedKeeps DEF EvalInv
  <2> QED
    BY <2>1, <2>2
<1>2. ASSUME NEW steps, EditPrompt(steps) PROVE SuiteInv(f)'
  <2>1. Untouched(f)
    BY <1>2 DEF EditPrompt, Untouched
  <2>2. ~Alone(f)'
    <3>1. edits \in 0..MAX_EDITS /\ edits' = edits + 1
      BY <1>2, <1>t DEF EditPrompt, EvalTypeOK
    <3>2. edits' # 0
      BY <3>1
    <3> QED
      BY <3>2 DEF Alone
  <2> QED
    BY <1>t, <2>1, <2>2, UntouchedKeeps DEF EvalInv
<1>3. CASE UNCHANGED vars
  BY <1>3 DEF EvalInv, vars, SuiteInv, ReplayInOrder, ScenariosAreReplayed, ReachedAreAsked,
     DriftIsRecorded, CheckedRowsAgree, Active, Alone, Unchecked, scenario, drifted
<1> QED
  BY <1>1, <1>2, <1>3 DEF Next, Step

-----------------------------------------------------------------------------
LEMMA CleanMeansAllAgreed ==
    ASSUME EvalInv, NEW e \in Evals, at[e] = "clean"
    PROVE  /\ \A s \in Scenarios : <<s, "notification">> \in reached[e]
           /\ \A ask \in asked[e] : ask[3]
           /\ \A s \in Scenarios, step \in Steps :
                 <<s, step>> \in reached[e] /\ Golden[s][step] # None =>
                     <<s, step, TRUE>> \in asked[e]
<1>1. SuiteInv(e) /\ Active(e) /\ ~drifted(e)
  BY DEF EvalInv, SuiteInv, DriftIsRecorded, Active
<1>2. \A ask \in asked[e] : ask[3]
  BY <1>1 DEF SuiteInv, DriftIsRecorded
<1>3. ASSUME NEW s \in Scenarios PROVE <<s, "notification">> \in reached[e]
  <2>1. PICK i \in DOMAIN ScenarioIds : ScenarioIds[i] = s
    BY SuiteAssumption DEF Scenarios, Range
  <2>2. i < position[e] \/ i = position[e]
    BY <1>1, SuiteAssumption, LenProperties DEF SuiteInv, ScenariosAreReplayed
  <2> QED
    BY <1>1, <2>1, <2>2 DEF SuiteInv, ScenariosAreReplayed, InReplay
<1>4. ASSUME NEW s \in Scenarios, NEW step \in Steps,
             <<s, step>> \in reached[e], Golden[s][step] # None
      PROVE  <<s, step, TRUE>> \in asked[e]
  <2>1. ~Unchecked(e, s, step)
    BY DEF Unchecked, BeforeCheck
  <2>2. PICK agreed \in BOOLEAN : <<s, step, agreed>> \in asked[e]
    BY <1>1, <1>4, <2>1 DEF SuiteInv, ReachedAreAsked
  <2>3. <<s, step, agreed>>[3] = agreed
    OBVIOUS
  <2> QED
    BY <1>2, <2>2, <2>3
<1> QED
  BY <1>2, <1>3, <1>4

LEMMA EvalInvHolds == Spec => []EvalInv
BY EvalInvInit, EvalInvNext, PTL DEF Spec

\* Exit status 0: every scenario was replayed to its end, and every judgment
\* its replay reached and that has a golden was asked for afresh, in this
\* evaluation, and agreed (NoDriftIsMissed).
THEOREM DriftIsNeverMissed == Spec => []NoDriftIsMissed
<1>1. EvalInv => NoDriftIsMissed
  BY CleanMeansAllAgreed DEF NoDriftIsMissed
<1> QED
  BY <1>1, EvalInvHolds, PTL

\* Exit status 1: some fresh verdict differed from its golden (NoFalseAlarm).
THEOREM DriftIsNeverInvented == Spec => []NoFalseAlarm
<1>1. EvalInv => NoFalseAlarm
  BY DEF EvalInv, SuiteInv, DriftIsRecorded, Active, NoFalseAlarm
<1> QED
  BY <1>1, EvalInvHolds, PTL

\* The rows a clean suite leaves agree with the goldens, when nobody else ran
\* one and no prompt changed (CleanSuiteLeavesGoldenRows).
THEOREM GoldenRowsAreLeft == Spec => []CleanSuiteLeavesGoldenRows
<1>1. ASSUME EvalInv, NEW e \in Evals, at[e] = "clean", Alone(e),
             NEW s \in Scenarios, NEW step \in Steps,
             <<s, step>> \in reached[e], Golden[s][step] # None
      PROVE  Agree(step, Golden[s][step], llm_cache[s][step])
  <2>1. SuiteInv(e) /\ Active(e) /\ ~drifted(e) /\ ~Unchecked(e, s, step)
    BY <1>1 DEF EvalInv, SuiteInv, DriftIsRecorded, Active, Unchecked, BeforeCheck
  <2> QED
    BY <1>1, <2>1 DEF SuiteInv, CheckedRowsAgree
<1>2. EvalInv => CleanSuiteLeavesGoldenRows
  BY <1>1 DEF CleanSuiteLeavesGoldenRows, Alone
<1> QED
  BY <1>2, EvalInvHolds, PTL
=============================================================================

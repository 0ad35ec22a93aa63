---------------------------- MODULE MCEvalSuite ----------------------------
(***************************************************************************)
(* tc006 lacks documents; tc007 was judged ineligible, so it has no second *)
(* golden.                                                                 *)
(***************************************************************************)
EXTENDS EvalSuite, TLC

MCMissing == {<<"repair_estimate", "police_report">>, <<"police_report", "repair_estimate">>,
              <<"police_report">>}

MCScenarioIds == <<"tc006", "tc007">>

MCGolden ==
    "tc006" :> [step \in Steps |->
        IF step = "eligibility_judgment" THEN [eligible |-> TRUE]
        ELSE [sufficient |-> FALSE,
              missing_documents |-> <<"repair_estimate", "police_report">>]]
    @@ "tc007" :> [Nothing EXCEPT !["eligibility_judgment"] = [eligible |-> FALSE]]

Suites == Permutations(Evals)
=============================================================================

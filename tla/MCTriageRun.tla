----------------------------- MODULE MCTriageRun -----------------------------
(***************************************************************************)
(* One claim that resolves by itself and is judged, one that does not fit  *)
(* its coverage, and one that two namesakes answer to, each typed by a     *)
(* human or replayed from a script.  Some scripts do not fit the gates     *)
(* their claim comes to.                                                   *)
(***************************************************************************)
EXTENDS MCTriageGraph, TriageRun

RunIntakes ==
    Claims({"P1"}, {Plain("ann")}, {None}, {None}, {<<5, 2>>, <<6, 2>>})
    \cup Claims({None}, {Plain("ann")}, {None}, {None}, {<<5, 3>>})

\* The LLM reads the fields as they were typed.
RunLLMQueries == {search_query(intake) : intake \in RunIntakes}

MCScripts ==
    {None, <<"approve">>, <<"P1">>, <<"P1", "approve">>, <<"decline", "reject">>}

\* state.py:41 types final_decision as Literal["approve", "reject"] | None and
\* hitl.py:19 says "approve/reject only"; final_review_gate takes any response
\* of a script, such as the policy_id meant for a gate this run did not reach.
DecisionIsApproveOrReject ==
    checkpoint.state.final_decision \in {"approve", "reject", None}

\* hitl.py:17-18: "rejecting ends the run with nothing written".  A process
\* that dies between the file and its checkpoint leaves the file behind, and
\* the reviewer, asked again, may reject.
RejectionWritesNothing ==
    checkpoint.state.final_decision = "reject" => output = <<>>
=============================================================================

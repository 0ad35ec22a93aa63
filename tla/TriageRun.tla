------------------------------ MODULE TriageRun ------------------------------
(***************************************************************************)
(* One thread of the checkpointed graph, as runner.py drives it: the       *)
(* process that runs the nodes, the human gates that interrupt it, the     *)
(* checkpoint in Postgres (checkpointer.py) and the file the Final Review  *)
(* Gate writes (hitl.py, output.py).  The process may crash at any point   *)
(* and another one then resumes the thread from its checkpoint (ADR-0003). *)
(*                                                                         *)
(* LangGraph is external, modelled from how the code uses it.  It saves    *)
(* checkpoints in the background, so that the saved one may lag behind     *)
(* the nodes run since, and waits for them before invoke() returns; a      *)
(* node it was running when the process died is run again from its start;  *)
(* the answer a gate was resumed with may or may not have been saved.      *)
(***************************************************************************)
EXTENDS TriageGraph

CONSTANTS
    Scripts,      \* the gate_responses.json of the scenarios, and None: the TUI
    MAX_CRASHES   \* bound on the crashes of one behaviour

VARIABLES
    proc,           \* the process: "running" the nodes; "waiting" for a human;
                    \* "resuming" with an answer; having "wrote" the file; "done"; "down"
    answer,         \* the decision on_interrupt returned, while it is resumed with
    shown,          \* the payload of the last interrupt
    script,         \* the scripted responses left, or None: a human types them
    checkpoint,     \* the state and node saved last
    saved_answer,   \* the answer saved with that checkpoint
    approved,       \* the payloads a reviewer answered with "approve"
    crashes

runVars == <<proc, answer, shown, script, checkpoint, saved_answer, approved, crashes>>
allVars == <<vars, runVars>>

ASSUME ScriptsAssumption ==
    /\ \A s \in Scripts \ {None} : s \in Seq(Answers)
    /\ {"approve", "reject"} \subseteq Answers
    /\ MAX_CRASHES \in Nat

\* What a human or a script answers at one gate or the other.
Decisions == Answers \cup PolicyIds \cup {"decline"}

Live == [state |-> state, node |-> node]

build_payload(s, n) ==
    IF n = "policy_selection_gate"
    THEN [gate |-> "policy_selection", candidates |-> s.candidates]
    ELSE [gate |-> "final_review",
          policy |-> s.resolved_policy, confidence |-> s.policy_resolution_confidence,
          coverage_check |-> s.coverage_check,
          eligibility_judgment |-> s.eligibility_judgment,
          sufficiency_assessment |-> s.sufficiency_assessment,
          notification |-> s.notification]

-----------------------------------------------------------------------------
\* The process

RunNode ==
    /\ proc \in {"running", "resuming"}
    /\ MachineStep
    /\ UNCHANGED runVars

\* The background save of the latest checkpoint lands.
SaveCheckpoint ==
    /\ proc # "down"
    /\ checkpoint # Live
    /\ checkpoint' = Live
    /\ saved_answer' = None
    /\ UNCHANGED <<vars, proc, answer, shown, script, approved, crashes>>

\* Fault: invoke() returns before the checkpoint it paused at is saved.
Interrupt_unsaved ==
    /\ proc = "running"
    /\ node \in HumanGates
    /\ proc' = "waiting"
    /\ shown' = build_payload(state, node)
    /\ UNCHANGED <<vars, answer, script, checkpoint, saved_answer, approved, crashes>>

\* interrupt(payload) raises out of the gate; invoke() returns the payload
\* once every checkpoint is saved.
Interrupt ==
    /\ proc = "running"
    /\ node \in HumanGates
    /\ proc' = "waiting"
    /\ shown' = build_payload(state, node)
    /\ checkpoint' = Live
    /\ saved_answer' = None
    /\ UNCHANGED <<vars, answer, script, approved, crashes>>

\* What the TUI lets a human type at the gate whose payload is shown.
prompt_policy_selection ==
    {c.policy.policy_id : c \in shown.candidates} \cup {"decline"}

prompt_approval == {"approve", "reject"}

tui_answers ==
    IF shown.gate = "policy_selection" THEN prompt_policy_selection ELSE prompt_approval

\* on_interrupt returns a decision, and invoke(Command(resume=decision))
\* reloads the thread from its checkpoint.
Respond(decision) ==
    /\ proc = "waiting"
    /\ \/ script = None /\ decision \in tui_answers /\ UNCHANGED script
       \/ /\ script \notin {None, <<>>}
          /\ decision = Head(script)
          /\ script' = Tail(script)
    /\ proc' = "resuming"
    /\ answer' = decision
    /\ saved_answer' \in {None, decision}
    /\ approved' = IF shown.gate = "final_review" /\ decision = "approve"
                   THEN approved \cup {shown} ELSE approved
    /\ state' = checkpoint.state
    /\ node' = checkpoint.node
    /\ UNCHANGED <<output, declined, shown, checkpoint, crashes>>

\* The gate runs again from its start, and interrupt() returns the answer.
SelectPolicy ==
    /\ proc = "resuming"
    /\ policy_selection_gate(answer)
    /\ proc' = "running"
    /\ answer' = None
    /\ UNCHANGED <<shown, script, checkpoint, saved_answer, approved, crashes>>

WriteNotification ==
    /\ proc = "resuming"
    /\ node = "final_review_gate"
    /\ answer = "approve"
    /\ output' = Append(output, state.notification)
    /\ proc' = "wrote"
    /\ UNCHANGED <<state, node, declined, answer, shown, script, checkpoint, saved_answer,
                   approved, crashes>>

\* Fault: the decision is returned, and saved, before the file is written.
ReturnDecision_early ==
    /\ node = "final_review_gate"
    /\ proc \in {"resuming", "wrote"}
    /\ state' = [state EXCEPT !.final_decision = answer]
    /\ node' = "END"
    /\ proc' = "running"
    /\ answer' = None
    /\ UNCHANGED <<output, declined, shown, script, checkpoint, saved_answer, approved, crashes>>

ReturnDecision ==
    /\ node = "final_review_gate"
    /\ proc = "wrote" \/ (proc = "resuming" /\ answer # "approve")
    /\ state' = [state EXCEPT !.final_decision = answer]
    /\ node' = "END"
    /\ proc' = "running"
    /\ answer' = None
    /\ UNCHANGED <<output, declined, shown, script, checkpoint, saved_answer, approved, crashes>>

\* The last invoke() returns without an interrupt.
Complete ==
    /\ proc = "running"
    /\ node = "END"
    /\ proc' = "done"
    /\ checkpoint' = Live
    /\ saved_answer' = None
    /\ UNCHANGED <<vars, answer, shown, script, approved, crashes>>

-----------------------------------------------------------------------------
\* The end of a process: what it held in memory is lost.

Down ==
    /\ proc' = "down"
    /\ answer' = None
    /\ script' = None
    /\ state' = checkpoint.state
    /\ node' = checkpoint.node
    /\ UNCHANGED <<output, declined, shown, checkpoint, saved_answer, approved>>

\* _resolve_decision raises on a decision that names no candidate.
RefuseDecision ==
    /\ proc = "resuming"
    /\ node = "policy_selection_gate"
    /\ answer \notin {c.policy.policy_id : c \in state.candidates} \cup {"decline"}
    /\ Down
    /\ UNCHANGED crashes

\* next_gate_response raises when the script has no response left.
ScriptExhausted ==
    /\ proc = "waiting"
    /\ script = <<>>
    /\ Down
    /\ UNCHANGED crashes

Crash ==
    /\ proc \notin {"down", "done"}
    /\ crashes < MAX_CRASHES
    /\ crashes' = crashes + 1
    /\ Down

\* Another process, a human at its TUI, takes the thread up: a gate that was
\* resumed with a saved answer takes it, any other pending node just runs.
Resume ==
    /\ proc = "down"
    /\ answer' = saved_answer
    /\ proc' = IF saved_answer = None THEN "running" ELSE "resuming"
    /\ UNCHANGED <<vars, shown, script, checkpoint, saved_answer, approved, crashes>>

Idle == proc = "done" /\ UNCHANGED allVars

-----------------------------------------------------------------------------
RunInit ==
    /\ Init
    /\ proc = "running" /\ answer = None /\ shown = None
    /\ script \in Scripts
    /\ checkpoint = Live /\ saved_answer = None
    /\ approved = {} /\ crashes = 0

RunNext ==
    \/ RunNode \/ SaveCheckpoint \/ Interrupt
    \/ \E decision \in Decisions : Respond(decision)
    \/ SelectPolicy \/ WriteNotification \/ ReturnDecision \/ Complete
    \/ RefuseDecision \/ ScriptExhausted \/ Crash \/ Resume \/ Idle

RunSpec == RunInit /\ [][RunNext]_allVars

-----------------------------------------------------------------------------
RunTypeOK ==
    /\ TypeOK
    /\ proc \in {"running", "waiting", "resuming", "wrote", "done", "down"}
    /\ {answer, saved_answer} \subseteq Optional(Decisions)
    /\ script = None \/ script \in Seq(Decisions)
    /\ checkpoint \in [state : TriageState, node : Nodes]
    /\ crashes \in 0..MAX_CRASHES

\* Every file holds a Notification a reviewer was shown and approved, whatever
\* crashed in between and whatever the LLM would draft on another try.
WrittenWasApproved ==
    \A i \in DOMAIN output : \E payload \in approved : payload.notification = output[i]

\* A gate acts on an answer given to exactly what it would show now, and a
\* pause is durable: the checkpoint is at the gate with the same payload
\* (hitl.py: "durably survives a process restart").
AnswerMeetsItsPayload ==
    proc \in {"waiting", "resuming", "wrote"} =>
        /\ node \in HumanGates
        /\ shown = build_payload(state, node)
        /\ checkpoint = Live

\* What a payload says of a claim is what the claim earned: the confidence is
\* the score of that Policy for this claim, and the draft and the judgments
\* beside it are those of the limit and the window of that Policy.
Earned(intake, payload) ==
    LET policy == payload.policy
        draft  == payload.notification
        within == /\ policy # None
                  /\ intake.requested_amount <= policy.coverage_limit
                  /\ intake.incident_date \in policy.coverage_start..policy.coverage_end
    IN  /\ policy # None =>
              payload.confidence = rank_score(policy, search_query(intake)).score
        /\ draft.policy_resolved <=> policy # None
        /\ draft.covered = IF policy = None THEN None ELSE within
        /\ draft.eligible # None <=> within
        /\ draft.sufficient # None <=> within /\ draft.eligible = TRUE
        /\ within => draft.eligible = payload.eligibility_judgment.eligible

\* Whatever crashed, was drafted again or was answered by a script before it,
\* what a reviewer approved is earned by the claim of the thread: no payload
\* mixes the Policy, the judgments and the draft of different attempts
\* (hitl.py:104-121, and the merge of each node into what a checkpoint had).
ApprovedWasEarned == \A payload \in approved : Earned(state.intake, payload)

\* A run whose saved decision is "approve" has written the approved draft,
\* and wrote it once, plus at most once for every crash.
ApprovalIsWritten ==
    /\ checkpoint.state.final_decision = "approve" =>
          output # <<>> /\ output[Len(output)] = checkpoint.state.notification
    /\ Len(output) <= 1 + crashes

\* The thread keeps the promise of ReviewedRelease: once the decision is
\* saved nothing more is written.
Promise ==
    INSTANCE ReviewedRelease WITH
        Drafts <- Notification, Verdicts <- Answers, Open <- None,
        verdict <- checkpoint.state.final_decision,
        draft <- checkpoint.state.notification,
        released <- output

KeepsPromise == Promise!Spec
=============================================================================

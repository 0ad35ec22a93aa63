-------------------------- MODULE TriageRunProofs --------------------------
(***************************************************************************)
(* For every table, claim, script and number of crashes: a thread is well  *)
(* typed, its gates act on answers given to what they show, its files hold *)
(* what a reviewer approved, an approved run has its file, and a thread    *)
(* keeps the promise of ReviewedRelease.                                   *)
(***************************************************************************)
EXTENDS TriageRun, OutcomeProofs

\* The invariant of the graph, of any state and node: a checkpoint has it too,
\* and so has what a process takes up after a crash.
GraphState(s, n) ==
    /\ s \in TriageState /\ n \in Nodes
    /\ s.recall_attempt > 0 => s.recall_query # None
    /\ n \in {"coverage_check", "eligibility_judgment", "sufficiency_assessment"}
          => s.resolved_policy # None
    /\ n = "eligibility_judgment" => s.coverage_check # None
    /\ n = "final_review_gate" => s.notification # None
    /\ n = "recall" => s.recall_attempt < MAX_RECALL_ATTEMPTS
    /\ \A c \in s.candidates :
          c.policy \in Policies /\ c = rank_score(c.policy, search_query(s.intake))

LEMMA TypeInvIsGraphState ==
    TypeInv <=> GraphState(state, node) /\ output \in Seq(Notification) /\ DeclinedTyped
BY DEF TypeInv, GraphState, TypeOK, NodesHaveTheirInputs, AttemptLeft, CandidatesAreScored

\* What the process and its checkpoint hold.
ProcessTyped ==
    /\ proc \in {"running", "waiting", "resuming", "wrote", "done", "down"}
    /\ answer \in Optional(Decisions) /\ saved_answer \in Optional(Decisions)
    /\ script = None \/ script \in Seq(Answers)
    /\ checkpoint \in [state : TriageState, node : Nodes]
    /\ GraphState(checkpoint.state, checkpoint.node)
    /\ crashes \in 0..MAX_CRASHES

\* The decision comes with the end of the thread, which no crash undoes.
Undecided ==
    /\ node # "END" => state.final_decision = None
    /\ checkpoint.node # "END" => checkpoint.state.final_decision = None
    /\ checkpoint.node = "END" \/ proc = "down" => checkpoint = Live

\* Nobody has an answer to a final review but a human or a script, and an
\* approval was given to the payload last shown.
FitsFinalReview(decision) ==
    decision \in Answers /\ (decision = "approve" => shown \in approved)

\* A saved answer is one to the payload of the checkpoint.
SavedAtItsGate ==
    saved_answer # None =>
        /\ checkpoint.node \in HumanGates
        /\ shown = build_payload(checkpoint.state, checkpoint.node)
        /\ checkpoint.node = "final_review_gate" => FitsFinalReview(saved_answer)

AnswerFits ==
    /\ proc \in {"resuming", "wrote"} /\ node = "final_review_gate" => FitsFinalReview(answer)
    /\ proc = "wrote" => node = "final_review_gate" /\ answer = "approve"

RunInv ==
    /\ TypeInv /\ ProcessTyped /\ Undecided
    /\ AnswerMeetsItsPayload /\ SavedAtItsGate /\ AnswerFits

-----------------------------------------------------------------------------
\* A node of the graph neither decides, nor ends the run, nor writes.
LEMMA MachineStepDecidesNothing ==
    ASSUME TypeInv, MachineStep
    PROVE  /\ node \in MachineNodes /\ node' # "END"
           /\ state'.final_decision = state.final_decision
           /\ output' = output
<1> USE DEF TypeInv, TypeOK, MachineNodes
<1>1. CASE recall
  BY <1>1 DEF recall, recalled_state, TriageState
<1>2. CASE rank
  <2> DEFINE candidates == {rank_score(p, search_query(state.intake)) : p \in state.raw_candidates}
             scored     == [state EXCEPT !.candidates = candidates]
  <2>1. PICK policy, confidence : state' = resolve(scored, policy, confidence)
    BY <1>2 DEF rank
  <2>2. state'.final_decision = state.final_decision
    <3> HIDE DEF candidates
    <3> QED BY <2>1 DEF resolve, TriageState
  <2> QED BY <1>2, <2>2 DEF rank, route_after_rank
<1>3. CASE coverage_check
  BY <1>3 DEF coverage_check, TriageState
<1>4. CASE eligibility_judgment
  BY <1>4 DEF eligibility_judgment, TriageState
<1>5. CASE sufficiency_assessment
  BY <1>5 DEF sufficiency_assessment, TriageState
<1>6. CASE draft_notification
  BY <1>6 DEF draft_notification, TriageState
<1> QED
  BY <1>1, <1>2, <1>3, <1>4, <1>5, <1>6 DEF MachineStep

LEMMA RunInvInit == RunInit => RunInv
<1> SUFFICES ASSUME RunInit PROVE RunInv
  OBVIOUS
<1>1. TypeInv
  BY TypeInvInit DEF RunInit
<1>2. GraphState(state, node) /\ checkpoint.state = state /\ checkpoint.node = node
  BY <1>1, TypeInvIsGraphState DEF RunInit, Live
<1>3. checkpoint \in [state : TriageState, node : Nodes]
  BY <1>1 DEF TypeInv, TypeOK, RunInit, Live
<1>4. script = None \/ script \in Seq(Answers)
  BY ScriptsAssumption DEF RunInit
<1>5. ProcessTyped
  BY <1>2, <1>3, <1>4, ScriptsAssumption DEF ProcessTyped, RunInit, Optional
<1>6. Undecided
  BY <1>2 DEF Undecided, RunInit, Init, InitialState
<1> QED
  BY <1>1, <1>5, <1>6 DEF RunInv, RunInit, AnswerMeetsItsPayload, SavedAtItsGate, AnswerFits

-----------------------------------------------------------------------------
LEMMA RunNodeKeeps == RunInv /\ RunNode => RunInv'
<1> SUFFICES ASSUME RunInv, RunNode PROVE RunInv'
  OBVIOUS
<1>1. MachineStep /\ UNCHANGED runVars /\ TypeInv
  BY DEF RunNode, RunInv
<1>2. /\ node \in MachineNodes /\ node' # "END"
      /\ state'.final_decision = state.final_decision
  BY <1>1, MachineStepDecidesNothing
<1>3. proc = "running" /\ proc' = "running"
  BY <1>1, <1>2 DEF RunNode, RunInv, AnswerMeetsItsPayload, HumanGates, MachineNodes, runVars
<1>4. TypeInv'
  BY <1>1, TypeInvNext DEF Next
<1>5. ProcessTyped' /\ SavedAtItsGate'
  BY <1>1 DEF RunInv, ProcessTyped, SavedAtItsGate, FitsFinalReview, runVars
<1>6. Undecided'
  <2>1. node # "END"
    BY <1>2 DEF MachineNodes
  <2>2. checkpoint.node # "END"
    BY <2>1 DEF RunInv, Undecided, Live
  <2> QED
    BY <1>1, <1>2, <1>3, <2>1, <2>2 DEF RunInv, Undecided, runVars
<1> QED
  BY <1>3, <1>4, <1>5, <1>6 DEF RunInv, AnswerMeetsItsPayload, AnswerFits

LEMMA SaveCheckpointKeeps == RunInv /\ SaveCheckpoint => RunInv'
<1> SUFFICES ASSUME RunInv, SaveCheckpoint PROVE RunInv'
  OBVIOUS
<1>1. /\ UNCHANGED <<vars, proc, answer, shown, script, approved, crashes>>
      /\ checkpoint' = Live /\ saved_answer' = None /\ proc # "down"
  BY DEF SaveCheckpoint
<1>2. TypeInv /\ TypeInv'
  BY <1>1, TypeInvNext DEF RunInv
<1>3. /\ checkpoint'.state = state /\ checkpoint'.node = node
      /\ checkpoint' \in [state : TriageState, node : Nodes]
  BY <1>1, <1>2 DEF Live, TypeInv, TypeOK
<1>4. ProcessTyped'
  BY <1>1, <1>2, <1>3, TypeInvIsGraphState DEF RunInv, ProcessTyped, Optional, GraphState
<1>5. Live' = Live
  BY <1>1 DEF Live, vars
<1>6. Undecided' /\ AnswerMeetsItsPayload' /\ SavedAtItsGate' /\ AnswerFits'
  BY <1>1, <1>3, <1>5
     DEF RunInv, Undecided, AnswerMeetsItsPayload, SavedAtItsGate, AnswerFits, FitsFinalReview, vars
<1> QED BY <1>2, <1>4, <1>6 DEF RunInv

LEMMA InterruptKeeps == RunInv /\ Interrupt => RunInv'
<1> SUFFICES ASSUME RunInv, Interrupt PROVE RunInv'
  OBVIOUS
<1>1. /\ UNCHANGED <<vars, answer, script, approved, crashes>>
      /\ checkpoint' = Live /\ saved_answer' = None /\ proc' = "waiting"
      /\ shown' = build_payload(state, node) /\ node \in HumanGates
  BY DEF Interrupt
<1>2. TypeInv /\ TypeInv'
  BY <1>1, TypeInvNext DEF RunInv
<1>3. /\ checkpoint'.state = state /\ checkpoint'.node = node
      /\ checkpoint' \in [state : TriageState, node : Nodes]
  BY <1>1, <1>2 DEF Live, TypeInv, TypeOK
<1>4. ProcessTyped'
  BY <1>1, <1>2, <1>3, TypeInvIsGraphState DEF RunInv, ProcessTyped, Optional, GraphState
<1>5. Live' = Live /\ state' = state /\ node' = node
  BY <1>1 DEF Live, vars
<1>6. build_payload(state, node)' = build_payload(state, node)
  BY <1>5 DEF build_payload
<1>7. AnswerMeetsItsPayload'
  BY <1>1, <1>5, <1>6 DEF AnswerMeetsItsPayload
<1>8. Undecided' /\ SavedAtItsGate' /\ AnswerFits'
  BY <1>1, <1>3, <1>5 DEF RunInv, Undecided, SavedAtItsGate, AnswerFits
<1> QED BY <1>2, <1>4, <1>7, <1>8 DEF RunInv

\* A script hands out one of its answers, a human one of those the gate offers.
LEMMA RespondKeeps ==
    ASSUME RunInv, NEW decision \in Decisions, Respond(decision)
    PROVE  RunInv'
<1>1. /\ UNCHANGED <<output, declined, shown, checkpoint, crashes>>
      /\ proc = "waiting" /\ proc' = "resuming" /\ answer' = decision
      /\ saved_answer' \in {None, decision}
      /\ state' = checkpoint.state /\ node' = checkpoint.node
  BY DEF Respond
<1>2. /\ node \in HumanGates /\ shown = build_payload(state, node) /\ checkpoint = Live
  BY <1>1 DEF RunInv, AnswerMeetsItsPayload
<1>3. state' = state /\ node' = node /\ Live' = Live /\ UNCHANGED vars
  BY <1>1, <1>2 DEF Live, vars
<1>4. TypeInv /\ TypeInv'
  BY <1>3, TypeInvNext DEF RunInv
<1>5. script' = None \/ script' \in Seq(Answers)
  <2>1. CASE script = None /\ UNCHANGED script
    BY <2>1
  <2>2. CASE script \notin {None, <<>>} /\ decision = Head(script) /\ script' = Tail(script)
    BY <2>2 DEF RunInv, ProcessTyped
  <2> QED BY <2>1, <2>2 DEF Respond
<1>6. ProcessTyped'
  BY <1>1, <1>5 DEF RunInv, ProcessTyped, Optional
<1>7. node = "final_review_gate" => FitsFinalReview(decision)'
  <2> SUFFICES ASSUME node = "final_review_gate" PROVE FitsFinalReview(decision)'
    OBVIOUS
  <2>1. shown.gate = "final_review"
    BY <1>2 DEF build_payload
  <2>2. decision \in Answers
    <3>1. CASE script = None /\ decision \in tui_answers
      BY <2>1, <3>1, ScriptsAssumption DEF tui_answers, prompt_policy_selection, prompt_approval
    <3>2. CASE script \notin {None, <<>>} /\ decision = Head(script)
      BY <3>2 DEF RunInv, ProcessTyped
    <3> QED BY <3>1, <3>2 DEF Respond
  <2>3. decision = "approve" => shown' \in approved'
    BY <1>1, <2>1 DEF Respond
  <2> QED BY <2>2, <2>3 DEF FitsFinalReview
<1>8. AnswerMeetsItsPayload'
  BY <1>1, <1>2, <1>3 DEF AnswerMeetsItsPayload, build_payload
<1>9. Undecided'
  BY <1>1, <1>2, <1>3 DEF RunInv, Undecided
<1>10. checkpoint'.node = node /\ checkpoint'.state = state
  BY <1>1, <1>2 DEF Live
<1>11. SavedAtItsGate'
  BY <1>1, <1>2, <1>7, <1>10 DEF SavedAtItsGate, FitsFinalReview, build_payload
<1>12. AnswerFits'
  BY <1>1, <1>3, <1>7 DEF AnswerFits, FitsFinalReview
<1> QED BY <1>4, <1>6, <1>8, <1>9, <1>11, <1>12 DEF RunInv

LEMMA SelectPolicyKeeps == RunInv /\ SelectPolicy => RunInv'
<1> SUFFICES ASSUME RunInv, SelectPolicy PROVE RunInv'
  OBVIOUS
<1>1. /\ UNCHANGED <<shown, script, checkpoint, saved_answer, approved, crashes>>
      /\ proc' = "running" /\ answer' = None
      /\ policy_selection_gate(answer) /\ node = "policy_selection_gate"
  BY DEF SelectPolicy, policy_selection_gate
<1>2. state \in TriageState /\ TypeInv
  BY DEF RunInv, TypeInv, TypeOK
<1>3. answer \in PolicyIds \cup {"decline"}
  <2>1. ASSUME NEW c \in state.candidates, c.policy.policy_id = answer
        PROVE  answer \in PolicyIds
    BY <1>2, <2>1, PoliciesAssumption DEF TypeInv, CandidatesAreScored, Policy
  <2> QED BY <1>1, <2>1 DEF policy_selection_gate
<1>4. TypeInv'
  BY <1>1, <1>2, <1>3, TypeInvNext DEF Next, HumanStep
<1>5. /\ state'.final_decision = state.final_decision /\ node' # "END"
  BY <1>1, <1>2 DEF policy_selection_gate, resolve, TriageState
<1>6. ProcessTyped' /\ SavedAtItsGate'
  BY <1>1 DEF RunInv, ProcessTyped, SavedAtItsGate, FitsFinalReview, Optional
<1>7. node # "END" /\ checkpoint.node # "END"
  BY <1>1 DEF RunInv, Undecided, Live
<1>8. Undecided'
  BY <1>1, <1>5, <1>7 DEF RunInv, Undecided
<1> QED
  BY <1>1, <1>4, <1>6, <1>8 DEF RunInv, AnswerMeetsItsPayload, AnswerFits

LEMMA WriteNotificationKeeps == RunInv /\ WriteNotification => RunInv'
<1> SUFFICES ASSUME RunInv, WriteNotification PROVE RunInv'
  OBVIOUS
<1>1. /\ UNCHANGED <<state, node, declined, answer, shown, script, checkpoint, saved_answer, approved,
                     crashes>>
      /\ output' = Append(output, state.notification)
      /\ proc = "resuming" /\ node = "final_review_gate" /\ answer = "approve" /\ proc' = "wrote"
  BY DEF WriteNotification
<1>2. state.notification \in Notification /\ output \in Seq(Notification)
  BY <1>1 DEF RunInv, TypeInv, TypeOK, NodesHaveTheirInputs, TriageState, Optional
<1>3. TypeInv'
  <2>1. output' \in Seq(Notification) /\ DeclinedTyped'
    BY <1>1, <1>2 DEF RunInv, TypeInv, TypeOK, DeclinedTyped
  <2>2. GraphState(state, node)'
    BY <1>1, TypeInvIsGraphState DEF RunInv, GraphState
  <2> QED BY <2>1, <2>2, TypeInvIsGraphState
     DEF TypeInv, GraphState, TypeOK, NodesHaveTheirInputs, AttemptLeft, CandidatesAreScored
<1>4. Live' = Live
  BY <1>1 DEF Live
<1>5. ProcessTyped'
  BY <1>1 DEF RunInv, ProcessTyped
<1>6. Undecided' /\ AnswerMeetsItsPayload' /\ SavedAtItsGate' /\ AnswerFits'
  BY <1>1, <1>4 DEF RunInv, Undecided, AnswerMeetsItsPayload, SavedAtItsGate, AnswerFits,
     FitsFinalReview, build_payload
<1> QED BY <1>3, <1>5, <1>6 DEF RunInv

LEMMA ReturnDecisionKeeps == RunInv /\ ReturnDecision => RunInv'
<1> SUFFICES ASSUME RunInv, ReturnDecision PROVE RunInv'
  OBVIOUS
<1>1. /\ UNCHANGED <<output, declined, shown, script, checkpoint, saved_answer, approved, crashes>>
      /\ node = "final_review_gate" /\ node' = "END"
      /\ state' = [state EXCEPT !.final_decision = answer]
      /\ proc \in {"resuming", "wrote"} /\ proc' = "running" /\ answer' = None
  BY DEF ReturnDecision
<1>2. answer \in Answers
  BY <1>1 DEF RunInv, AnswerFits, FitsFinalReview
<1>3. TypeInv'
  <2>1. state' \in TriageState /\ node' \in Nodes /\ output' \in Seq(Notification)
    BY <1>1, <1>2 DEF RunInv, TypeInv, TypeOK, TriageState, Optional, Nodes
  <2>2. NodesHaveTheirInputs' /\ AttemptLeft' /\ CandidatesAreScored'
    BY <1>1 DEF RunInv, TypeInv, TypeOK, TriageState, NodesHaveTheirInputs, AttemptLeft,
       CandidatesAreScored
  <2>3. DeclinedTyped'
    BY <1>1 DEF RunInv, TypeInv, TypeOK, DeclinedTyped
  <2> QED BY <2>1, <2>2, <2>3 DEF TypeInv, TypeOK
<1>4. ProcessTyped' /\ SavedAtItsGate'
  BY <1>1 DEF RunInv, ProcessTyped, SavedAtItsGate, FitsFinalReview, Optional
<1>5. checkpoint.node # "END"
  BY <1>1 DEF RunInv, Undecided, Live
<1>6. Undecided'
  BY <1>1, <1>5 DEF RunInv, Undecided
<1> QED
  BY <1>1, <1>3, <1>4, <1>6 DEF RunInv, AnswerMeetsItsPayload, AnswerFits

LEMMA CompleteKeeps == RunInv /\ Complete => RunInv'
<1> SUFFICES ASSUME RunInv, Complete PROVE RunInv'
  OBVIOUS
<1>1. /\ UNCHANGED <<vars, answer, shown, script, approved, crashes>>
      /\ checkpoint' = Live /\ saved_answer' = None /\ proc' = "done" /\ node = "END"
  BY DEF Complete
<1>2. TypeInv /\ TypeInv'
  BY <1>1, TypeInvNext DEF RunInv
<1>3. /\ checkpoint'.state = state /\ checkpoint'.node = node
      /\ checkpoint' \in [state : TriageState, node : Nodes]
  BY <1>1, <1>2 DEF Live, TypeInv, TypeOK
<1>4. ProcessTyped'
  BY <1>1, <1>2, <1>3, TypeInvIsGraphState DEF RunInv, ProcessTyped, Optional, GraphState
<1>5. Live' = Live
  BY <1>1 DEF Live, vars
<1> QED
  BY <1>1, <1>2, <1>3, <1>4, <1>5
     DEF RunInv, Undecided, AnswerMeetsItsPayload, SavedAtItsGate, AnswerFits, vars

\* The end of a process, whatever ended it.
LEMMA DownKeeps ==
    ASSUME RunInv, Down, crashes' \in 0..MAX_CRASHES
    PROVE  RunInv'
<1>1. /\ UNCHANGED <<output, declined, shown, checkpoint, saved_answer, approved>>
      /\ proc' = "down" /\ answer' = None /\ script' = None
      /\ state' = checkpoint.state /\ node' = checkpoint.node
  BY DEF Down
<1>2. GraphState(checkpoint.state, checkpoint.node)
  BY DEF RunInv, ProcessTyped
<1>3. checkpoint = Live'
  BY <1>1 DEF RunInv, ProcessTyped, Live
<1>d. DeclinedTyped'
  BY <1>1 DEF RunInv, TypeInv, TypeOK, DeclinedTyped
<1>4. TypeInv'
  BY <1>1, <1>2, <1>d DEF RunInv, TypeInv, GraphState, TypeOK, NodesHaveTheirInputs, AttemptLeft,
     CandidatesAreScored
<1>5. ProcessTyped'
  BY <1>1 DEF RunInv, ProcessTyped, Optional
<1>6. Undecided' /\ SavedAtItsGate'
  BY <1>1, <1>3 DEF RunInv, Undecided, SavedAtItsGate, FitsFinalReview
<1> QED
  BY <1>1, <1>4, <1>5, <1>6 DEF RunInv, AnswerMeetsItsPayload, AnswerFits

LEMMA ResumeKeeps == RunInv /\ Resume => RunInv'
<1> SUFFICES ASSUME RunInv, Resume PROVE RunInv'
  OBVIOUS
<1>1. /\ UNCHANGED <<vars, shown, script, checkpoint, saved_answer, approved, crashes>>
      /\ proc = "down" /\ answer' = saved_answer
      /\ proc' = IF saved_answer = None THEN "running" ELSE "resuming"
  BY DEF Resume
<1>2. checkpoint = Live /\ Live' = Live /\ state' = state /\ node' = node
  BY <1>1 DEF RunInv, Undecided, Live, vars
<1>3. checkpoint.state = state /\ checkpoint.node = node
  BY <1>2 DEF Live
<1>4. TypeInv'
  BY <1>1, TypeInvNext DEF RunInv
<1>5. ProcessTyped' /\ Undecided'
  BY <1>1, <1>2 DEF RunInv, ProcessTyped, Undecided
<1>6. SavedAtItsGate' /\ AnswerMeetsItsPayload' /\ AnswerFits'
  BY <1>1, <1>2, <1>3 DEF RunInv, SavedAtItsGate, AnswerMeetsItsPayload, AnswerFits,
     FitsFinalReview, build_payload
<1> QED BY <1>4, <1>5, <1>6 DEF RunInv

LEMMA RunInvNext == RunInv /\ [RunNext]_allVars => RunInv'
<1> SUFFICES ASSUME RunInv, [RunNext]_allVars PROVE RunInv'
  OBVIOUS
<1>1. crashes \in 0..MAX_CRASHES /\ MAX_CRASHES \in Nat
  BY ScriptsAssumption DEF RunInv, ProcessTyped
<1>2. CASE RefuseDecision \/ ScriptExhausted
  BY <1>1, <1>2, DownKeeps DEF RefuseDecision, ScriptExhausted
<1>3. CASE Crash
  BY <1>1, <1>3, DownKeeps DEF Crash
<1>4. CASE Idle \/ UNCHANGED allVars
  BY <1>4, TypeInvNext
     DEF Idle, allVars, vars, runVars, RunInv, TypeInv, TypeOK, NodesHaveTheirInputs, AttemptLeft,
         CandidatesAreScored, ProcessTyped, Undecided, Live, AnswerMeetsItsPayload,
         SavedAtItsGate, AnswerFits, FitsFinalReview, build_payload
<1>5. ASSUME NEW decision \in Decisions, Respond(decision) PROVE RunInv'
  BY <1>5, RespondKeeps
<1> QED
  BY <1>2, <1>3, <1>4, <1>5, RunNodeKeeps, SaveCheckpointKeeps, InterruptKeeps,
     SelectPolicyKeeps, WriteNotificationKeeps, ReturnDecisionKeeps, CompleteKeeps, ResumeKeeps
     DEF RunNext

LEMMA RunInvariant == RunSpec => []RunInv
BY RunInvInit, RunInvNext, PTL DEF RunSpec

\* Whatever a crash loses, what a thread and its checkpoint hold is well typed.
THEOREM RunTyping == RunSpec => []RunTypeOK
<1>1. RunInv => RunTypeOK
  BY DEF RunInv, TypeInv, ProcessTyped, RunTypeOK, Decisions
<1> QED BY <1>1, RunInvariant, PTL

\* An answer reaches the gate that would show now exactly what was shown to
\* whoever gave it, across crashes and resumes.
THEOREM AnswersMeetPayloads == RunSpec => []AnswerMeetsItsPayload
<1>1. RunInv => AnswerMeetsItsPayload
  BY DEF RunInv
<1> QED BY <1>1, RunInvariant, PTL

-----------------------------------------------------------------------------
(***************************************************************************)
(* The files: what an approval leaves behind, and the refinement.          *)
(***************************************************************************)
LastWritten(notification) == output # <<>> /\ output[Len(output)] = notification

\* What an approval leaves behind, from the file to the saved checkpoint.
ApprovalLeavesItsFile ==
    /\ proc = "wrote" => LastWritten(state.notification)
    /\ state.final_decision = "approve" => LastWritten(state.notification)
    /\ checkpoint.state.final_decision = "approve" => LastWritten(checkpoint.state.notification)

\* Past the gate there may be one file more than crashes.
Unsaved == IF proc = "wrote" \/ node = "END" THEN 1 ELSE 0

FilesAreCounted == Len(output) <= crashes + Unsaved

\* The checkpoint a decision is saved over has the draft it was made on.
DraftOfTheDecision == node = "END" => checkpoint.state.notification = state.notification

ReleaseInv ==
    /\ WrittenWasApproved /\ ApprovalLeavesItsFile /\ FilesAreCounted /\ DraftOfTheDecision

LEMMA ReleaseInvInit == RunInit => ReleaseInv
BY ScriptsAssumption, AnswersAssumption
   DEF RunInit, Init, InitialState, Live, ReleaseInv, WrittenWasApproved, ApprovalLeavesItsFile,
       FilesAreCounted, Unsaved, DraftOfTheDecision, LastWritten

\* A step that keeps the files, forgets no approval and carries on from what
\* is live or saved needs only its count and its draft looked at.
LEMMA NoFileWritten ==
    ASSUME RunInv, ReleaseInv, output' = output, approved \subseteq approved',
           proc' = "wrote" => proc = "wrote" /\ UNCHANGED state,
           state' \in {state, checkpoint.state} \/ state'.final_decision # "approve",
           checkpoint' \in {checkpoint, Live}
    PROVE  WrittenWasApproved' /\ ApprovalLeavesItsFile'
<1>1. WrittenWasApproved'
  BY DEF ReleaseInv, WrittenWasApproved
<1>2. checkpoint'.state \in {checkpoint.state, state}
  BY DEF Live
<1>3. \A n : LastWritten(n) => LastWritten(n)'
  BY DEF LastWritten
<1>4. ApprovalLeavesItsFile'
  BY <1>2 DEF ReleaseInv, ApprovalLeavesItsFile, LastWritten
<1> QED BY <1>1, <1>4

-----------------------------------------------------------------------------
LEMMA RunNodeReleases == RunInv /\ ReleaseInv /\ RunNode => ReleaseInv'
<1> SUFFICES ASSUME RunInv, ReleaseInv, RunNode PROVE ReleaseInv'
  OBVIOUS
<1>1. /\ MachineStep /\ UNCHANGED runVars /\ TypeInv
      /\ node \in MachineNodes /\ node' # "END" /\ output' = output
      /\ state'.final_decision = state.final_decision
  BY MachineStepDecidesNothing DEF RunNode, RunInv
<1>2. node # "END" /\ proc # "wrote" /\ state.final_decision # "approve"
  BY <1>1, AnswersAssumption, ScriptsAssumption
     DEF RunInv, AnswerFits, Undecided, MachineNodes
<1>3. WrittenWasApproved' /\ ApprovalLeavesItsFile'
  BY <1>1, <1>2, NoFileWritten DEF runVars
<1> QED
  BY <1>1, <1>2, <1>3 DEF ReleaseInv, FilesAreCounted, Unsaved, DraftOfTheDecision, runVars

LEMMA SaveReleases ==
    ASSUME RunInv, ReleaseInv, SaveCheckpoint \/ Interrupt \/ Complete
    PROVE  ReleaseInv'
<1>1. /\ UNCHANGED <<vars, approved, crashes>> /\ checkpoint' = Live
      /\ proc' \in {proc, "waiting", "done"} /\ (proc = "wrote" => proc' = "wrote")
  BY DEF SaveCheckpoint, Interrupt, Complete
<1>2. UNCHANGED <<state, node, output>>
  BY <1>1 DEF vars
<1>3. WrittenWasApproved' /\ ApprovalLeavesItsFile'
  BY <1>1, <1>2, NoFileWritten
<1>4. checkpoint'.state = state
  BY <1>1 DEF Live
<1> QED
  BY <1>1, <1>2, <1>3, <1>4 DEF ReleaseInv, FilesAreCounted, Unsaved, DraftOfTheDecision

LEMMA RespondReleases ==
    ASSUME RunInv, ReleaseInv, NEW decision \in Decisions, Respond(decision)
    PROVE  ReleaseInv'
<1>1. /\ UNCHANGED <<output, checkpoint, crashes>> /\ approved \subseteq approved'
      /\ proc = "waiting" /\ proc' = "resuming"
      /\ state' = checkpoint.state /\ node' = checkpoint.node
  BY DEF Respond
<1>2. node \in HumanGates /\ node' = node
  BY <1>1 DEF RunInv, AnswerMeetsItsPayload, Live
<1>3. WrittenWasApproved' /\ ApprovalLeavesItsFile'
  BY <1>1, NoFileWritten
<1> QED
  BY <1>1, <1>2, <1>3
     DEF ReleaseInv, FilesAreCounted, Unsaved, DraftOfTheDecision, HumanGates

LEMMA SelectPolicyReleases == RunInv /\ ReleaseInv /\ SelectPolicy => ReleaseInv'
<1> SUFFICES ASSUME RunInv, ReleaseInv, SelectPolicy PROVE ReleaseInv'
  OBVIOUS
<1>1. /\ UNCHANGED <<output, checkpoint, approved, crashes>>
      /\ proc = "resuming" /\ proc' = "running"
      /\ policy_selection_gate(answer) /\ node = "policy_selection_gate"
  BY DEF SelectPolicy, policy_selection_gate
<1>2. /\ state'.final_decision = state.final_decision /\ node' # "END"
      /\ state.final_decision # "approve"
  <2>1. state \in TriageState
    BY DEF RunInv, TypeInv, TypeOK
  <2>2. PICK policy, confidence : state' = resolve(state, policy, confidence)
    BY <1>1 DEF policy_selection_gate
  <2>3. state'.final_decision = state.final_decision
    BY <2>1, <2>2 DEF resolve, TriageState
  <2>4. node' # "END"
    BY <1>1 DEF policy_selection_gate
  <2>5. state.final_decision = None
    BY <1>1 DEF RunInv, Undecided
  <2>6. None # "approve"
    BY AnswersAssumption, ScriptsAssumption
  <2> QED BY <2>3, <2>4, <2>5, <2>6
<1>3. WrittenWasApproved' /\ ApprovalLeavesItsFile'
  BY <1>1, <1>2, NoFileWritten
<1> QED
  BY <1>1, <1>2, <1>3 DEF ReleaseInv, FilesAreCounted, Unsaved, DraftOfTheDecision

\* The file holds the draft of the payload that was approved.
LEMMA WriteNotificationReleases == RunInv /\ ReleaseInv /\ WriteNotification => ReleaseInv'
<1> SUFFICES ASSUME RunInv, ReleaseInv, WriteNotification PROVE ReleaseInv'
  OBVIOUS
<1>1. /\ UNCHANGED <<state, node, checkpoint, approved, crashes>>
      /\ output' = Append(output, state.notification)
      /\ proc = "resuming" /\ node = "final_review_gate" /\ answer = "approve" /\ proc' = "wrote"
  BY DEF WriteNotification
<1>2. /\ checkpoint = Live /\ shown = build_payload(state, node) /\ shown \in approved
      /\ state.final_decision = None /\ output \in Seq(Notification)
      /\ crashes \in Nat
  BY <1>1, ScriptsAssumption
     DEF RunInv, AnswerMeetsItsPayload, AnswerFits, FitsFinalReview, Undecided, TypeInv, TypeOK,
         ProcessTyped
<1>3. shown.notification = state.notification
  BY <1>1, <1>2 DEF build_payload
<1>4. /\ Len(output') = Len(output) + 1 /\ output' # <<>>
      /\ output'[Len(output')] = state.notification
      /\ \A i \in DOMAIN output' : i \in DOMAIN output \/ i = Len(output')
      /\ \A i \in DOMAIN output : output'[i] = output[i]
  BY <1>1, <1>2
<1>5. WrittenWasApproved'
  BY <1>1, <1>2, <1>3, <1>4 DEF ReleaseInv, WrittenWasApproved
<1>6. ApprovalLeavesItsFile'
  BY <1>1, <1>2, <1>4, AnswersAssumption, ScriptsAssumption
     DEF ApprovalLeavesItsFile, LastWritten, Live
<1>7. FilesAreCounted' /\ DraftOfTheDecision'
  BY <1>1, <1>2, <1>4 DEF ReleaseInv, FilesAreCounted, Unsaved, DraftOfTheDecision
<1> QED BY <1>5, <1>6, <1>7 DEF ReleaseInv

LEMMA ReturnDecisionReleases == RunInv /\ ReleaseInv /\ ReturnDecision => ReleaseInv'
<1> SUFFICES ASSUME RunInv, ReleaseInv, ReturnDecision PROVE ReleaseInv'
  OBVIOUS
<1>1. /\ UNCHANGED <<output, checkpoint, approved, crashes>>
      /\ node = "final_review_gate" /\ node' = "END"
      /\ state' = [state EXCEPT !.final_decision = answer]
      /\ proc = "wrote" \/ (proc = "resuming" /\ answer # "approve")
  BY DEF ReturnDecision
<1>2. proc' = "running"
  BY DEF ReturnDecision
<1>3. state \in TriageState /\ checkpoint = Live
  BY <1>1 DEF RunInv, TypeInv, TypeOK, AnswerMeetsItsPayload
<1>4. /\ state'.notification = state.notification /\ state'.final_decision = answer
      /\ checkpoint.state = state
  BY <1>1, <1>3 DEF TriageState, Live
<1>5. WrittenWasApproved'
  BY <1>1 DEF ReleaseInv, WrittenWasApproved
<1>6. ApprovalLeavesItsFile'
  BY <1>1, <1>2, <1>4 DEF ReleaseInv, ApprovalLeavesItsFile, LastWritten
<1>7. FilesAreCounted' /\ DraftOfTheDecision'
  BY <1>1, <1>2, <1>4, ScriptsAssumption
     DEF ReleaseInv, FilesAreCounted, Unsaved, DraftOfTheDecision, RunInv, ProcessTyped,
         TypeInv, TypeOK
<1> QED BY <1>5, <1>6, <1>7 DEF ReleaseInv

\* A process that dies with a file unsaved has its crash to account for it.
LEMMA DownReleases ==
    ASSUME RunInv, ReleaseInv, Down,
           \/ crashes' = crashes + 1
           \/ crashes' = crashes /\ proc # "wrote" /\ node # "END"
    PROVE  ReleaseInv'
<1>1. /\ UNCHANGED <<output, checkpoint, approved>>
      /\ proc' = "down" /\ state' = checkpoint.state /\ node' = checkpoint.node
  BY DEF Down
<1>2. WrittenWasApproved' /\ ApprovalLeavesItsFile'
  BY <1>1, NoFileWritten
<1>3. FilesAreCounted'
  BY <1>1, ScriptsAssumption
     DEF ReleaseInv, FilesAreCounted, Unsaved, RunInv, ProcessTyped, TypeInv, TypeOK
<1>4. DraftOfTheDecision'
  BY <1>1 DEF DraftOfTheDecision
<1> QED BY <1>2, <1>3, <1>4 DEF ReleaseInv

LEMMA ResumeReleases == RunInv /\ ReleaseInv /\ Resume => ReleaseInv'
<1> SUFFICES ASSUME RunInv, ReleaseInv, Resume PROVE ReleaseInv'
  OBVIOUS
<1>1. /\ UNCHANGED <<state, node, output, checkpoint, approved, crashes>>
      /\ proc = "down" /\ proc' # "wrote"
  BY DEF Resume, vars
<1>2. WrittenWasApproved' /\ ApprovalLeavesItsFile'
  BY <1>1, NoFileWritten
<1> QED
  BY <1>1, <1>2 DEF ReleaseInv, FilesAreCounted, Unsaved, DraftOfTheDecision

LEMMA ReleaseInvNext == RunInv /\ ReleaseInv /\ [RunNext]_allVars => ReleaseInv'
<1> SUFFICES ASSUME RunInv, ReleaseInv, [RunNext]_allVars PROVE ReleaseInv'
  OBVIOUS
<1>1. CASE RefuseDecision \/ ScriptExhausted
  <2>1. proc # "wrote" /\ node # "END" /\ Down /\ crashes' = crashes
    BY <1>1 DEF RefuseDecision, ScriptExhausted, RunInv, AnswerMeetsItsPayload, HumanGates
  <2> QED BY <2>1, DownReleases
<1>2. CASE Crash
  BY <1>2, DownReleases DEF Crash
<1>3. CASE Idle \/ UNCHANGED allVars
  BY <1>3
     DEF Idle, allVars, vars, runVars, ReleaseInv, WrittenWasApproved, ApprovalLeavesItsFile,
         FilesAreCounted, Unsaved, DraftOfTheDecision, LastWritten
<1>4. ASSUME NEW decision \in Decisions, Respond(decision) PROVE ReleaseInv'
  BY <1>4, RespondReleases
<1> QED
  BY <1>1, <1>2, <1>3, <1>4, RunNodeReleases, SaveReleases, SelectPolicyReleases,
     WriteNotificationReleases, ReturnDecisionReleases, ResumeReleases
     DEF RunNext

LEMMA ReleaseInvariant == RunSpec => [](RunInv /\ ReleaseInv)
BY RunInvInit, RunInvNext, ReleaseInvInit, ReleaseInvNext, PTL DEF RunSpec

-----------------------------------------------------------------------------
\* Every file holds a draft some reviewer was shown and approved.
THEOREM FilesWereApproved == RunSpec => []WrittenWasApproved
<1>1. ReleaseInv => WrittenWasApproved
  BY DEF ReleaseInv
<1> QED BY <1>1, ReleaseInvariant, PTL

\* An approved run has its file, and at most one for every crash besides.
THEOREM ApprovalsHaveFiles == RunSpec => []ApprovalIsWritten
<1>1. RunInv /\ ReleaseInv => ApprovalIsWritten
  BY ScriptsAssumption
     DEF RunInv, ProcessTyped, TypeInv, TypeOK, ReleaseInv, ApprovalLeavesItsFile, LastWritten,
         FilesAreCounted, Unsaved, ApprovalIsWritten
<1> QED BY <1>1, ReleaseInvariant, PTL

-----------------------------------------------------------------------------
(***************************************************************************)
(* What a claim comes to, across crashes.  What is proved of the graph     *)
(* holds of a thread only if it holds of its checkpoint: that is where a   *)
(* process takes it up.                                                    *)
(***************************************************************************)
\* ResolutionInv, of any state and node.
ResolvedState(s, n, shown_and_declined) ==
    /\ n = "policy_selection_gate" =>
          /\ s.resolved_policy = None
          /\ auto_resolve(s.candidates) = {}
          /\ Several(s.candidates)
          /\ above_threshold(s.candidates) = {} => s.recall_attempt = MAX_RECALL_ATTEMPTS
    /\ s.resolved_policy # None =>
          \E c \in s.candidates :
             /\ c.policy = s.resolved_policy
             /\ c.score = s.policy_resolution_confidence
             /\ c = rank_score(c.policy, search_query(s.intake))
             /\ \/ auto_resolve(s.candidates) = {c}
                \/ auto_resolve(s.candidates) = {} /\ Several(s.candidates)
    /\ n \in {"notification", "final_review_gate", "END"} /\ s.resolved_policy = None =>
          /\ auto_resolve(s.candidates) = {}
          /\ \/ s.recall_attempt = MAX_RECALL_ATTEMPTS
             \/ Several(above_threshold(s.candidates))
          /\ Several(s.candidates) => s.candidates \in shown_and_declined

\* JudgmentInv, of any state and node.
JudgedState(s, n) ==
    LET is_covered  == s.coverage_check # None /\ covered(s.coverage_check)
        is_eligible == s.eligibility_judgment # None /\ s.eligibility_judgment.eligible
    IN  /\ s.recall_attempt = 0 => s.recall_query = None
        /\ n \in BeforeCoverage => s.coverage_check = None
        /\ n \in BeforeEligibility => s.eligibility_judgment = None
        /\ n \in BeforeDocs => s.sufficiency_assessment = None
        /\ n \in BeforeDraft => s.notification = None
        /\ s.coverage_check # None =>
              /\ s.resolved_policy # None
              /\ s.coverage_check = check_coverage(s.intake, s.resolved_policy)
        /\ n \notin BeforeCoverage /\ s.resolved_policy # None => s.coverage_check # None
        /\ n = "eligibility_judgment" => is_covered
        /\ n = "sufficiency_assessment" => is_covered /\ is_eligible
        /\ n \in {"notification", "final_review_gate", "END"} =>
              /\ s.eligibility_judgment # None <=> is_covered
              /\ s.sufficiency_assessment # None <=> is_covered /\ is_eligible

\* The draft at the Final Review Gate is one of the state it is shown with.
DraftedState(s, n) ==
    n \in {"final_review_gate", "END"} =>
        \E wording \in Wordings : s.notification = drafted_from(s, wording)

\* NamedInv, of any state and node.
NamedState(s, n) ==
    \A p \in Policies :
        /\ s.intake.policy_id = p.policy_id
        /\ name_exact(p, search_query(s.intake))
        /\ s.recall_query # None =>
              s.recall_query.policy_id = p.policy_id /\ s.recall_query.holder_name # None
        /\ TOP_N > 0
        => /\ n = "rank" => \/ p \in s.raw_candidates
                            \/ /\ s.raw_candidates = {}
                               /\ s.recall_attempt < MAX_RECALL_ATTEMPTS
           /\ n \notin {"recall", "rank"} =>
                 /\ n # "policy_selection_gate"
                 /\ s.resolved_policy = p
                 /\ s.policy_resolution_confidence = PERFECT_SCORE

OutcomeState(s, n, d) ==
    ResolvedState(s, n, d) /\ JudgedState(s, n) /\ DraftedState(s, n) /\ NamedState(s, n)

\* What was declined once was declined, whatever is declined later.
LEMMA OutcomeOutlivesDeclining ==
    ASSUME NEW s, NEW n, NEW d, NEW e, OutcomeState(s, n, d), d \subseteq e
    PROVE  OutcomeState(s, n, e)
BY DEF OutcomeState, ResolvedState

LEMMA ResolutionInvIsResolvedState ==
    ResolutionInv <=> TypeInv /\ ResolvedState(state, node, declined)
BY DEF ResolutionInv, SelectionInv, ResolutionIsJustified, GivesUpOnlyWhenExhausted,
   ResolvedState

LEMMA JudgmentInvIsJudgedState ==
    JudgmentInv <=> TypeInv /\ JudgedState(state, node)
BY Zenon DEF JudgmentInv, NothingAhead, CheckedAgainstPolicy, JudgedInOrder, IsCovered, IsEligible,
   JudgedState

LEMMA NamedInvIsNamedState ==
    NamedInv <=> TypeInv /\ NamedState(state, node)
BY Zenon DEF NamedInv, NamesItsPolicy, OnTheWay, NamedState

ThreadInv ==
    /\ OutcomeState(state, node, declined)
    /\ OutcomeState(checkpoint.state, checkpoint.node, declined)
    /\ checkpoint.state.intake = state.intake
    /\ ApprovedWasEarned

LEMMA ThreadInvInit == RunInit => ThreadInv
<1> SUFFICES ASSUME RunInit PROVE ThreadInv
  OBVIOUS
<1>1. /\ Init /\ checkpoint.state = state /\ checkpoint.node = node /\ approved = {}
  BY DEF RunInit, Live
<1>2. ResolvedState(state, node, declined) /\ JudgedState(state, node) /\ NamedState(state, node)
  BY <1>1, ResolutionInvInit, JudgmentInvInit, NamedInvInit, ResolutionInvIsResolvedState,
     JudgmentInvIsJudgedState, NamedInvIsNamedState
<1>3. DraftedState(state, node)
  BY <1>1 DEF Init, DraftedState
<1> QED
  BY <1>1, <1>2, <1>3 DEF ThreadInv, OutcomeState, ApprovedWasEarned

\* A step of the graph other than the Final Review Gate keeps the outcome.
LEMMA GraphStepKeepsOutcome ==
    ASSUME TypeInv, OutcomeState(state, node, declined), Next,
           node \notin {"final_review_gate", "END"}
    PROVE  OutcomeState(state, node, declined)' /\ state'.intake = state.intake
<1>t. state \in TriageState
  BY DEF TypeInv, TypeOK
<1>1. ResolutionInv' /\ JudgmentInv' /\ NamedInv'
  BY ResolutionInvIsResolvedState, JudgmentInvIsJudgedState, NamedInvIsNamedState,
     ResolutionInvNext, JudgmentInvNext, NamedInvNext
     DEF OutcomeState
<1>2. ResolvedState(state, node, declined)' /\ JudgedState(state, node)' /\ NamedState(state, node)'
  <2>1. ResolutionInv' <=> TypeInv' /\ ResolvedState(state, node, declined)'
    BY DEF ResolutionInv, SelectionInv, ResolutionIsJustified, GivesUpOnlyWhenExhausted,
       ResolvedState
  <2>2. JudgmentInv' <=> TypeInv' /\ JudgedState(state, node)'
    BY Zenon DEF JudgmentInv, NothingAhead, CheckedAgainstPolicy, JudgedInOrder, IsCovered,
       IsEligible, JudgedState
  <2>3. NamedInv' <=> TypeInv' /\ NamedState(state, node)'
    BY Zenon DEF NamedInv, NamesItsPolicy, OnTheWay, NamedState
  <2> QED BY <1>1, <2>1, <2>2, <2>3
<1>3. DraftedState(state, node)'
  <2> SUFFICES ASSUME node' \in {"final_review_gate", "END"} PROVE DraftedState(state, node)'
    BY DEF DraftedState
  <2>1. draft_notification
    BY DEF Next, MachineStep, HumanStep, Ended, recall, rank, route_after_rank, coverage_check,
       eligibility_judgment, sufficiency_assessment, policy_selection_gate, final_review_gate
  <2>2. PICK wording \in Wordings :
            state' = [state EXCEPT !.notification = drafted_from(state, wording)]
    BY <2>1 DEF draft_notification
  <2>3. /\ state'.notification = drafted_from(state, wording)
        /\ state'.resolved_policy = state.resolved_policy
        /\ state'.coverage_check = state.coverage_check
        /\ state'.eligibility_judgment = state.eligibility_judgment
        /\ state'.sufficiency_assessment = state.sufficiency_assessment
    BY <1>t, <2>2 DEF TriageState
  <2>4. drafted_from(state, wording)' = drafted_from(state, wording)
    BY <2>3 DEF drafted_from
  <2> QED BY <2>3, <2>4 DEF DraftedState
<1>4. state'.intake = state.intake
  <2>1. CASE rank
    BY <2>1, RankOutcome
  <2>2. ASSUME NEW decision, policy_selection_gate(decision) PROVE state'.intake = state.intake
    <3>1. PICK policy, confidence : state' = resolve(state, policy, confidence)
      BY <2>2 DEF policy_selection_gate
    <3> QED BY <1>t, <3>1 DEF resolve, TriageState
  <2>3. CASE recall
    BY <1>t, <2>3 DEF recall, recalled_state, TriageState
  <2>4. CASE coverage_check \/ eligibility_judgment \/ sufficiency_assessment
             \/ draft_notification
    BY <1>t, <2>4 DEF coverage_check, eligibility_judgment, sufficiency_assessment,
       draft_notification, TriageState
  <2> QED
    BY <2>1, <2>2, <2>3, <2>4 DEF Next, MachineStep, HumanStep, Ended, final_review_gate
<1> QED
  BY <1>2, <1>3, <1>4 DEF OutcomeState

\* What the gate shows of such a state, the claim has earned.
LEMMA PayloadIsEarned ==
    ASSUME TypeInv, OutcomeState(state, node, declined), node = "final_review_gate"
    PROVE  Earned(state.intake, build_payload(state, node))
<1> DEFINE policy  == state.resolved_policy
           payload == build_payload(state, node)
           draft   == state.notification
           within  == /\ policy # None
                      /\ state.intake.requested_amount <= policy.coverage_limit
                      /\ state.intake.incident_date \in policy.coverage_start..policy.coverage_end
<1>1. /\ payload.policy = policy /\ payload.confidence = state.policy_resolution_confidence
      /\ payload.eligibility_judgment = state.eligibility_judgment
      /\ payload.notification = draft
  BY DEF build_payload
<1>2. policy # None =>
         state.policy_resolution_confidence = rank_score(policy, search_query(state.intake)).score
  BY DEF OutcomeState, ResolvedState
<1>3. JudgmentsAreEarned
  BY JudgmentInvIsJudgedState, InvEarnsJudgments DEF OutcomeState
<1>4. /\ state.coverage_check # None <=> policy # None
      /\ state.eligibility_judgment # None <=> within
      /\ state.sufficiency_assessment # None <=> within /\ state.eligibility_judgment.eligible
  BY <1>3 DEF JudgmentsAreEarned
<1>5. policy # None => (covered(state.coverage_check) <=> within)
  <2>1. state.coverage_check # None =>
           state.coverage_check = check_coverage(state.intake, policy)
    BY DEF OutcomeState, JudgedState
  <2>2. policy # None => policy \in Policy
    BY PoliciesAssumption DEF TypeInv, TypeOK, TriageState, Optional
  <2>3. state.intake \in IntakeInput
    BY InputsAssumption DEF TypeInv, TypeOK, TriageState
  <2> QED BY <1>4, <2>1, <2>2, <2>3, CoveredMeansWithin
<1>6. PICK wording \in Wordings : draft = drafted_from(state, wording)
  BY DEF OutcomeState, DraftedState
<1>7. /\ draft.policy_resolved = (policy # None)
      /\ draft.covered = IF state.coverage_check = None THEN None
                         ELSE covered(state.coverage_check)
      /\ draft.eligible = IF state.eligibility_judgment = None THEN None
                          ELSE state.eligibility_judgment.eligible
      /\ draft.sufficient = IF state.sufficiency_assessment = None THEN None
                            ELSE state.sufficiency_assessment.sufficient
  BY <1>6 DEF drafted_from
<1>t. /\ state.eligibility_judgment # None => state.eligibility_judgment.eligible \in BOOLEAN
      /\ state.sufficiency_assessment # None =>
            state.sufficiency_assessment.sufficient \in BOOLEAN
      /\ None \notin BOOLEAN
  BY ResultsAssumption
     DEF TypeInv, TypeOK, TriageState, Optional, EligibilityJudgment, SufficiencyAssessment
<1>8. draft.covered = IF policy = None THEN None ELSE within
  <2>1. CASE policy = None
    BY <1>4, <1>7, <2>1
  <2>2. CASE policy # None
    <3>1. covered(state.coverage_check) = within
      BY <1>5, <2>2 DEF covered
    <3> QED BY <1>4, <1>7, <2>2, <3>1
  <2> QED BY <2>1, <2>2
<1> HIDE DEF within, draft
<1>9. draft.eligible # None <=> within
  BY <1>4, <1>7, <1>t
<1>10. within => draft.eligible = state.eligibility_judgment.eligible
  BY <1>4, <1>7
<1>11. draft.sufficient # None <=> within /\ draft.eligible = TRUE
  <2>1. draft.sufficient # None <=> state.sufficiency_assessment # None
    BY <1>7, <1>t
  <2>2. within => (draft.eligible = TRUE <=> state.eligibility_judgment.eligible)
    BY <1>4, <1>10, <1>t
  <2> QED BY <1>4, <2>1, <2>2
<1>12. draft.policy_resolved <=> policy # None
  BY <1>7
<1> QED
  BY <1>1, <1>2, <1>8, <1>9, <1>10, <1>11, <1>12 DEF Earned, within, draft

\* A step that keeps what is live, or takes it up from the checkpoint, and
\* approves nothing keeps the outcome.
LEMMA ThreadCarriesOn ==
    ASSUME ThreadInv, approved' = approved, declined' = declined,
           checkpoint' \in {checkpoint, Live},
           \/ state' = state /\ node' = node
           \/ state' = checkpoint.state /\ node' = checkpoint.node
    PROVE  ThreadInv'
<1>1. \/ checkpoint'.state = state /\ checkpoint'.node = node
      \/ checkpoint'.state = checkpoint.state /\ checkpoint'.node = checkpoint.node
  BY DEF Live
<1>2. state'.intake = state.intake /\ checkpoint'.state.intake = state.intake
  BY <1>1 DEF ThreadInv
<1>3. ApprovedWasEarned'
  BY <1>2 DEF ThreadInv, ApprovedWasEarned
<1>4. OutcomeState(state, node, declined)'
  BY DEF ThreadInv
<1>5. OutcomeState(checkpoint.state, checkpoint.node, declined)'
  BY <1>1 DEF ThreadInv
<1> QED BY <1>2, <1>3, <1>4, <1>5 DEF ThreadInv

LEMMA GraphStepKeepsThread ==
    ASSUME RunInv, ThreadInv, Next, node \notin {"final_review_gate", "END"},
           approved' = approved, checkpoint' = checkpoint
    PROVE  ThreadInv'
<1>1. OutcomeState(state, node, declined)' /\ state'.intake = state.intake
  BY GraphStepKeepsOutcome DEF RunInv, ThreadInv
<1>2. ApprovedWasEarned'
  BY <1>1 DEF ThreadInv, ApprovedWasEarned
<1>3. OutcomeState(checkpoint.state, checkpoint.node, declined)'
  <2>1. declined \subseteq declined'
    BY DeclinedOnlyGrows
  <2> QED BY <2>1, OutcomeOutlivesDeclining DEF ThreadInv
<1> QED BY <1>1, <1>2, <1>3 DEF ThreadInv

\* Nobody approves a payload but the one that would be shown now.
LEMMA RespondKeepsThread ==
    ASSUME RunInv, ThreadInv, NEW decision \in Decisions, Respond(decision)
    PROVE  ThreadInv'
<1>1. /\ proc = "waiting" /\ checkpoint' = checkpoint /\ declined' = declined
      /\ state' = checkpoint.state /\ node' = checkpoint.node
      /\ approved' \in {approved, approved \cup {shown}}
      /\ approved' # approved => shown.gate = "final_review"
  BY DEF Respond
<1>2. shown = build_payload(state, node) /\ node \in HumanGates
  BY <1>1 DEF RunInv, AnswerMeetsItsPayload
<1>3. CASE approved' = approved
  BY <1>1, <1>3, ThreadCarriesOn
<1>4. CASE approved' # approved
  <2>1. node = "final_review_gate"
    BY <1>1, <1>2, <1>4 DEF build_payload, HumanGates
  <2>2. Earned(state.intake, shown)
    BY <1>2, <2>1, PayloadIsEarned DEF RunInv, ThreadInv
  <2>3. state'.intake = state.intake
    BY <1>1 DEF ThreadInv
  <2>4. ApprovedWasEarned'
    BY <1>1, <1>4, <2>2, <2>3 DEF ThreadInv, ApprovedWasEarned
  <2> QED BY <1>1, <2>3, <2>4 DEF ThreadInv
<1> QED BY <1>3, <1>4

\* The decision is the one thing the Final Review Gate adds to the state.
LEMMA ReturnDecisionKeepsThread == RunInv /\ ThreadInv /\ ReturnDecision => ThreadInv'
<1> SUFFICES ASSUME RunInv, ThreadInv, ReturnDecision PROVE ThreadInv'
  OBVIOUS
<1>1. /\ UNCHANGED <<checkpoint, approved, declined>> /\ node = "final_review_gate" /\ node' = "END"
      /\ state' = [state EXCEPT !.final_decision = answer]
  BY DEF ReturnDecision
<1>2. state \in TriageState
  BY DEF RunInv, TypeInv, TypeOK
<1>3. /\ state'.intake = state.intake /\ state'.candidates = state.candidates
      /\ state'.raw_candidates = state.raw_candidates
      /\ state'.recall_attempt = state.recall_attempt
      /\ state'.recall_query = state.recall_query
      /\ state'.resolved_policy = state.resolved_policy
      /\ state'.policy_resolution_confidence = state.policy_resolution_confidence
      /\ state'.coverage_check = state.coverage_check
      /\ state'.eligibility_judgment = state.eligibility_judgment
      /\ state'.sufficiency_assessment = state.sufficiency_assessment
      /\ state'.notification = state.notification
  BY <1>1, <1>2 DEF TriageState
<1>4. ResolvedState(state, node, declined)'
  BY <1>1, <1>3 DEF ThreadInv, OutcomeState, ResolvedState
<1>5. JudgedState(state, node)'
  BY <1>1, <1>3 DEF ThreadInv, OutcomeState, JudgedState, BeforeCoverage, BeforeEligibility,
     BeforeDocs, BeforeDraft
<1>6. DraftedState(state, node)'
  <2>1. \A wording : drafted_from(state, wording)' = drafted_from(state, wording)
    BY <1>3 DEF drafted_from
  <2> QED BY <1>1, <1>3, <2>1 DEF ThreadInv, OutcomeState, DraftedState
<1>7. NamedState(state, node)'
  BY <1>1, <1>3 DEF ThreadInv, OutcomeState, NamedState
<1>8. ApprovedWasEarned' /\ checkpoint'.state.intake = state'.intake
  BY <1>1, <1>3 DEF ThreadInv, ApprovedWasEarned
<1> QED BY <1>1, <1>4, <1>5, <1>6, <1>7, <1>8 DEF ThreadInv, OutcomeState

LEMMA ThreadInvNext == RunInv /\ ThreadInv /\ [RunNext]_allVars => ThreadInv'
<1> SUFFICES ASSUME RunInv, ThreadInv, [RunNext]_allVars PROVE ThreadInv'
  OBVIOUS
<1>1. CASE RunNode
  <2>1. MachineStep /\ approved' = approved /\ checkpoint' = checkpoint
    BY <1>1 DEF RunNode, runVars
  <2>2. node \notin {"final_review_gate", "END"}
    BY <2>1, MachineStepDecidesNothing DEF RunInv, MachineNodes
  <2> QED BY <2>1, <2>2, GraphStepKeepsThread DEF Next
<1>2. CASE SelectPolicy
  <2>1. /\ policy_selection_gate(answer) /\ node = "policy_selection_gate"
        /\ approved' = approved /\ checkpoint' = checkpoint
    BY <1>2 DEF SelectPolicy, policy_selection_gate
  <2>2. answer \in PolicyIds \cup {"decline"}
    <3>1. ASSUME NEW c \in state.candidates, c.policy.policy_id = answer
          PROVE  answer \in PolicyIds
      BY <3>1, PoliciesAssumption DEF RunInv, TypeInv, CandidatesAreScored, Policy
    <3> QED BY <2>1, <3>1 DEF policy_selection_gate
  <2> QED BY <2>1, <2>2, GraphStepKeepsThread DEF Next, HumanStep
<1>3. CASE SaveCheckpoint \/ Interrupt \/ Complete \/ WriteNotification \/ Resume
  BY <1>3, ThreadCarriesOn
     DEF SaveCheckpoint, Interrupt, Complete, WriteNotification, Resume, vars
<1>4. CASE RefuseDecision \/ ScriptExhausted \/ Crash
  BY <1>4, ThreadCarriesOn DEF RefuseDecision, ScriptExhausted, Crash, Down
<1>5. CASE Idle \/ UNCHANGED allVars
  BY <1>5, ThreadCarriesOn DEF Idle, allVars, vars, runVars
<1>6. ASSUME NEW decision \in Decisions, Respond(decision) PROVE ThreadInv'
  BY <1>6, RespondKeepsThread
<1> QED
  BY <1>1, <1>2, <1>3, <1>4, <1>5, <1>6, ReturnDecisionKeepsThread DEF RunNext

LEMMA ThreadInvariant == RunSpec => [](RunInv /\ ThreadInv)
BY RunInvInit, RunInvNext, ThreadInvInit, ThreadInvNext, PTL DEF RunSpec

\* What a reviewer approved is what the claim earned, after whatever crashes,
\* second drafts and scripted answers.
THEOREM ApprovalsAreEarned == RunSpec => []ApprovedWasEarned
<1>1. ThreadInv => ApprovedWasEarned
  BY DEF ThreadInv
<1> QED BY <1>1, ThreadInvariant, PTL

\* Hence so is every file in data/output.
THEOREM FilesAreEarned ==
    RunSpec => [](\A i \in DOMAIN output :
                     \E payload \in approved : /\ payload.notification = output[i]
                                               /\ Earned(state.intake, payload))
<1>1. WrittenWasApproved /\ ApprovedWasEarned =>
          \A i \in DOMAIN output :
              \E payload \in approved : /\ payload.notification = output[i]
                                        /\ Earned(state.intake, payload)
  BY DEF WrittenWasApproved, ApprovedWasEarned
<1> QED BY <1>1, FilesWereApproved, ApprovalsAreEarned, PTL

\* What is proved of a run of the graph holds of a checkpointed thread: no
\* crash makes a resolution unjustified, gives up early, asks a human about an
\* unambiguous claim, loses a named Policy, or judges what was not earned.
THEOREM OutcomesSurviveCrashes ==
    RunSpec => [](/\ ResolutionIsJustified /\ GivesUpOnlyWhenExhausted
                  /\ SelectionIsAmbiguous /\ NamedPolicyIsFound /\ JudgmentsAreEarned)
<1>1. RunInv /\ ThreadInv => ResolutionInv /\ JudgmentInv /\ NamedInv
  BY ResolutionInvIsResolvedState, JudgmentInvIsJudgedState, NamedInvIsNamedState
     DEF RunInv, ThreadInv, OutcomeState
<1>2. ResolutionInv => /\ ResolutionIsJustified /\ GivesUpOnlyWhenExhausted
                       /\ SelectionIsAmbiguous
  BY SelectionFollows DEF ResolutionInv
<1>3. NamedInv => NamedPolicyIsFound
  BY DEF NamedInv, NamedPolicyIsFound, OnTheWay
<1>4. JudgmentInv => JudgmentsAreEarned
  BY InvEarnsJudgments
<1> QED BY <1>1, <1>2, <1>3, <1>4, ThreadInvariant, PTL

-----------------------------------------------------------------------------
LEMMA PromiseInit == RunInit => Promise!Init
BY DEF RunInit, Init, InitialState, Live, Promise!Init

\* Before its decision is saved a checkpoint may be saved over, with any draft
\* as long as there is no decision, and then with the one that was decided on.
LEMMA SavingKeepsThePromise ==
    ASSUME RunInv, ReleaseInv, SaveCheckpoint \/ Interrupt \/ Complete
    PROVE  [Promise!Next]_(Promise!vars)
<1>1. /\ checkpoint' = Live /\ output' = output
      /\ state \in TriageState /\ checkpoint.state \in TriageState
  BY DEF SaveCheckpoint, Interrupt, Complete, vars, RunInv, TypeInv, TypeOK, ProcessTyped
<1>2. checkpoint'.state = state
  BY <1>1 DEF Live
<1>3. /\ state.notification \in Notification \cup {None}
      /\ state.final_decision \in Answers \cup {None}
  BY <1>1 DEF TriageState, Optional
<1>4. CASE checkpoint.node = "END"
  <2>1. checkpoint' = checkpoint
    BY <1>1, <1>4 DEF RunInv, Undecided
  <2> QED BY <1>1, <2>1 DEF Promise!vars
<1>5. CASE checkpoint.node # "END"
  <2>1. checkpoint.state.final_decision = None
    BY <1>5 DEF RunInv, Undecided
  <2>2. CASE state.final_decision = None
    BY <1>1, <1>2, <1>3, <2>1, <2>2 DEF Promise!Next, Promise!Redraft
  <2>3. CASE state.final_decision # None
    <3>1. node = "END"
      BY <2>3 DEF RunInv, Undecided
    <3>2. checkpoint.state.notification = state.notification
      BY <3>1 DEF ReleaseInv, DraftOfTheDecision
    <3>3. state.final_decision = "approve" =>
             output # <<>> /\ output[Len(output)] = state.notification
      BY DEF ReleaseInv, ApprovalLeavesItsFile, LastWritten
    <3>4. state.final_decision \in Answers
      BY <1>3, <2>3
    <3> QED
      BY <1>1, <1>2, <2>1, <3>2, <3>3, <3>4 DEF Promise!Next, Promise!Close
  <2> QED BY <2>2, <2>3
<1> QED BY <1>4, <1>5

LEMMA PromiseStep ==
    RunInv /\ ReleaseInv /\ [RunNext]_allVars => [Promise!Next]_(Promise!vars)
<1> SUFFICES ASSUME RunInv, ReleaseInv, [RunNext]_allVars
             PROVE  [Promise!Next]_(Promise!vars)
  OBVIOUS
<1>1. CASE RunNode
  <2>1. UNCHANGED <<checkpoint, output>>
    BY <1>1, MachineStepDecidesNothing DEF RunNode, RunInv, runVars
  <2> QED BY <2>1 DEF Promise!vars
<1>2. CASE WriteNotification
  <2>1. /\ checkpoint' = checkpoint /\ output' = Append(output, state.notification)
        /\ checkpoint = Live /\ node = "final_review_gate"
    BY <1>2 DEF WriteNotification, RunInv, AnswerMeetsItsPayload
  <2>2. checkpoint.state.final_decision = None
    BY <2>1 DEF RunInv, Undecided, Live
  <2>3. state.notification \in Notification
    BY <2>1 DEF RunInv, TypeInv, TypeOK, NodesHaveTheirInputs, TriageState, Optional
  <2> QED BY <2>1, <2>2, <2>3 DEF Promise!Next, Promise!Release
<1>3. ASSUME \/ \E decision \in Decisions : Respond(decision)
             \/ SelectPolicy \/ ReturnDecision \/ RefuseDecision \/ ScriptExhausted
             \/ Crash \/ Resume \/ Idle \/ UNCHANGED allVars
      PROVE  UNCHANGED Promise!vars
  BY <1>3
     DEF Respond, SelectPolicy, policy_selection_gate, ReturnDecision, RefuseDecision,
         ScriptExhausted, Crash, Down, Resume, Idle, allVars, vars, runVars, Promise!vars
<1> QED
  BY <1>1, <1>2, <1>3, SavingKeepsThePromise DEF RunNext

\* The thread releases drafts only while no decision is saved, and a saved
\* approval has released the draft it approved: ReviewedRelease.
THEOREM RunImplementsPromise == RunSpec => KeepsPromise
<1>1. RunInit => Promise!Init
  BY PromiseInit
<1>2. RunInv /\ ReleaseInv /\ [RunNext]_allVars => [Promise!Next]_(Promise!vars)
  BY PromiseStep
<1> QED BY <1>1, <1>2, ReleaseInvariant, PTL DEF RunSpec, Promise!Spec, KeepsPromise
=============================================================================

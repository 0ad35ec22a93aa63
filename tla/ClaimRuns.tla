------------------------------ MODULE ClaimRuns ------------------------------
(***************************************************************************)
(* Several runs beside each other (cli/run.py, cli/run_scenario.py and the *)
(* eval, through runner.py), over one checkpoint store and one             *)
(* data/output.  `just run` makes a claim_id of its own; the replays of a  *)
(* scenario share the scenario's.  What one thread does is in TriageRun;   *)
(* here a run is what it adds to the thread it was given, the answer to    *)
(* its Final Review Gate and the file it then writes (output.py).          *)
(*                                                                         *)
(* A result is named by the run that produced it.  A thread is named by    *)
(* the claim and eight digits drawn for the run, which two runs may share: *)
(* the second is then merged into the thread of the first.                 *)
(***************************************************************************)
EXTENDS Naturals

CONSTANTS
    None,
    Runs,          \* the calls of run_to_completion
    Suffixes,      \* uuid4().hex[:8]
    ClaimIds,
    Claim,         \* the claim_id of each run
    MAX_CLOCK      \* bound on the seconds

VARIABLES
    clock,
    suffix,        \* what each run drew when it started
    threads,       \* the checkpoint store: the state of each thread in it
    at,            \* where each run is
    files,         \* data/output: the content of each path in it
    opened,        \* the path each run writes to
    approved,      \* the runs a reviewer approved
    openings,      \* who opened a file in which second
    died           \* the runs whose process died once after the answer

vars == <<clock, suffix, threads, at, files, opened, approved, openings, died>>

ASSUME RunsAssumption ==
    Claim \in [Runs -> ClaimIds] /\ MAX_CLOCK \in Nat \ {0}

\* Fault: the thread of a claim is the claim's.
thread_id_of_claim(r) == <<Claim[r], None>>

thread_id(r) == <<Claim[r], suffix[r]>>

\* Fault: the name is the claim's alone.
path_of_claim(r) == <<Claim[r], 0>>

\* The time in the name ends with the seconds.
path(r) == <<Claim[r], clock>>

Empty == "empty"
Mixed == "mixed"

\* f, whose key is given a value, new or not.
With(f, key, value) ==
    [k \in DOMAIN f \cup {key} |-> IF k = key THEN value ELSE f[k]]

Goto(r, from, to) == at[r] = from /\ at' = [at EXCEPT ![r] = to]

-----------------------------------------------------------------------------
\* The graph

\* invoke(initial_state) starts a thread, or is merged into the one there is.
Start(r) ==
    /\ Goto(r, "new", "coverage")
    /\ \E drawn \in Suffixes : suffix' = [suffix EXCEPT ![r] = drawn]
    /\ LET thread == thread_id(r)'
       IN  threads' = IF thread \in DOMAIN threads THEN threads
                      ELSE With(threads, thread, [judgment |-> None, notification |-> None])
    /\ UNCHANGED <<clock, files, opened, approved, openings, died>>

Judge(r) ==
    /\ Goto(r, "coverage", "draft")
    /\ threads' = [threads EXCEPT ![thread_id(r)].judgment = r]
    /\ UNCHANGED <<clock, suffix, files, opened, approved, openings, died>>

\* A claim without a covering Policy is not judged.
SkipJudgment(r) ==
    /\ Goto(r, "coverage", "draft")
    /\ UNCHANGED <<clock, suffix, threads, files, opened, approved, openings, died>>

\* Fault: the gate writes before it interrupts.
Draft_written(r) ==
    /\ Goto(r, "draft", "gate")
    /\ threads' = [threads EXCEPT ![thread_id(r)].notification = r]
    /\ files' = With(files, path(r), r)
    /\ UNCHANGED <<clock, suffix, opened, approved, openings, died>>

Draft(r) ==
    /\ Goto(r, "draft", "gate")
    /\ threads' = [threads EXCEPT ![thread_id(r)].notification = r]
    /\ UNCHANGED <<clock, suffix, files, opened, approved, openings, died>>

-----------------------------------------------------------------------------
\* The Final Review Gate and its file

approve(r) ==
    /\ Goto(r, "gate", "approved")
    /\ approved' = approved \cup {r}
    /\ UNCHANGED <<clock, suffix, threads, files, opened, openings, died>>

reject(r) ==
    /\ Goto(r, "gate", "rejected")
    /\ UNCHANGED <<clock, suffix, threads, files, opened, approved, openings, died>>

\* Fault: the file is not there before it is written.
open_file_lazily(r) ==
    /\ Goto(r, "approved", "writing")
    /\ opened' = [opened EXCEPT ![r] = path(r)]
    /\ openings' = openings \cup {<<r, clock>>}
    /\ UNCHANGED <<clock, suffix, threads, files, approved, died>>

\* write_text opens, which empties a file of that name, ...
open_file(r) ==
    /\ Goto(r, "approved", "writing")
    /\ files' = With(files, path(r), Empty)
    /\ opened' = [opened EXCEPT ![r] = path(r)]
    /\ openings' = openings \cup {<<r, clock>>}
    /\ UNCHANGED <<clock, suffix, threads, approved, died>>

\* ... and writes from its beginning: a longer text another run wrote since
\* sticks out at the end.
write_text(r) ==
    /\ Goto(r, "writing", "written")
    /\ LET draft == threads[thread_id(r)].notification
       IN  \E content \in IF files[opened[r]] = Empty THEN {draft} ELSE {draft, Mixed} :
              files' = [files EXCEPT ![opened[r]] = content]
    /\ UNCHANGED <<clock, suffix, threads, opened, approved, openings, died>>

return_decision(r) ==
    /\ Goto(r, "written", "done")
    /\ UNCHANGED <<clock, suffix, threads, files, opened, approved, openings, died>>

\* A process, of which one death is enough, dies, and another one takes
\* the gate up: with the answer, if it was saved, or by asking again.
CrashAndResume(r) ==
    /\ r \notin died
    /\ died' = died \cup {r}
    /\ \E from \in {"approved", "writing", "written"}, to \in {"gate", "approved"} :
          Goto(r, from, to)
    /\ UNCHANGED <<clock, suffix, threads, files, opened, approved, openings>>

Tick ==
    /\ clock < MAX_CLOCK
    /\ clock' = clock + 1
    /\ UNCHANGED <<suffix, threads, at, files, opened, approved, openings, died>>

-----------------------------------------------------------------------------
Init ==
    /\ clock = 1 /\ suffix = [r \in Runs |-> None]
    /\ threads = <<>> /\ files = <<>>
    /\ at = [r \in Runs |-> "new"]
    /\ opened = [r \in Runs |-> None]
    /\ approved = {} /\ openings = {} /\ died = {}

Next ==
    \/ \E r \in Runs :
          \/ Start(r) \/ Judge(r) \/ SkipJudgment(r) \/ Draft(r) \/ approve(r) \/ reject(r)
          \/ open_file(r) \/ write_text(r) \/ return_decision(r) \/ CrashAndResume(r)
    \/ Tick

Spec == Init /\ [][Next]_vars

-----------------------------------------------------------------------------
\* The runs of a claim that drew the same digits: r and, once in 16^8, another.
Namesakes(r) ==
    {q \in Runs : at[q] # "new" /\ Claim[q] = Claim[r] /\ suffix[q] = suffix[r]}

\* A run reads no result another run left in its thread, also where its own
\* route skips the node that would have replaced it (runner.py:36-41), unless
\* the two drew the same digits.
ResultsAreItsOwn ==
    \A r \in Runs : at[r] # "new" =>
        {threads[thread_id(r)].judgment, threads[thread_id(r)].notification}
            \subseteq Namesakes(r) \cup {None}

\* Two runs write to one name only in the same second.
Collide(r, q) ==
    /\ r # q /\ Claim[r] = Claim[q]
    /\ \E second \in 0..MAX_CLOCK : {<<r, second>>, <<q, second>>} \subseteq openings

\* The draft of a run that ended approved is in data/output, and stays there
\* whatever the other runs of its claim write later, and whoever died; unless
\* another run of the claim wrote in the very second (output.py:15-17).  In a
\* shared thread it is the draft of the run that wrote it last.
ApprovedDraftsStay ==
    \A r \in Runs : at[r] = "done" =>
        \/ \E p \in DOMAIN files : files[p] \in Namesakes(r)
        \/ \E q \in Runs : Collide(r, q)

\* A file under a claim's name is a draft approved for that claim, whole, or
\* another that came to share the thread of an approved one.  A file
\* that is empty is being written, or its writer died over it; one that is
\* mixed is of two runs of the claim in the second of its name.
FilesAreApproved ==
    \A p \in DOMAIN files :
        \/ \E r \in approved : Claim[r] = p[1] /\ files[p] \in Namesakes(r)
        \/ files[p] = Empty /\ \E r \in approved :
              /\ Claim[r] = p[1] /\ <<r, p[2]>> \in openings
              /\ r \in died \/ at[r] = "writing"
        \/ files[p] = Mixed /\ \E r, q \in approved :
              r # q /\ {Claim[r], Claim[q]} = {p[1]} /\ {<<r, p[2]>>, <<q, p[2]>>} \subseteq openings

RunsTypeOK ==
    /\ clock \in 1..MAX_CLOCK /\ died \subseteq Runs
    /\ suffix \in [Runs -> Suffixes \cup {None}]
    /\ \A t \in DOMAIN threads :
          threads[t] \in [judgment : Runs \cup {None}, notification : Runs \cup {None}]
    /\ at \in [Runs -> {"new", "coverage", "draft", "gate", "approved", "writing",
                        "written", "done", "rejected"}]
    /\ \A p \in DOMAIN files : files[p] \in Runs \cup {Empty, Mixed}
    /\ \A r \in Runs : opened[r] = None \/ opened[r] \in DOMAIN files
    /\ approved \subseteq Runs
    /\ openings \subseteq Runs \X (1..MAX_CLOCK)
=============================================================================

# A TLA+ model of the claims-triage agent

The agent (`src/ins_agent`) takes an insurance claim as a claimant typed it, finds
the Policy it belongs to, checks the coverage, lets an LLM judge eligibility and
documents, drafts a Notification and writes it to `data/output` once a human
approved it. This directory specifies that program in TLA+, model-checks it with
TLC on small instances and proves its main properties with TLAPS for all instances.
Line numbers below refer to `src/src/ins_agent/` unless a path says otherwise.

## The system

| Part | State | Operations | What makes it correct |
|---|---|---|---|
| Triage graph (`graph.py`, `state.py`, `nodes/`) | the `TriageState` dict, the node to run next | recall, rank, Policy Selection Gate, coverage check, eligibility judgment, sufficiency assessment, notification, Final Review Gate, the conditional edges between them | a Policy is resolved only when unambiguous, or by a human among several; the Broadening budget is used exactly; judgments are made exactly when earned; nothing a later node read is replaced |
| Rank scoring (`matching/rank.py`) | none | `rank_score` | scores stay in 0..1, a Perfect Score is unique |
| Policy queries (`db/queries.py`) | the `policy` table (read) | exact and fuzzy search | the LIMIT never drops the Policy whose id was given |
| Run driver and gates (`runner.py`, `nodes/hitl.py`, `tui.py`, `scenarios.py`, `output.py`) | the process, the script of a scenario, the files in `data/output` | invoke, interrupt, answer, resume, write the file | what is written was approved as shown; an answer meets the payload it was given to |
| Checkpoints (`checkpointer.py`, LangGraph) | the saved state of each thread in Postgres | background saves, reload on resume | a pause survives the death of the process |
| Cached LLM calls (`llm/`, `db/cache.py`) | the `llm_cache` table | lookup, provider call with retries, store, bypass, clear | an answer belongs to its request and fits the caller's schema; retries end |
| Eval suite (`eval.py`, `cli/eval.py`) | what the replay of a scenario came to, the drifts found | replays each scenario, repeats its judgments with `bypass_cache`, compares, exits | an exit status of 0 vouches for every judgment, a drift is a drift |
| Several runs (`runner.py`, `output.py`, `cli/`) | one checkpoint store, one `data/output` | thread ids, file names, overlapping writes | a run reads only its own results, an approved draft is not lost |
| Seeding (`db/seed.py`, `db/connection.py`) | `policies.csv`, the `policy` table | generate, write, TRUNCATE, read, INSERT, commit | a claim never sees a half-loaded table or two generations of it |
| Intake form (`cli/intake_prompt.py`, `cli/run.py`) | the answers so far | prompts, document loop, validation, settings | what a prompt takes the form can use |
| Font cache (`helpers/convert.py`) | `.woff2` and `.ttf` files | look, download, convert, render | what later runs trust is complete |
| Settings, prompts, tracing, diagram (`config.py`, `prompts/`, `observability.py`, `cli/diagram.py`) | none that survives a call | | |

How they interact: a command line driver builds the graph with a Postgres
checkpointer and calls `run_to_completion`, which alternates `graph.invoke` with a
callback that answers the interrupts (`runner.py` 53-58). The nodes read the policy
table through `queries.py` and the LLM through `cached_invoke`, and communicate only
through `TriageState`. Several processes share the three Postgres tables (policy,
cache, checkpoints) and the output directory; no lock of the program spans two calls.

The hard behaviours: a retry loop whose end depends on a counter in the shared
state; a search made with the LLM's reading of the claim and scored against the
claim itself; a side effect (the file) inside a node that runs again after every
interrupt and crash; checkpoints saved in the background; scripted answers handed
out by position, whichever gate asks; processes of different builds racing on a cache;
evaluations that replace the rows other replays read; a table reseeded between two
attempts of one claim, through a CSV that two seeders may share; runs of one claim
that write to one directory under names of one second's granularity.
`PROJECT.json` lists these, each at its line, under "hazards".

## The modules

Specifications of the code:

* **`RankScore`**: the records (claims, queries, Policies, candidates) and
  `rank_score`, in hundredths. Jaro-Winkler similarity and Metaphone (the jellyfish
  library) are constants. A name is its spelling and the case and blanks it was typed
  with, a phone its digits and its punctuation: string equality compares both parts,
  Rank only the first. A field that is blank is `None`, as the code tests truthiness.
* **`PolicyQueries`** extends it with the two SQL queries. The fuzzy one has a set of
  results, since rows that tie at the LIMIT may come in any order.
* **`TriageGraph`** extends that with the graph: one action per node, which merges what
  the handler returns and takes the edge the router picks. `state` is `TriageState`
  without what decides nothing (addresses, rationales, texts); `node` is the pending
  node; `output` the files. The LLM may return any member of its schema, and any query
  of `LLMQueries`, whatever the claim says. `Wordings` tells two drafts of one set of
  facts apart. The human gates take any answer their handler accepts; one the handler
  raises on leaves the run where it was. `declined` is a history variable: the sets of
  candidates a human was shown and declined, of which `TriageState` keeps no trace.
* **`TriageRun`** extends `TriageGraph` with one checkpointed thread: `proc` says what
  the process is doing, `checkpoint` what Postgres holds, `saved_answer` the resume
  value LangGraph may have stored, `script` the scripted answers left. The Final Review
  Gate is split in two (`WriteNotification`, `ReturnDecision`) because a crash can come
  between. `RunNode` runs any `MachineStep` of the graph.
* **`CachedInvoke`** models concurrent calls of `cached_invoke`: lookup, provider
  attempts, store, each a step of its own as nothing locks the key in between. Callers
  run builds whose schemas may have gained fields; a row answers the schema of the
  build that stored it.

* **`ClaimRuns`** puts several runs beside each other: what `runner.py` keeps apart by
  its thread ids and `output.py` by its file names. A thread id is the claim and the
  eight hex digits (`suffix`) a run draws; two runs may draw the same (`Namesakes`), and
  the second is then merged into the thread of the first. A thread is abstracted to who
  wrote its judgment and its draft; opening a file (which empties it) and writing it
  are two steps. `at` is where a run is; a dead process is taken up again from the gate
  or from its saved answer.
* **`PolicySeeding`**: a seeder generates rows of the day, writes the CSV, truncates
  under Postgres's lock, reads the CSV *back* and commits; any step may fail. Claims
  recall, broaden, resolve and are judged meanwhile, and days go by. `rows` is what a
  seeder holds in memory; which rows match a claim is left to `PolicyQueries`. A query
  waits while the table is locked and raises (`QueryFails`) while there is none.
* **`EvalSuite`**: whole evaluations over the rows of the cache. Whether a replay gets to
  its first judgment is decided anew each time, as the LLM's query, the table and the
  script decide it (`coverage_check`); from there the verdicts choose the route.
  `EditPrompt` changes the keys of one step or, with the guideline that is in both
  prompts, of both; `Check` is one part of `_record_drift_checks`, `Report` ends a
  scenario. A call of `cached_invoke` is one step, for `CachedInvoke` has its inside.
  `reached` and `asked` remember what the exit status must vouch for.
* **`IntakeForm`**: the prompts of `just run` in their order, with the answers each one
  takes, the document loop, the validation of the whole and the settings read last.
* **`FontCache`**: `ensure_fonts` of the diagram helper, file by file.

LangGraph is external to `src/src`, and modelled from how the code uses it: checkpoints
saved in the background and flushed before `invoke` returns, a node interrupted or
cut off by a crash run again from its start, an answer given to `Command(resume=...)`
perhaps, perhaps not, saved with the checkpoint. Postgres is external too: a
transaction is atomic, `TRUNCATE` locks readers out, a lost connection rolls back.

Abstract specifications, which the detailed ones implement:

* **`ReviewedRelease`**: drafts are released while the verdict is open, none after,
  and an approved run has released what was approved. `TriageRun` implements it with
  the *saved* decision as verdict: the refinement that says what a crash may cost (a
  second copy) and what it may not (a missing or a late one).
* **`LLMOracle`**: a call returns an answer the provider gave to that very request, in
  the caller's shape, or raises. `CachedInvoke` implements it.

Instances for TLC: `MCTriageGraph` (three Policies: two namesakes and a third
whose name sounds alike and who shares phone and birth date with one), `MCTriageRun`,
`MCCachedInvoke`, `MCClaimRuns` (two replays of one scenario and one typed claim) and
`MCEvalSuite` (a scenario that lacks documents, and one judged ineligible and without a
second golden); the others need only a `.cfg`. `DocumentedTriage` states a sentence of
the documentation the code contradicts. The definitions commented "Fault:" are plausible bugs that replace the
definition after them to show that a property would notice; no specification uses one.

## The runs

| Run | Question | Bounds |
|---|---|---|
| `triage` | Is every run of the graph sound, and does it reach a human or its end? | 3 Policies, TOP_N 2, the default threshold, 80 claims (each field right, wrong or missing; amounts and dates at, inside and outside the bounds of the coverage), 72 possible LLM queries |
| `run` | Does a checkpointed thread release exactly what was approved? | 3 claims (resolved and judged, over the limit, ambiguous), 4 scripts and the TUI, 2 crashes, 2 wordings |
| `cache` | Do callers get their own answers, and does every call end? | 2 processes of different builds, 2 models, 2 answers, 2 attempts, 2 calls each, 1 clear |
| `seeding` | Is the table whole, whoever seeds and whatever fails? | 2 seeders, 3 seedings of 2 or 3 Policies (with 3 the generated keys collide with the fixture's), 2 days, 1 claim of 2 attempts |
| `eval` | What does the exit status of a suite say? | 2 processes, 2 scenarios, 2 evaluations, the prompts of one step or of both edited once |
| `claim_runs` | Do runs keep apart? | 3 runs, two of one claim, 2 suffixes to draw, 2 seconds, one death of each process |
| `fonts` | Is the cache that later runs trust complete? | 2 processes, 3 weights, 2 runs each |

Five more runs, each of one property, end in a counterexample: see below.

Why the bounds are enough: the resolution logic distinguishes none, one and several
candidates, above or below the threshold, and the table gives each of these with and
without a `policy_id`; three Policies are one more than the LIMIT, so truncation
happens. The retry budget (3) is the code's. One crash can separate the file from its
checkpoint, a second one hits the recovery of the first. Two callers are enough for
every race on one row, as a row remembers only its last writer; two calls let a
process come back to a row the other replaced. Two seeders overlap in every way on one
file, and a third seeding follows a failed one; a claim needs two attempts to straddle
a reseed. Two evaluations are one after another and at once; a replay of either scenario takes
any of the three routes, and the last one follows another, as a drift must survive
it. Runs of different claims share nothing but the directory, so that two of one
claim and one of another show every meeting; with two suffixes the two share a thread
or they do not. The proofs take all these bounds away,
except for liveness.

What they check, by property:

* `ResolutionIsJustified`, `SelectionIsAmbiguous`, `SelectionOnlyWhenExhausted`: the
  relation between the candidates, the resolution, the attempts and the gate, through
  all Broadening attempts.
* `GivesUpOnlyWhenExhausted`: "Policy not found" is written only when nothing was
  unambiguous, when every attempt was made (unless several candidates clear the
  threshold, which ends the loop earlier), and when a human was shown the very
  candidates that are left, if they are several, and declined them.
* `NamedPolicyIsFound`: a claim that names its Policy and holder is resolved to it,
  though Recall searches with a query in which the LLM may have garbled everything but
  the id: attempts are lost, the Policy is not, and the LIMIT does not drop it.
* `JudgmentsAreEarned`, `ResultsStand`, `NodesHaveTheirInputs`: the stages after the
  resolution.
* `EveryNodeIsProgress`, `ReachesAHuman`: the loop ends. The first is the safety half, a
  measure (`NodesLeft`) that every step lowers; the second adds that the pending node
  does run.
* `WrittenWasApproved`, `AnswerMeetsItsPayload`, `ApprovalIsWritten`, `KeepsPromise`:
  human answers and files across crashes.
* `ApprovedWasEarned`: what the reviewer approved shows the score, the coverage and the
  judgments the claim of the thread earned; a payload that mixed the Policy of one
  attempt with the draft of another, after a crash or a resume, would break it.
* `RowsAnswerTheirRequest`, `NextCallFindsTheAnswer`, `RetryBudget`, `CallsRunDown`,
  `CallsEnd`, `KeepsOraclePromise`: the cache. `CallsRunDown` is to `CallsEnd` what
  `EveryNodeIsProgress` is to `ReachesAHuman`.
* `TableIsWhole`, `OneGenerationPerClaim`, `RecallIsAnswered`: the table through failed
  and concurrent seedings, what a claim holds across them, and that a query waiting
  for the lock is answered, or raises for want of a table. `TableIsWhole` admits the one way to an empty table the
  code leaves: one seeder empties the CSV before another reads it back.
* `NoDriftIsMissed`, `NoFalseAlarm`, `CleanSuiteLeavesGoldenRows`: what exit statuses 0
  and 1 say, and which rows a clean suite leaves, beside other suites, failures and edits. A clean suite
  replayed every scenario to its end and asked afresh every judgment with a golden that
  a replay reached. A judgment no replay reached is only noted (`eval.py` 114-118).
* `ResultsAreItsOwn`, `ApprovedDraftsStay`, `FilesAreApproved`: threads and files of runs
  side by side. All three name what shared digits may cost, the results and the draft
  of the other run of the claim; the last two what a shared second, or a death, may.
* `QuietCacheIsWhole`, `LoneRunsHaveEveryFont`: the font cache.

Fairness: `TriageGraph` is weakly fair to `MachineStep` only, as LangGraph runs the
pending node by itself, and never to a human. `CachedInvoke` is weakly fair to the
steps of a begun call (the SDK's timeouts and tenacity's bounded waits end every
attempt), and to no beginning of a call. `TriageRun` claims safety only: a thread whose
process died waits until somebody resumes it, and no command of the program does so
by itself. `PolicySeeding` is weakly fair to the steps of a seeder that was started,
which is a script that goes on until it ends or fails, and to a query, which Postgres
runs, or refuses for want of a table, once nothing locks it out. `ClaimRuns`, `EvalSuite` and `FontCache` claim safety
only. The runs of bounded calls, seedings, evaluations and clocks do not check deadlock:
when the bounds are used up the model stops, as the programs do.

## Where code and documents disagree

Each has a run that TLC ends with a counterexample, and a finding in `PROJECT.json`.

* `doc_broadening`: an attempt that drops fields from a query that had nothing else
  finds nothing and loses what the first attempt found (`nodes/recall.py` 48;
  `CONTEXT.md` 44). It assumes that the LLM read the claim faithfully, so that none of
  it is the model's fault.
* `doc_decision`: a scripted answer meant for another gate becomes the final decision
  (`nodes/hitl.py` 140; `state.py` 41).
* `doc_rejection`: after a crash between file and checkpoint a run can end rejected with
  its file left in `data/output` (`nodes/hitl.py` 138 and 18).
* `doc_stale_rows`: a schema that gains a field keeps its cache key, so rows do go stale
  (`llm/hashing.py` 10; `db/cache.py` 3-6).
* `doc_amount`: the amount prompt asks for a plain number, takes "NaN" or "Infinity",
  and the form then ends in a traceback with all its answers lost
  (`cli/intake_prompt.py` 50 and 52).

Other divergences the models contain, without a run of their own:

* With the budget exhausted and several candidates left, the graph goes to the Policy
  Selection Gate (`nodes/rank.py` 60); `ARCHITECTURE.md` 60 sends it straight to the
  Final Review Gate.
* A misspelled name can reach a score of 1.0, by phonetic bonus and cap, without being a
  Perfect Score (`matching/rank.py` 52; `CONTEXT.md` 40).
* The dates of generated Policies are relative to today (`db/seed.py` 88), so that the
  dataset is not "fully reproducible" (3-5): a row of `PolicySeeding` carries its day.
* An evaluation replaces the rows its own scenarios replay from (`eval.py` 130), so a
  replay may take another branch from one evaluation to the next, though scenarios
  replay "reproducibly" (`scenarios.py` 2-3).
* The settings are first read after the form is filled in (`cli/run.py` 29), not "at
  startup" (`config.py` 4-5).
* A font cache a failed run left incomplete is returned as complete (`convert.py` 48 and
  45), which is why `LoneRunsHaveEveryFont` excepts it.

## What is proved

`TriageGraphProofs`, for every table, claim, query, threshold, LIMIT and similarity:

* `Typing` and `InputsArePresent`. `TypeOK` alone is not inductive: a handler's result
  is well typed only if its inputs are there, and the attempt counter stays in range
  only because Rank returns to Recall with an attempt left. `TypeInv` adds
  `NodesHaveTheirInputs`, `AttemptLeft`, and that every candidate is a row of the table
  scored against the claim.
* `ResolutionJustified`, `GivingUp`, `Selection`: `ResolutionInv` adds to `TypeInv` what
  holds at the Policy Selection Gate (nothing resolved, nothing unambiguous, several
  candidates, and the last attempt made unless some of them clear the threshold), from
  which a decline takes its part of `GivesUpOnlyWhenExhausted`. `DeclinedOnlyGrows`: no
  step forgets what a human declined. `AtMostOnePerfect` uses that `policy_id` is the primary key.
* `SelectionIsTheLastResort`: with a threshold above `POLICY_ID_WEIGHT` only a candidate
  with the id clears it (`OnlyTheIdWeighsMore`), hence at most one.

* `NodesRunOut` and `RunsAreShort`: what a step does to the node and to the attempts
  (`StepsOfTheGraph`) lowers `NodesLeft`, and `NodesLeft` is within 0..12 as Rank runs only
  once Recall counted its attempt (`RankedWasRecalled`): a run comes to at most twelve
  nodes, three attempts of two and six more.

`OutcomeProofs` is about what a run comes to. It follows a named Policy through the loop:
found by an exact attempt or nothing is found and an attempt is left, kept by the LIMIT
of the fuzzy one (`FuzzyKeepsTheNamed`), the one Perfect Score of its claim:
`NamedPolicyFound`. It adds what is not there yet at each node (`NothingAhead`), that
the coverage check is that of the resolved Policy, and that judgments come in order:
`JudgmentsEarned` and `ResultsKept`.

`CachedInvokeProofs`, for any number of processes, builds, retries and calls:
`CacheTyping`, `RowsAnswer` (with the fact that an answer about to be stored is on
record), `RetriesBounded`, and `CacheImplementsOracle`, by the initial state and one
step lemma per action.

`AnswersAreFoundAgain` adds that whoever is about to store is on record as having asked:
nobody else stores under the key of a process that asked alone. `CallsAreProgress` and
`CallsAreShort` take from the invariant of `RetriesBounded` (a call looks up before its
first attempt, and has one left while it asks) that `StepsLeft` falls and never below 0.

`TriageRunProofs`, for every script and number of crashes, builds on the invariant of
the graph: it holds of the checkpoint as well (`GraphState`), from which a process takes
up. `RunInv` adds that a decision comes only with the end of a thread (`Undecided`), that
a saved answer belongs to the gate of its checkpoint (`SavedAtItsGate`), and that only a
human or a script answers a final review (`AnswerFits`): `RunTyping` and
`AnswersMeetPayloads`. `ReleaseInv`, in the same module, adds what a file leaves behind,
from the moment it is written to the saved decision (`ApprovalLeavesItsFile`), and counts
files against crashes (`FilesAreCounted`): `FilesWereApproved`, `ApprovalsHaveFiles`, and
with them `RunImplementsPromise`: saving a checkpoint is a redraft or the closing step of
`ReviewedRelease`, the write of the file its release, all else a stutter.

The last part joins it to `OutcomeProofs`: a crash takes the state back to the checkpoint,
so what holds of the state and the node of a run has to hold of the checkpoint too.
`OutcomeState(s, n)` states the invariants of the graph of any state and node;
`ThreadInv` claims it of both, with the intake they share, what was declined and what was
approved so far; a crash forgets neither, and what was declined once stays declined
(`OutcomeOutlivesDeclining`).
The step that needs it all is an approval: `PayloadIsEarned` takes the payload of the
Final Review Gate apart into the resolution, the coverage check and the draft. Hence
`ApprovalsAreEarned`; `FilesAreEarned`, with `FilesWereApproved`: every file is the draft
of an approved and earned payload; and `OutcomesSurviveCrashes`: what `TriageGraphProofs`
and `OutcomeProofs` prove of one uninterrupted run holds of a thread that crashes.

`PolicySeedingProofs`, for any number of seeders, claims and days: `SeedingTyping`,
`TableWhole` and `OneGenerationHeld`, from what a seeder holds at each step and what the
file then holds.

`ClaimRunsProofs`, for any number of runs and claims: `RunsTyping`, `ResultsAreOwn`,
`DraftsStay` and `FilesHoldApprovedDrafts`. `RunsInv` says of a writing run which second
its file has and that it holds what the run put there or is shared in that second
(`WriterHasItsFile`), that a thread holds results of runs that were given it only
(`ThreadIsOfItsRuns`), which survives as digits once drawn stay, and that a process that
never died opened one file only (`OpeningsAreApproved`), without which an empty file
could belong to nobody.

`EvalSuiteProofs`, for any scenarios, goldens and evaluations side by side: `SuiteTyping`,
`DriftIsNeverMissed`, `DriftIsNeverInvented` and `GoldenRowsAreLeft`. The exit status
speaks of a suite that is over, so `EvalInv` says of one under way that a replay has
judgments only in their order (`ReplayInOrder`), that each scenario behind it was replayed
to its end (`ScenariosAreReplayed`), that what it reached was asked for or is still to be checked
in this very scenario (`ReachedAreAsked`), and that drift is remembered exactly when an
answer differed (`DriftIsRecorded`): the remembering spans two variables, of the scenario
and of the suite, and `Report` hands the one over to the other. The rows of a lone suite
agree once they were checked (`CheckedRowsAgree`), which a later replay of another
scenario does not undo.

`FontCacheProofs`, for any number of processes, weights and runs: `FontCacheTyping`,
`QuietMeansWhole` and `LoneRunsRenderWhole`. While conversions overlap the cache is in any
state; `WorkIsInHand` says that each file not whole, and each download left lying, has a
process that will yet see to it unless a run failed, `Progress` what a conversion has
behind it though others remove and rewrite the same files, and `LoneProgress` what a
conversion that met no other may rely on.

The assumptions are those named in the modules: `policy_id` is a key, Jaro-Winkler
similarity is below 1 for unequal strings, the constants have their types, `None`
is none of the values, no `policy_id` reads "decline", a golden is a verdict or none for
each step, there is at least one font weight. SHA-256 over length-prefixed
fields is taken to be injective. TLC evaluates the assumptions in every run.

Only model-checked: liveness (`ReachesAHuman`, `CallsEnd`, `RecallIsAnswered`), which is
out of the provers' reach. What decides the first two is proved: a measure that every
step lowers (`NodesRunOut`, `CallsAreProgress`) and that is bounded (`RunsAreShort`,
`CallsAreShort`). Every other property of a passing run is a theorem.

## Not modelled

* The texts: rationales, prompts, payload layout, the CSV and JSON formats; Langfuse;
  `tui.py` beyond the answers it takes. They hold no state and decide nothing.
* `cli/diagram.py`: writes two files from the compiled graph and has no other behaviour.
* `Claim.from_intake` (`models/claim.py`): nothing in the pipeline calls it.
* The values drawn by Faker, and Faker: a generated Policy is its key and its day.
* Errors of the LLM or the database inside a node of `TriageGraph`: they end the
  process, which is `Crash` in `TriageRun`; `CachedInvoke` has them one by one.
* The values of the settings: constants of the models.

## Plan

Done, in this order: `RankScore`, `PolicyQueries`, `TriageGraph` and its proofs;
`TriageRun` with `ReviewedRelease`; `CachedInvoke` with `LLMOracle` and its proofs;
`PolicySeeding`, `EvalSuite`, `ClaimRuns`, `IntakeForm` and `FontCache`; the proofs of
`TriageRun`, of its refinement, of `PolicySeeding`, of `ClaimRuns`, of `EvalSuite` and of
`FontCache`; the measures of the graph and of a call.

To do: a module that composes the graph with the cache, `LLMOracle` being the LLM of the
nodes, so that a resumed node that runs again is served its own earlier answer.

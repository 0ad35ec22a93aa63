--------------------------- MODULE PolicySeeding ---------------------------
(***************************************************************************)
(* `just seed` (db/seed.py) beside the claims that look for their Policy.  *)
(* Seeding goes through data/seed/policies.csv, which all seeders share,   *)
(* and replaces the table in one transaction; TRUNCATE locks readers out   *)
(* until it ends.  Each Recall attempt of a claim is a query of its own,   *)
(* so the table may be replaced between two attempts, and while the claim  *)
(* waits at a gate with the Policy it resolved.                            *)
(*                                                                         *)
(* A row is its key and the day it was made on: the dates of a generated   *)
(* Policy are drawn relative to today, whatever the seed.  The file is     *)
(* smaller than Python's buffer, so it is written at once, when closed.    *)
(***************************************************************************)
EXTENDS Naturals, FiniteSets

CONSTANTS
    None,
    Seeders,        \* processes that run `just seed`
    Claims,         \* runs of the graph
    NUM_POLICIES,   \* the values of NUM_POLICIES in the builds in use
    FIXTURE_IDS,    \* the policy_ids of FIXTURE_POLICIES
    MAX_ATTEMPTS,   \* of Recall
    MAX_DAYS,       \* bound on the days
    MAX_SEEDS       \* bound on the uses of `just seed`

VARIABLES
    day,            \* today
    csv,            \* the rows of the file
    policy,         \* the table as committed, None before its creation
    lock,           \* the seeder whose transaction has truncated the table
    seeder,         \* where each seeder is
    rows,           \* what it generated, and later what it read back
    seeds,          \* the seeders started
    overlapped,     \* a file was emptied that another seeder had yet to read
    claim           \* each run: where it is, its attempts, what it holds

vars == <<day, csv, policy, lock, seeder, rows, seeds, overlapped, claim>>

ASSUME SizesAssumption ==
    /\ NUM_POLICIES \subseteq Nat /\ FIXTURE_IDS \subseteq Nat
    /\ {MAX_ATTEMPTS, MAX_DAYS} \subseteq Nat \ {0}
    /\ MAX_SEEDS \in Nat

Policy == [policy_id : Nat, made : 0..MAX_DAYS]

FIXTURE_POLICIES == {[policy_id |-> i, made |-> 0] : i \in FIXTURE_IDS}

generate_policies(n) == {[policy_id |-> i, made |-> day] : i \in 1..n}

collisions(generated) == {p.policy_id : p \in generated} \cap FIXTURE_IDS

-----------------------------------------------------------------------------
\* Seeding

At(s, from, to) ==
    /\ seeder[s] = from
    /\ seeder' = [seeder EXCEPT ![s] = to]

Generate(s, n) ==
    /\ seeder[s] = "idle" /\ seeds < MAX_SEEDS
    /\ seeds' = seeds + 1
    /\ IF collisions(generate_policies(n)) = {}
       THEN /\ At(s, "idle", "generated")
            /\ rows' = [rows EXCEPT ![s] = generate_policies(n) \cup FIXTURE_POLICIES]
       ELSE UNCHANGED <<seeder, rows>>
    /\ UNCHANGED <<day, csv, policy, lock, overlapped, claim>>

\* open("w") empties the file.
open_csv(s) ==
    /\ At(s, "generated", "opened")
    /\ csv' = {}
    /\ overlapped' = (overlapped \/ \E t \in Seeders : seeder[t] \in {"wrote", "locked"})
    /\ UNCHANGED <<day, policy, lock, rows, seeds, claim>>

write_csv(s) ==
    /\ At(s, "opened", "wrote")
    /\ csv' = rows[s]
    /\ UNCHANGED <<day, policy, lock, rows, seeds, overlapped, claim>>

\* Fault: the TRUNCATE is committed by itself.
truncate_committed(s) ==
    /\ At(s, "wrote", "locked")
    /\ policy' = {}
    /\ UNCHANGED <<day, csv, lock, rows, seeds, overlapped, claim>>

\* The schema and the TRUNCATE, which waits for another seeder's to end.
truncate(s) ==
    /\ lock = None
    /\ At(s, "wrote", "locked")
    /\ lock' = s
    /\ UNCHANGED <<day, csv, policy, rows, seeds, overlapped, claim>>

read_csv(s) ==
    /\ At(s, "locked", "read")
    /\ rows' = [rows EXCEPT ![s] = csv]
    /\ UNCHANGED <<day, csv, policy, lock, seeds, overlapped, claim>>

\* The INSERTs and the commit.
commit(s) ==
    /\ At(s, "read", "idle")
    /\ policy' = rows[s]
    /\ lock' = None
    /\ UNCHANGED <<day, csv, rows, seeds, overlapped, claim>>

\* Fault: the connection, and its transaction, outlive the error.
Fail_leaking(s) ==
    /\ seeder[s] # "idle"
    /\ seeder' = [seeder EXCEPT ![s] = "idle"]
    /\ UNCHANGED <<day, csv, policy, lock, rows, seeds, overlapped, claim>>

\* The seeder dies or raises: get_connection closes, Postgres rolls back.
Fail(s) ==
    /\ seeder[s] # "idle"
    /\ seeder' = [seeder EXCEPT ![s] = "idle"]
    /\ lock' = IF lock = s THEN None ELSE lock
    /\ UNCHANGED <<day, csv, policy, rows, seeds, overlapped, claim>>

NextDay ==
    /\ day < MAX_DAYS
    /\ day' = day + 1
    /\ UNCHANGED <<csv, policy, lock, seeder, rows, seeds, overlapped, claim>>

-----------------------------------------------------------------------------
\* Claims

unseeded == UNCHANGED <<day, csv, policy, lock, seeder, rows, seeds, overlapped>>

\* Fault: an attempt adds to what the earlier ones found.
recalled_adding(c, found) ==
    [claim[c] EXCEPT !.at = "rank", !.attempts = @ + 1, !.candidates = @ \cup found]

recalled(c, found) ==
    [claim[c] EXCEPT !.at = "rank", !.attempts = @ + 1, !.candidates = found]

\* Which rows match is the matter of PolicyQueries: here, any.  A query of no
\* field is not put to the table, and not here.
Recall(c) ==
    /\ claim[c].at = "recall"
    /\ policy # None /\ lock = None
    /\ \E found \in SUBSET policy : claim' = [claim EXCEPT ![c] = recalled(c, found)]
    /\ unseeded

\* Before the first seeding there is no table, and the query raises.
QueryFails(c) ==
    /\ claim[c].at = "recall" /\ policy = None
    /\ claim' = [claim EXCEPT ![c].at = "raised"]
    /\ unseeded

\* Fault: one attempt too many.
Broaden_one_more(c) ==
    /\ claim[c].at = "rank" /\ claim[c].attempts <= MAX_ATTEMPTS
    /\ claim' = [claim EXCEPT ![c].at = "recall"]
    /\ unseeded

Broaden(c) ==
    /\ claim[c].at = "rank" /\ claim[c].attempts < MAX_ATTEMPTS
    /\ claim' = [claim EXCEPT ![c].at = "recall"]
    /\ unseeded

\* Rank, or a human at the gate however many days later.
Resolve(c) ==
    /\ claim[c].at = "rank"
    /\ \E p \in claim[c].candidates :
          claim' = [claim EXCEPT ![c].at = "resolved", ![c].resolved = p]
    /\ unseeded

\* The coverage check and the judgment read the Policy in the state.
Judge(c) ==
    /\ claim[c].at = "resolved"
    /\ claim' = [claim EXCEPT ![c].at = "judged", ![c].judged = claim[c].resolved]
    /\ unseeded

-----------------------------------------------------------------------------
Init ==
    /\ day = 1 /\ csv = {} /\ policy = None /\ lock = None
    /\ seeder = [s \in Seeders |-> "idle"]
    /\ rows = [s \in Seeders |-> {}]
    /\ seeds = 0 /\ overlapped = FALSE
    /\ claim = [c \in Claims |-> [at |-> "recall", attempts |-> 0, candidates |-> {},
                                  resolved |-> None, judged |-> None]]

SeederStep(s) ==
    open_csv(s) \/ write_csv(s) \/ truncate(s) \/ read_csv(s) \/ commit(s) \/ Fail(s)

Next ==
    \/ \E s \in Seeders : SeederStep(s) \/ \E n \in NUM_POLICIES : Generate(s, n)
    \/ \E c \in Claims : Recall(c) \/ QueryFails(c) \/ Broaden(c) \/ Resolve(c) \/ Judge(c)
    \/ NextDay

\* A seeder goes on until it ends, and a query runs when nothing locks it out.
Spec ==
    /\ Init /\ [][Next]_vars
    /\ \A s \in Seeders : WF_vars(SeederStep(s))
    /\ \A c \in Claims : WF_vars(Recall(c) \/ QueryFails(c))

-----------------------------------------------------------------------------
SeedingTypeOK ==
    /\ day \in 1..MAX_DAYS /\ csv \subseteq Policy
    /\ policy = None \/ policy \subseteq Policy
    /\ lock \in Seeders \cup {None}
    /\ seeder \in [Seeders ->
                      {"idle", "generated", "opened", "wrote", "locked", "read"}]
    /\ rows \in [Seeders -> SUBSET Policy]
    /\ seeds \in 0..MAX_SEEDS /\ overlapped \in BOOLEAN
    /\ claim \in [Claims -> [at : {"recall", "rank", "resolved", "judged", "raised"},
                             attempts : 0..MAX_ATTEMPTS, candidates : SUBSET Policy,
                             resolved : Policy \cup {None}, judged : Policy \cup {None}]]

\* What one call of main() writes, on one day.
Generation(n, d) == {[policy_id |-> i, made |-> d] : i \in 1..n} \cup FIXTURE_POLICIES

Generations ==
    {Generation(n, d) : n \in {k \in NUM_POLICIES : 1..k \cap FIXTURE_IDS = {}}, d \in 1..MAX_DAYS}

\* The table is always one whole generation, through crashes at any point of
\* the seeding (seed.py:115-128).  It is found empty only if two seeders
\* shared the CSV at the wrong moment: one opened it before the other read it.
TableIsWhole == policy \in {None} \cup Generations \/ (policy = {} /\ overlapped)

\* The rows a claim holds are of one generation: it never weighs a candidate
\* of the table before a reseed against one of the table after it, and it is
\* judged on the row it was resolved to (recall.py 57, coverage.py 9).
OneGenerationPerClaim ==
    \A c \in Claims : \E g \in Generations \cup {{}} :
        claim[c].candidates \cup ({claim[c].resolved, claim[c].judged} \ {None}) \subseteq g

\* A query that waits for a seeder is answered, also when the seeder fails:
\* its connection is closed, which frees the table (connection.py 18-31); and
\* one that finds no table raises, and does not wait for one.
RecallIsAnswered ==
    \A c \in Claims : claim[c].at = "recall" ~> claim[c].at # "recall"
=============================================================================

------------------------ MODULE PolicySeedingProofs ------------------------
(***************************************************************************)
(* For every number of seeders, claims, builds, days and attempts: the     *)
(* table is one whole generation, and no claim weighs rows of two.         *)
(***************************************************************************)
EXTENDS PolicySeeding, TLAPS

\* What each action of a claim changes is its own record.
ClaimRecord == [at : {"recall", "rank", "resolved", "judged", "raised"},
                attempts : 0..MAX_ATTEMPTS, candidates : SUBSET Policy,
                resolved : Policy \cup {None}, judged : Policy \cup {None}]

\* An attempt is left whenever a claim is about to search.
AttemptLeft == \A c \in Claims : claim[c].at = "recall" => claim[c].attempts < MAX_ATTEMPTS

SeedingTypeInv == SeedingTypeOK /\ AttemptLeft

LEMMA GeneratedTyped ==
    ASSUME SeedingTypeOK, NEW n \in NUM_POLICIES
    PROVE  generate_policies(n) \subseteq Policy /\ FIXTURE_POLICIES \subseteq Policy
<1>1. \A i \in 1..n : i \in Nat
  BY SizesAssumption
<1>2. day \in 0..MAX_DAYS /\ 0 \in 0..MAX_DAYS
  BY SizesAssumption DEF SeedingTypeOK
<1> QED
  BY <1>1, <1>2, SizesAssumption DEF generate_policies, FIXTURE_POLICIES, Policy

LEMMA SeedingTypeInit == Init => SeedingTypeInv
<1> SUFFICES ASSUME Init PROVE SeedingTypeInv
  OBVIOUS
<1> DEFINE new == [at |-> "recall", attempts |-> 0, candidates |-> {},
                   resolved |-> None, judged |-> None]
<1>1. new \in ClaimRecord /\ new.at = "recall" /\ new.attempts < MAX_ATTEMPTS
  BY SizesAssumption DEF ClaimRecord
<1>2. claim = [c \in Claims |-> new]
  BY DEF Init
<1> HIDE DEF new
<1>3. claim \in [Claims -> ClaimRecord] /\ AttemptLeft
  BY <1>1, <1>2 DEF AttemptLeft
<1>4. day \in 1..MAX_DAYS /\ seeds \in 0..MAX_SEEDS
  BY SizesAssumption DEF Init
<1> QED
  BY <1>3, <1>4 DEF Init, SeedingTypeInv, SeedingTypeOK, ClaimRecord

LEMMA SeedingTypeStep == SeedingTypeInv /\ [Next]_vars => SeedingTypeInv'
<1> SUFFICES ASSUME SeedingTypeInv, [Next]_vars PROVE SeedingTypeInv'
  OBVIOUS
<1>a. SeedingTypeOK /\ AttemptLeft
  BY DEF SeedingTypeInv
<1>b. claim \in [Claims -> ClaimRecord]
  BY <1>a DEF SeedingTypeOK, ClaimRecord
<1>1. ASSUME NEW s \in Seeders, NEW n \in NUM_POLICIES, Generate(s, n)
      PROVE  SeedingTypeInv'
  BY <1>a, <1>1, GeneratedTyped, SizesAssumption
     DEF Generate, At, SeedingTypeInv, SeedingTypeOK, AttemptLeft
<1>2. ASSUME NEW s \in Seeders, SeederStep(s) PROVE SeedingTypeInv'
  <2> USE <1>a DEF At, SeedingTypeInv, SeedingTypeOK, AttemptLeft
  <2>1. CASE open_csv(s)  BY <2>1 DEF open_csv
  <2>2. CASE write_csv(s) BY <2>2 DEF write_csv
  <2>3. CASE truncate(s)  BY <2>3 DEF truncate
  <2>4. CASE read_csv(s)  BY <2>4 DEF read_csv
  <2>5. CASE commit(s)    BY <2>5 DEF commit
  <2>6. CASE Fail(s)      BY <2>6 DEF Fail
  <2> QED BY <1>2, <2>1, <2>2, <2>3, <2>4, <2>5, <2>6 DEF SeederStep
<1>3. ASSUME NEW c \in Claims, Recall(c) \/ QueryFails(c) \/ Broaden(c) \/ Resolve(c) \/ Judge(c)
      PROVE  SeedingTypeInv'
  <2>1. /\ \A d \in Claims : d # c => claim'[d] = claim[d]
        /\ claim' \in [Claims -> ClaimRecord]
        /\ claim'[c].at = "recall" => claim'[c].attempts < MAX_ATTEMPTS
    <3> USE <1>a, <1>b DEF unseeded
    <3>1. CASE Recall(c)
      <4>1. PICK found \in SUBSET policy : claim' = [claim EXCEPT ![c] = recalled(c, found)]
        BY <3>1 DEF Recall
      <4>2. found \subseteq Policy
        BY <4>1, <3>1 DEF SeedingTypeOK, Recall
      <4>3. claim[c].attempts + 1 \in 0..MAX_ATTEMPTS
        BY <3>1, SizesAssumption DEF Recall, AttemptLeft, ClaimRecord
      <4>4. recalled(c, found) \in ClaimRecord /\ recalled(c, found).at = "rank"
        BY <4>2, <4>3 DEF recalled, ClaimRecord
      <4> QED BY <4>1, <4>4
    <3>2. CASE Broaden(c)
      <4>1. claim' = [claim EXCEPT ![c] = [claim[c] EXCEPT !.at = "recall"]]
        BY <3>2 DEF Broaden
      <4>2. [claim[c] EXCEPT !.at = "recall"] \in ClaimRecord
        BY DEF ClaimRecord
      <4> QED BY <4>1, <4>2, <3>2 DEF Broaden, ClaimRecord
    <3>3. CASE Resolve(c)
      <4>1. PICK p \in claim[c].candidates :
               claim' = [claim EXCEPT ![c] = [claim[c] EXCEPT !.at = "resolved", !.resolved = p]]
        BY <3>3 DEF Resolve
      <4>2. [claim[c] EXCEPT !.at = "resolved", !.resolved = p] \in ClaimRecord
        BY <4>1 DEF ClaimRecord
      <4> QED BY <4>1, <4>2 DEF ClaimRecord
    <3>4. CASE Judge(c)
      <4>1. claim' = [claim EXCEPT ![c] =
                        [claim[c] EXCEPT !.at = "judged", !.judged = claim[c].resolved]]
        BY <3>4 DEF Judge
      <4>2. [claim[c] EXCEPT !.at = "judged", !.judged = claim[c].resolved] \in ClaimRecord
        BY DEF ClaimRecord
      <4> QED BY <4>1, <4>2 DEF ClaimRecord
    <3>5. CASE QueryFails(c)
      <4>1. claim' = [claim EXCEPT ![c] = [claim[c] EXCEPT !.at = "raised"]]
        BY <3>5 DEF QueryFails
      <4>2. [claim[c] EXCEPT !.at = "raised"] \in ClaimRecord
        BY DEF ClaimRecord
      <4> QED BY <4>1, <4>2 DEF ClaimRecord
    <3> QED BY <1>3, <3>1, <3>2, <3>3, <3>4, <3>5
  <2>2. unseeded
    BY <1>3 DEF Recall, QueryFails, Broaden, Resolve, Judge
  <2> QED
    BY <1>a, <2>1, <2>2 DEF unseeded, SeedingTypeInv, SeedingTypeOK, AttemptLeft, ClaimRecord
<1>4. CASE NextDay
  BY <1>a, <1>4, SizesAssumption DEF NextDay, SeedingTypeInv, SeedingTypeOK, AttemptLeft
<1>5. CASE UNCHANGED vars
  BY <1>a, <1>5 DEF vars, SeedingTypeInv, SeedingTypeOK, AttemptLeft
<1> QED
  BY <1>1, <1>2, <1>3, <1>4, <1>5 DEF Next

\* Every state of the seeders, the file, the table and the claims is well typed.
THEOREM SeedingTyping == Spec => []SeedingTypeOK
<1>1. Init => SeedingTypeInv
  BY SeedingTypeInit
<1>2. SeedingTypeInv /\ [Next]_vars => SeedingTypeInv'
  BY SeedingTypeStep
<1>3. SeedingTypeInv => SeedingTypeOK
  BY DEF SeedingTypeInv
<1> QED
  BY <1>1, <1>2, <1>3, PTL DEF Spec
-----------------------------------------------------------------------------
\* What a seeder that has yet to read its file back generated is a generation;
\* what the file holds while one of them has yet to read it is one too, unless
\* another seeder emptied it; and so is what was read, and what was committed.
Whole(some) == some \in Generations \/ (some = {} /\ overlapped)

SeedingInv ==
    /\ SeedingTypeOK
    /\ \A s \in Seeders :
          /\ seeder[s] \in {"generated", "opened"} => rows[s] \in Generations
          /\ seeder[s] \in {"wrote", "locked"} => Whole(csv)
          /\ seeder[s] = "read" => Whole(rows[s])
    /\ TableIsWhole

LEMMA GenerateIsGeneration ==
    ASSUME SeedingTypeOK, NEW n \in NUM_POLICIES, collisions(generate_policies(n)) = {}
    PROVE  generate_policies(n) \cup FIXTURE_POLICIES \in Generations
<1>1. day \in 1..MAX_DAYS
  BY DEF SeedingTypeOK
<1>2. ASSUME NEW i \in 1..n PROVE i \in {p.policy_id : p \in generate_policies(n)}
  <2> DEFINE row == [policy_id |-> i, made |-> day]
  <2>1. row \in generate_policies(n) /\ row.policy_id = i
    BY DEF generate_policies
  <2> HIDE DEF row
  <2> QED BY <2>1
<1>3. 1..n \cap FIXTURE_IDS = {}
  BY <1>2 DEF collisions
<1>4. generate_policies(n) \cup FIXTURE_POLICIES = Generation(n, day)
  BY DEF generate_policies, Generation
<1> QED
  BY <1>1, <1>3, <1>4 DEF Generations

LEMMA SeedingStep == SeedingInv /\ SeedingTypeOK' /\ [Next]_vars => SeedingInv'
<1> SUFFICES ASSUME SeedingInv, SeedingTypeOK', [Next]_vars PROVE SeedingInv'
  OBVIOUS
<1>a. Generations' = Generations
  BY DEF Generations, Generation, FIXTURE_POLICIES
<1>b. ASSUME UNCHANGED <<csv, policy, seeder, rows, overlapped>> PROVE SeedingInv'
  BY <1>a, <1>b DEF SeedingInv, Whole, TableIsWhole
<1> USE DEF SeedingInv, Whole, TableIsWhole
<1>1. ASSUME NEW s \in Seeders, NEW n \in NUM_POLICIES, Generate(s, n)
      PROVE  SeedingInv'
  <2>1. CASE collisions(generate_policies(n)) = {}
    BY <1>a, <1>1, <2>1, GenerateIsGeneration DEF Generate, At, SeedingTypeOK
  <2>2. CASE collisions(generate_policies(n)) # {}
    BY <1>b, <1>1, <2>2 DEF Generate
  <2> QED BY <2>1, <2>2
<1>2. ASSUME NEW s \in Seeders, SeederStep(s) PROVE SeedingInv'
  <2> USE <1>a DEF At, SeedingTypeOK
  <2>1. CASE open_csv(s)  BY <2>1 DEF open_csv
  <2>2. CASE write_csv(s) BY <2>2 DEF write_csv
  <2>3. CASE truncate(s)  BY <2>3 DEF truncate
  <2>4. CASE read_csv(s)  BY <2>4 DEF read_csv
  <2>5. CASE commit(s)    BY <2>5 DEF commit
  <2>6. CASE Fail(s)      BY <2>6 DEF Fail
  <2> QED BY <1>2, <2>1, <2>2, <2>3, <2>4, <2>5, <2>6 DEF SeederStep
<1>3. ASSUME NEW c \in Claims, Recall(c) \/ QueryFails(c) \/ Broaden(c) \/ Resolve(c) \/ Judge(c)
      PROVE  SeedingInv'
  BY <1>b, <1>3 DEF Recall, QueryFails, Broaden, Resolve, Judge, unseeded
<1>4. CASE NextDay
  BY <1>b, <1>4 DEF NextDay
<1>5. CASE UNCHANGED vars
  BY <1>b, <1>5 DEF vars
<1> QED
  BY <1>1, <1>2, <1>3, <1>4, <1>5 DEF Next

\* Through every interleaving of seeders, their files and their crashes the table
\* is one whole generation, or empty after two of them shared the file.
THEOREM TableWhole == Spec => []TableIsWhole
<1>1. Init => SeedingInv
  BY SeedingTypeInit DEF Init, SeedingTypeInv, SeedingInv, TableIsWhole
<1>2. SeedingInv /\ SeedingTypeOK' /\ [Next]_vars => SeedingInv'
  BY SeedingStep
<1>3. SeedingInv => TableIsWhole
  BY DEF SeedingInv
<1> QED
  BY <1>1, <1>2, <1>3, SeedingTyping, PTL DEF Spec

-----------------------------------------------------------------------------
\* A claim's Policy is among the candidates of its last attempt, and it holds
\* none while it searches; those candidates are rows of one generation.
OneGeneration(some) == \E g \in Generations \cup {{}} : some \subseteq g

Holdings ==
    \A c \in Claims :
        /\ OneGeneration(claim[c].candidates)
        /\ claim[c].at \in {"recall", "rank"} => claim[c].resolved = None
        /\ claim[c].resolved \in claim[c].candidates \cup {None}
        /\ claim[c].judged \in {None, claim[c].resolved}

LEMMA HoldingsStep ==
    Holdings /\ SeedingTypeOK /\ TableIsWhole /\ [Next]_vars => Holdings'
<1> SUFFICES ASSUME Holdings, SeedingTypeOK, TableIsWhole, [Next]_vars PROVE Holdings'
  OBVIOUS
<1>a. Generations' = Generations
  BY DEF Generations, Generation, FIXTURE_POLICIES
<1>b. ASSUME UNCHANGED claim PROVE Holdings'
  BY <1>a, <1>b DEF Holdings, OneGeneration
<1>c. claim \in [Claims -> ClaimRecord]
  BY DEF SeedingTypeOK, ClaimRecord
<1>1. ASSUME NEW s \in Seeders, SeederStep(s) \/ \E n \in NUM_POLICIES : Generate(s, n)
      PROVE  Holdings'
  BY <1>b, <1>1 DEF SeederStep, Generate, open_csv, write_csv, truncate, read_csv, commit, Fail
<1>2. ASSUME NEW c \in Claims, Recall(c) \/ QueryFails(c) \/ Broaden(c) \/ Resolve(c) \/ Judge(c)
      PROVE  Holdings'
  <2>1. CASE Recall(c)
    <3>1. PICK found \in SUBSET policy : claim' = [claim EXCEPT ![c] = recalled(c, found)]
      BY <2>1 DEF Recall
    <3>2. OneGeneration(found)
      BY <2>1, <3>1 DEF Recall, TableIsWhole, OneGeneration
    <3>3. /\ recalled(c, found).candidates = found
          /\ recalled(c, found).resolved = claim[c].resolved
          /\ recalled(c, found).judged = claim[c].judged
      BY <1>c DEF recalled, ClaimRecord
    <3>4. claim[c].resolved = None
      BY <2>1 DEF Recall, Holdings
    <3> QED BY <1>a, <1>c, <3>1, <3>2, <3>3, <3>4 DEF Holdings, OneGeneration
  <2>2. CASE Broaden(c)
    <3>1. claim' = [claim EXCEPT ![c] = [claim[c] EXCEPT !.at = "recall"]]
      BY <2>2 DEF Broaden
    <3>2. /\ claim'[c].candidates = claim[c].candidates
          /\ claim'[c].resolved = claim[c].resolved
          /\ claim'[c].judged = claim[c].judged
          /\ \A d \in Claims \ {c} : claim'[d] = claim[d]
      BY <1>c, <3>1 DEF ClaimRecord
    <3>3. claim[c].resolved = None
      BY <2>2 DEF Broaden, Holdings
    <3> QED BY <1>a, <3>2, <3>3 DEF Holdings, OneGeneration
  <2>3. CASE Resolve(c)
    <3>1. PICK p \in claim[c].candidates :
             claim' = [claim EXCEPT ![c] = [claim[c] EXCEPT !.at = "resolved", !.resolved = p]]
      BY <2>3 DEF Resolve
    <3>2. claim[c].judged = None
      BY <2>3 DEF Resolve, Holdings
    <3>3. /\ claim'[c].candidates = claim[c].candidates
          /\ claim'[c].resolved = p /\ claim'[c].judged = None
          /\ claim'[c].at = "resolved"
          /\ \A d \in Claims \ {c} : claim'[d] = claim[d]
      BY <1>c, <3>1, <3>2 DEF ClaimRecord
    <3> QED BY <1>a, <3>1, <3>3 DEF Holdings, OneGeneration
  <2>4. CASE Judge(c)
    <3>1. claim' = [claim EXCEPT ![c] =
                      [claim[c] EXCEPT !.at = "judged", !.judged = claim[c].resolved]]
      BY <2>4 DEF Judge
    <3>2. /\ claim'[c].candidates = claim[c].candidates
          /\ claim'[c].resolved = claim[c].resolved
          /\ claim'[c].judged = claim[c].resolved
          /\ claim'[c].at = "judged"
          /\ \A d \in Claims \ {c} : claim'[d] = claim[d]
      BY <1>c, <3>1 DEF ClaimRecord
    <3> QED BY <1>a, <3>2 DEF Holdings, OneGeneration
  <2>5. CASE QueryFails(c)
    <3>1. claim' = [claim EXCEPT ![c] = [claim[c] EXCEPT !.at = "raised"]]
      BY <2>5 DEF QueryFails
    <3>2. /\ claim'[c].candidates = claim[c].candidates
          /\ claim'[c].resolved = claim[c].resolved
          /\ claim'[c].judged = claim[c].judged
          /\ claim'[c].at = "raised"
          /\ \A d \in Claims \ {c} : claim'[d] = claim[d]
      BY <1>c, <3>1 DEF ClaimRecord
    <3> QED BY <1>a, <3>2 DEF Holdings, OneGeneration
  <2> QED BY <1>2, <2>1, <2>2, <2>3, <2>4, <2>5
<1>3. CASE NextDay \/ UNCHANGED vars
  BY <1>b, <1>3 DEF NextDay, vars
<1> QED
  BY <1>1, <1>2, <1>3 DEF Next

\* However often the table is replaced, between two attempts of a claim or while
\* it waits for a human, what it holds is of one generation.
THEOREM OneGenerationHeld == Spec => []OneGenerationPerClaim
<1>1. Init => Holdings
  BY DEF Init, Holdings, OneGeneration
<1>2. Holdings /\ SeedingTypeOK /\ TableIsWhole /\ [Next]_vars => Holdings'
  BY HoldingsStep
<1>3. Holdings => OneGenerationPerClaim
  BY DEF Holdings, OneGeneration, OneGenerationPerClaim
<1> QED
  BY <1>1, <1>2, <1>3, SeedingTyping, TableWhole, PTL DEF Spec
=============================================================================

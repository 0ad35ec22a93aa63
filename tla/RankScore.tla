------------------------------ MODULE RankScore ------------------------------
(***************************************************************************)
(* The records a triage run passes around (models/claim.py,                *)
(* models/policy.py, models/triage.py) and the deterministic score that    *)
(* says how well a Policy matches what the claimant typed                  *)
(* (matching/rank.py).                                                     *)
(*                                                                         *)
(* A text the code normalises before comparing it is a pair of what the    *)
(* normalisation keeps and what it throws away: a name is a spelling and   *)
(* the case and blanks it was typed with, a phone is its digits and the    *)
(* punctuation it was typed with.  Two texts are equal as strings when     *)
(* both parts are, and equal for Rank when the first part is.  A field     *)
(* that is missing or blank is None: the code tests fields by truthiness.  *)
(* Scores are hundredths, so 0.7 is 70.                                    *)
(***************************************************************************)
EXTENDS Integers

CONSTANTS
    None,            \* Python's None
    PolicyIds,       \* policy_id values, those of no Policy included
    Spellings,       \* names up to case and blanks
    PhoneNumbers,    \* phones up to punctuation and country code
    Renderings,      \* the ways one spelling or one number is typed
    Dobs,            \* dates of birth
    Similarity,      \* Jaro-Winkler times NAME_WEIGHT, of two unequal spellings
    Metaphone        \* the phonetic code of a spelling

Name  == [spelling : Spellings, rendering : Renderings]
Phone == [number : PhoneNumbers, rendering : Renderings]

Optional(S) == S \cup {None}

PolicySearchQuery ==
    [policy_id : Optional(PolicyIds), holder_name : Optional(Name),
     phone : Optional(Phone), dob : Optional(Dobs)]

IntakeInput ==
    [policy_id : Optional(PolicyIds), holder_name : Optional(Name),
     phone : Optional(Phone), dob : Optional(Dobs),
     incident_date : Int, requested_amount : Int]

\* The columns that the pipeline decides on; the address, product type and
\* status of a Policy are only displayed and quoted in prompts.
Policy ==
    [policy_id : PolicyIds, holder_name : Name, phone : Phone, dob : Dobs,
     coverage_start : Int, coverage_end : Int, coverage_limit : Int]

POLICY_ID_WEIGHT    == 50
NAME_WEIGHT         == 30
PHONE_WEIGHT        == 15
DOB_WEIGHT          == 5
NAME_PHONETIC_BONUS == 5
PERFECT_SCORE       == 100

\* Jaro-Winkler similarity is 1 only between equal strings.
ASSUME SimilarityAssumption ==
    Similarity \in [Spellings -> [Spellings -> 0..(NAME_WEIGHT - 1)]]

ASSUME NoneAssumption ==
    /\ None \notin PolicyIds \cup Dobs \cup Name \cup Phone
    /\ None \notin PolicySearchQuery
    /\ None \notin Policy

-----------------------------------------------------------------------------

search_query(intake) ==
    [policy_id |-> intake.policy_id, holder_name |-> intake.holder_name,
     phone |-> intake.phone, dob |-> intake.dob]

canonicalize_phone(phone) == phone.number

normalize_name(name) == name.spelling

\* Fault: the bonus is not capped.
inexact_name_score_uncapped(a, b) ==
    Similarity[a][b] + (IF Metaphone[a] = Metaphone[b] THEN NAME_PHONETIC_BONUS ELSE 0)

\* The score of the name, when it is not an exact match.
inexact_name_score(a, b) ==
    LET bonus == IF Metaphone[a] = Metaphone[b] THEN NAME_PHONETIC_BONUS ELSE 0
        score == Similarity[a][b] + bonus
    IN  IF score < NAME_WEIGHT THEN score ELSE NAME_WEIGHT

name_score(query_name, candidate_name) ==
    LET a == normalize_name(query_name)
        b == normalize_name(candidate_name)
    IN  IF a = b THEN NAME_WEIGHT ELSE inexact_name_score(a, b)

RankedCandidate ==
    [policy : Policy, score : 0..PERFECT_SCORE, policy_id_exact : BOOLEAN,
     name_exact : BOOLEAN, phone_exact : BOOLEAN, dob_exact : BOOLEAN]

policy_id_exact(policy, query) == query.policy_id = policy.policy_id

name_exact(policy, query) ==
    /\ query.holder_name # None
    /\ normalize_name(query.holder_name) = normalize_name(policy.holder_name)

phone_exact(policy, query) ==
    /\ query.phone # None
    /\ canonicalize_phone(query.phone) = canonicalize_phone(policy.phone)

dob_exact(policy, query) == query.dob = policy.dob

weighted_sum(policy, query) ==
    LET name == IF query.holder_name = None THEN 0
                ELSE name_score(query.holder_name, policy.holder_name)
    IN  (IF policy_id_exact(policy, query) THEN POLICY_ID_WEIGHT ELSE 0)
        + name
        + (IF phone_exact(policy, query) THEN PHONE_WEIGHT ELSE 0)
        + (IF dob_exact(policy, query) THEN DOB_WEIGHT ELSE 0)

is_perfect(candidate) == candidate.policy_id_exact /\ candidate.name_exact

rank_score(policy, query) ==
    LET perfect == policy_id_exact(policy, query) /\ name_exact(policy, query)
    IN  [policy          |-> policy,
         score           |-> IF perfect THEN PERFECT_SCORE
                             ELSE weighted_sum(policy, query),
         policy_id_exact |-> policy_id_exact(policy, query),
         name_exact      |-> name_exact(policy, query),
         phone_exact     |-> phone_exact(policy, query),
         dob_exact       |-> dob_exact(policy, query)]
=============================================================================

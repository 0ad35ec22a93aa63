---------------------------- MODULE MCTriageGraph ----------------------------
(***************************************************************************)
(* A table of three Policies for TLC: two namesakes, and a third holder    *)
(* whose name sounds the same, is spelled otherwise and shares a phone and *)
(* a date of birth with the first (a couple's joint number).  The claims   *)
(* name them well, badly or not at all.                                    *)
(***************************************************************************)
EXTENDS TriageGraph

MCPolicyIds    == {"P1", "P2", "P3", "P9"}     \* no Policy is P9
MCSpellings    == {"ann", "anne", "bob"}
MCPhoneNumbers == {1, 2}
MCRenderings   == {"plain", "noisy"}
MCDobs         == {"d1", "d2"}

MCMetaphone == [s \in MCSpellings |-> IF s = "bob" THEN "BB" ELSE "AN"]

\* ann and anne are close enough for the phonetic bonus to reach the cap.
MCSimilarity ==
    [s \in MCSpellings |-> [t \in MCSpellings |-> IF "bob" \in {s, t} THEN 10 ELSE 28]]

MCTrigram ==
    [s \in MCSpellings |-> [t \in MCSpellings |->
        IF s = t THEN 100 ELSE IF "bob" \in {s, t} THEN 0 ELSE 50]]

Plain(spelling) == [spelling |-> spelling, rendering |-> "plain"]
Noisy(spelling) == [spelling |-> spelling, rendering |-> "noisy"]
Number(n, r)    == [number |-> n, rendering |-> r]

Row(id, name, number, dob) ==
    [policy_id |-> id, holder_name |-> Plain(name), phone |-> Number(number, "plain"),
     dob |-> dob, coverage_start |-> 2, coverage_end |-> 3, coverage_limit |-> 5]

MCPolicies ==
    {Row("P1", "ann", 1, "d1"), Row("P2", "ann", 2, "d2"), Row("P3", "anne", 1, "d1")}

\* Amounts and dates at the bounds of the coverage and just outside them.
Losses == {<<5, 2>>, <<5, 3>>, <<6, 2>>, <<5, 1>>, <<5, 4>>}

Claims(ids, names, phones, dobs, losses) ==
    {[policy_id |-> id, holder_name |-> name, phone |-> phone, dob |-> dob,
      requested_amount |-> loss[1], incident_date |-> loss[2]] :
        id \in ids, name \in names, phone \in phones, dob \in dobs, loss \in losses}

\* Every kind of identification, one loss; and every kind of loss on a few.
MCIntakes ==
    Claims({"P1", "P9", None}, {Plain("ann"), Noisy("ann"), Plain("anne"), None},
           {Number(1, "plain"), Number(1, "noisy"), None}, {"d1", None}, {<<5, 2>>})
    \cup Claims({"P1", None}, {Plain("ann")}, {None}, {None}, Losses)

MCLLMQueries ==
    [policy_id : {"P1", "P9", None}, holder_name : {Plain("ann"), Plain("anne"), Plain("bob"), None},
     phone : {Number(1, "plain"), None}, dob : {"d1", "d2", None}]

\* Fewer claims, for a run about the search alone.
FewIntakes ==
    Claims({"P1", None}, {Plain("ann"), Plain("anne"), None}, {Number(1, "plain"), None},
           {None}, {<<5, 2>>, <<6, 2>>})

FewLLMQueries ==
    [policy_id : {"P1", None}, holder_name : {Plain("ann"), Plain("anne"), None},
     phone : {Number(1, "plain"), None}, dob : {None}]
=============================================================================

--------------------------- MODULE ReviewedRelease ---------------------------
(***************************************************************************)
(* What a reviewed run promises to whoever reads data/output: Notifications*)
(* are released one after the other while the verdict is open, none once   *)
(* it is in, and a run that ends approved has released what was approved.  *)
(* That an open run may release more than once is the price of crashes.    *)
(***************************************************************************)
EXTENDS Naturals, Sequences

CONSTANTS Drafts, Verdicts, Open

VARIABLES verdict, draft, released

vars == <<verdict, draft, released>>

Init == verdict = Open /\ draft \in Drafts \cup {Open} /\ released = <<>>

\* The run writes up the claim, again after a crash.
Redraft ==
    /\ verdict = Open
    /\ draft' \in Drafts \cup {Open}
    /\ UNCHANGED <<verdict, released>>

Release ==
    /\ verdict = Open
    /\ \E text \in Drafts : released' = Append(released, text)
    /\ UNCHANGED <<verdict, draft>>

Close ==
    /\ verdict = Open
    /\ verdict' \in Verdicts
    /\ verdict' = "approve" => released # <<>> /\ released[Len(released)] = draft
    /\ UNCHANGED <<draft, released>>

Next == Redraft \/ Release \/ Close

Spec == Init /\ [][Next]_vars
=============================================================================

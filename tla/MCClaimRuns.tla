---------------------------- MODULE MCClaimRuns ----------------------------
(***************************************************************************)
(* Two replays of one scenario, which may draw the same digits, and one    *)
(* claim typed in.                                                         *)
(***************************************************************************)
EXTENDS ClaimRuns, TLC

CONSTANTS replay1, replay2, typed, digits1, digits2

MCRuns == {replay1, replay2, typed}

MCClaimIds == {"tc003", "claim-1"}

MCClaim == [r \in MCRuns |-> IF r = typed THEN "claim-1" ELSE "tc003"]

MCSuffixes == {digits1, digits2}

Alike == Permutations({replay1, replay2}) \cup Permutations(MCSuffixes)
=============================================================================

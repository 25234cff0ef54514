------------------------------- MODULE MCFleet -------------------------------
(***************************************************************************)
(* Small instances of Fleet for TLC.                                       *)
(***************************************************************************)
EXTENDS Fleet, TLC

CONSTANTS r1, r2, k1, k2, k3, k4, k5, k6, i1, i2, c1, c2, t1

MCManifests == {[s \in Serials |-> t1]}
MCRobotTokens == [s \in Serials |-> t1]

Symmetry == Permutations(Calls) \cup Permutations(Ids)

=============================================================================

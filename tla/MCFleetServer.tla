---------------------------- MODULE MCFleetServer ----------------------------
(***************************************************************************)
(* Small instances of FleetServer for TLC.                                 *)
(***************************************************************************)
EXTENDS FleetAdmission, TLC

CONSTANTS r1, r2, k1, k2, i1, i2, i3, c1, c2, c3, t1, t2

\* Every serial with token t1; a later manifest that tries to replace the tokens
\* by t2; no manifest at all.
MCManifests == {[s \in Serials |-> t1], [s \in Serials |-> t2], [s \in Serials |-> Nil]}
MCManifestOne == {[s \in Serials |-> t1]}

Symmetry == Permutations(Calls) \cup Permutations(Keys) \cup Permutations(Ids)
              \cup Permutations(Serials)

=============================================================================

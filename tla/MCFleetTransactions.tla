------------------------- MODULE MCFleetTransactions -------------------------
(***************************************************************************)
(* Small instances of FleetTransactions for TLC.                           *)
(***************************************************************************)
EXTENDS FleetTransactions

CONSTANTS r1, k1, k2, i1, i2, c1, c2, t1, t2

\* The serial with token t1; a later manifest that tries to replace it by t2.
MCManifests == {[s \in Serials |-> t1], [s \in Serials |-> t2]}

=============================================================================

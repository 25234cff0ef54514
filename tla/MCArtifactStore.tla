-------------------------- MODULE MCArtifactStore ----------------------------
(***************************************************************************)
(* Small instances of ArtifactStore for TLC.                               *)
(***************************************************************************)
EXTENDS ArtifactStore, TLC

CONSTANTS v1, v2, v3, h1, p1, p2, stable, beta

Symmetry == Permutations(Publishers) \cup Permutations(Versions) \cup Permutations(Channels)

=============================================================================

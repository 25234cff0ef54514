---------------------------- MODULE MCOtaUpdates -----------------------------
(***************************************************************************)
(* Small instances of OtaUpdates for TLC.                                  *)
(***************************************************************************)
EXTENDS OtaUpdates

CONSTANTS d1, d2, j1, j2, j3, s1, s2, s3, o1, o2

=============================================================================

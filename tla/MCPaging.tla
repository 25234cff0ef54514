------------------------------ MODULE MCPaging -------------------------------
(***************************************************************************)
(* Small instances of Paging for TLC.                                      *)
(***************************************************************************)
EXTENDS Paging

CONSTANTS j1, j2, j3, j4

=============================================================================

---------------------------- MODULE MCFetchPass ----------------------------
(* FetchPass on one repo and two people who press Refresh.                  *)
EXTENDS FetchPass

CONSTANTS r1, u1, u2
=============================================================================

------------------------------ MODULE MCRollback ------------------------------
(* Values for model-checking Rollback: two threads, so that two rollbacks  *)
(* overlap, and two runs, so that steps of one lie between steps of the    *)
(* other.                                                                  *)
EXTENDS Rollback

CONSTANTS t1, t2, r1, r2

MCThreads == {t1, t2}
MCRuns == {r1, r2}
=============================================================================

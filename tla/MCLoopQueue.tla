----------------------------- MODULE MCLoopQueue -----------------------------
(* Values for model-checking LoopQueue: two publishers, of which one also  *)
(* reads, are enough for one to wait for the other.                        *)
EXTENDS LoopQueue

CONSTANTS t1, t2

MCPublishers == {t1, t2}
MCReaders == {t2}
=============================================================================

---------------------------- MODULE MCEnvelopeQueue ----------------------------
(* Values for model-checking EnvelopeQueue: three threads, so that two     *)
(* can publish or two can drain while a third holds the lock, and two      *)
(* entries, so that a third envelope meets the limit.                      *)
EXTENDS EnvelopeQueue

CONSTANTS t1, t2, t3

MCPublishers == {t1, t2}
MCReaders == {t2, t3}
MCPeekSizes == {0, 1}
=============================================================================

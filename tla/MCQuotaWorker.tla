---------------------------- MODULE MCQuotaWorker ----------------------------
(* Small instances of QuotaWorker for TLC.                                  *)
EXTENDS QuotaWorker
=============================================================================

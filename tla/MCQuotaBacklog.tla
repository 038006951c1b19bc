--------------------------- MODULE MCQuotaBacklog ---------------------------
(* Small instances of QuotaBacklog for TLC.                                *)
EXTENDS QuotaBacklog
=============================================================================

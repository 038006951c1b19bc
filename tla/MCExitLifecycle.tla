--------------------------- MODULE MCExitLifecycle ---------------------------
(* Small instances of ExitLifecycle for TLC.                                *)
EXTENDS ExitLifecycle
=============================================================================

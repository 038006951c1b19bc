---------------------------- MODULE MCRelaySocket ----------------------------
(* Small instances of RelaySocket for TLC.                                  *)
EXTENDS RelaySocket
=============================================================================

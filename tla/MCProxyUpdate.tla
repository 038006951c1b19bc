---------------------------- MODULE MCProxyUpdate ----------------------------
(* Small instances of ProxyUpdate for TLC.                                  *)
EXTENDS ProxyUpdate
=============================================================================

-------------------------- MODULE MCQueryDelivery --------------------------
(* A small instance of QueryDelivery for TLC.                               *)
EXTENDS QueryDelivery
=============================================================================

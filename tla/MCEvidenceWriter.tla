-------------------------- MODULE MCEvidenceWriter --------------------------
(* Small instances of EvidenceWriter for TLC.                              *)
EXTENDS EvidenceWriter, TLC

CONSTANTS r1, r2, r3

MCRecords == {r1, r2, r3}
MCTs == (r1 :> 0) @@ (r2 :> 1) @@ (r3 :> 1)

=============================================================================

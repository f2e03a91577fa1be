---------------------------- MODULE MCSchemaSync ----------------------------
(* Instances of SchemaSync for TLC: three runs, two on one replica.        *)
EXTENDS SchemaSync, TLC

CONSTANTS r1, r2, r3, p1, p2, old, old2, new

MCReplicaOf == r1 :> p1 @@ r2 :> p1 @@ r3 :> p2

(* old2 has other row counts than old. *)
MCFingerprintOf == old :> 1 @@ old2 :> 1 @@ new :> 2
=============================================================================

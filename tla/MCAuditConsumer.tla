-------------------------- MODULE MCAuditConsumer --------------------------
(* Instances of AuditConsumer for TLC.                                     *)
EXTENDS AuditConsumer
=============================================================================

------------------------------ MODULE MCAudit ------------------------------
(* Model-checking instance of the rtld-audit helper.                       *)
EXTENDS AuditInv
=============================================================================

----------------------------- MODULE MCAuditLog -----------------------------
(* The instance of AuditLog for TLC: its sets and bounds are in the cfg.   *)
EXTENDS AuditLog
=============================================================================

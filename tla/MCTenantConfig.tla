--------------------------- MODULE MCTenantConfig ---------------------------
(* TenantConfig for TLC; the configurations give the constants their values. *)
EXTENDS TenantConfig
=============================================================================

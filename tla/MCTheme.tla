------------------------------- MODULE MCTheme -------------------------------
(* The theme provider alone, in a browser and without the property storage. *)
EXTENDS TenantTheme
=============================================================================

------------------------------ MODULE MCDbClient ------------------------------
(* The client alone, for what is said of its connections.                   *)
EXTENDS DbClient
===============================================================================

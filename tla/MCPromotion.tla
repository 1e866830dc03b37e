----------------------------- MODULE MCPromotion ------------------------------
(* The promotion alone, for what is said of the way to prod.                *)
EXTENDS Promotion
===============================================================================

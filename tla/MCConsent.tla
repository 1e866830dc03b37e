------------------------------ MODULE MCConsent ------------------------------
(* Consent and tracking alone, for what is said of every event.            *)
EXTENDS ConsentTracking
=============================================================================

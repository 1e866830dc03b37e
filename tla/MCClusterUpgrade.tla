--------------------------- MODULE MCClusterUpgrade ---------------------------
(* The upgrade alone, for what is said of unavailable workers.              *)
EXTENDS ClusterUpgrade
===============================================================================

--------------------------- MODULE MCRecommender ---------------------------
(* The recommender with budgets and environment counts in, below and above  *)
(* every band.                                                              *)
EXTENDS Recommender
=============================================================================

--------------------------- MODULE MCImagePipeline ----------------------------
(* The builds alone, for what is said of releases.                          *)
EXTENDS ImagePipeline
===============================================================================

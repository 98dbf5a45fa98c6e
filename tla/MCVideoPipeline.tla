--------------------------- MODULE MCVideoPipeline ---------------------------
(* Small instances of VideoPipeline for TLC. *)
EXTENDS VideoPipeline
=============================================================================

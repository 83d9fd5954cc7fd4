--------------------------- MODULE MCDetailStore ----------------------------
(* Instances of DetailStore for TLC. *)
EXTENDS DetailStore
=============================================================================

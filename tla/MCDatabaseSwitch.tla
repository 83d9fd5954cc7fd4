-------------------------- MODULE MCDatabaseSwitch --------------------------
(* Instances of DatabaseSwitch for TLC. *)
EXTENDS DatabaseSwitch
=============================================================================

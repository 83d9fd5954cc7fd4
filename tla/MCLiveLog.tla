----------------------------- MODULE MCLiveLog ------------------------------
(* Instances of LiveLog for TLC. *)
EXTENDS LiveLog
=============================================================================

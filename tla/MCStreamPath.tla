---------------------------- MODULE MCStreamPath ----------------------------
(* Instances of StreamPath for TLC; the .cfg files give the constants values. *)
EXTENDS StreamPath
=============================================================================

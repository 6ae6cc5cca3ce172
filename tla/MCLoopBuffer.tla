---------------------------- MODULE MCLoopBuffer ----------------------------
(* Instances of LoopBuffer for TLC; the .cfg files give the constants values. *)
EXTENDS LoopBuffer
=============================================================================

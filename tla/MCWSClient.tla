----------------------------- MODULE MCWSClient -----------------------------
(* Instances of WSClient for TLC; the .cfg files give the constants values. *)
EXTENDS WSClient
=============================================================================

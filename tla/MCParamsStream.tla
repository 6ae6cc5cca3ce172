--------------------------- MODULE MCParamsStream ---------------------------
(* Instances of ParamsStream for TLC; the .cfg files give the constants values. *)
EXTENDS ParamsStream
=============================================================================

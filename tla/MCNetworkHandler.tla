-------------------------- MODULE MCNetworkHandler --------------------------
(* Instances of NetworkHandler for TLC; the bounds are in the .cfg files.  *)
EXTENDS NetworkHandler
=============================================================================

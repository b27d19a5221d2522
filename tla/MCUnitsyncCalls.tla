---------------------------- MODULE MCUnitsyncCalls ----------------------------
(* Instances of UnitsyncCalls for TLC; the width is in the .cfg files.        *)
EXTENDS UnitsyncCalls
=============================================================================

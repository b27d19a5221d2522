--------------------------- MODULE MCUnitsyncPage ---------------------------
(* Instances of UnitsyncPage for TLC; the bounds are in the .cfg file.     *)
EXTENDS UnitsyncPage
=============================================================================

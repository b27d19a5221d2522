----------------------- MODULE MCUnitsyncHandlerAsync -----------------------
(* Instances of UnitsyncHandlerAsync for TLC.                              *)
EXTENDS UnitsyncHandlerAsync, TLC

\* Handlers are interchangeable, and so are threads.  (Safety runs only.)
Symmetry == Permutations(Handlers) \cup Permutations(Workers)
=============================================================================

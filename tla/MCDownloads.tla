----------------------------- MODULE MCDownloads -----------------------------
(* Instances of Downloads for TLC; the bounds are in the .cfg files.        *)
EXTENDS Downloads, TLC

\* The threads are alike; the files are not, Init names one of them.
ThreadSymmetry == Permutations(Threads)
=============================================================================

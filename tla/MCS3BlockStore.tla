---------------------------- MODULE MCS3BlockStore ----------------------------
(***************************************************************************)
(* S3BlockStore for TLC.  Callers run the same code, so states that differ *)
(* by a renaming of them are explored once.                                *)
(***************************************************************************)
EXTENDS S3BlockStore

CallerSymmetry == Permutations(Callers)
=============================================================================

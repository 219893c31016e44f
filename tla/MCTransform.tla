---------------------------- MODULE MCTransform ----------------------------
(***************************************************************************)
(* Transform for TLC.  The objects are interchangeable.                     *)
(***************************************************************************)
EXTENDS Transform, TLC

Symmetry == Permutations(Objects)
=============================================================================
